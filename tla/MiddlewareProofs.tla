-------------------------- MODULE MiddlewareProofs --------------------------
(***************************************************************************)
(* Proofs about what every request passes before and after its handler:    *)
(* the limiter, for every setting, every length of a minute in ticks and   *)
(* every set of addresses, and the checks and the audit log of the         *)
(* pipeline, for any number of requests, slots and users.                  *)
(*                                                                         *)
(* The arguments.  Of the limiter: tokens are added only after a whole     *)
(* minute without a request, so once a watched minute has admitted a       *)
(* request no tokens are added before it ends; what it admitted and what   *)
(* is left in the bucket together never exceed the capacity (Budgeted).    *)
(* Of the pipeline: the entry is taken from the claims of the request that *)
(* the slot serves; a request past its checks has an operator whom its     *)
(* route admits, and one whose handler has succeeded has carried its       *)
(* operation out (ServedTruly).                                            *)
(***************************************************************************)
EXTENDS RateLimiter, RequestPipeline, TLAPS

------------------------------------------------------------------------------
(* The limiter. *)

\* A watched minute that has admitted a request.
Budgeted(ip) ==
    window[ip] # NoWindow /\ window[ip].count > 0 =>
        /\ buckets[ip] # NoBucket
        /\ buckets[ip].age <= window[ip].age
        /\ window[ip].count + buckets[ip].tokens <= capacity

LimiterInv == LimiterTypeOK /\ \A ip \in IPs : Budgeted(ip)

\* The effective limit is positive whatever the setting is.
LEMMA PerMinPos == perMin \in Nat /\ perMin > 0 /\ capacity = perMin
  BY SettingAssumption DEF perMin, capacity

\* The bucket a request finds is within the capacity.
LEMMA FoundIsBucket ==
  ASSUME LimiterTypeOK, NEW ip \in IPs
  PROVE  Found(ip) \in Bucket
  BY PerMinPos, MinuteAssumption DEF LimiterTypeOK, Found, Bucket

\* Filling keeps the capacity, and adds nothing within a minute.
LEMMA FilledBounds ==
  ASSUME NEW b \in Bucket
  PROVE  /\ Filled(b) \in 0..capacity
         /\ b.age < Minute => Filled(b) = b.tokens
         /\ b.age = Minute => Filled(b) = capacity
<1>1. b.tokens \in 0..capacity /\ b.age \in 0..Minute
  BY DEF Bucket
<1>2. CASE b.age < Minute
  <2>1. b.age \div Minute = 0
    BY <1>1, <1>2, MinuteAssumption
  <2>2. Filled(b) = b.tokens
    BY <1>1, <2>1, PerMinPos DEF Filled, Minimum
  <2>3. QED BY <1>1, <1>2, <2>2
<1>3. CASE b.age = Minute
  <2>1. b.age \div Minute = 1
    BY <1>3, MinuteAssumption
  <2>2. Filled(b) = capacity
    BY <1>1, <2>1, PerMinPos DEF Filled, Minimum
  <2>3. QED BY <1>3, <2>2, PerMinPos, MinuteAssumption
<1>4. QED BY <1>1, <1>2, <1>3, MinuteAssumption

\* An admitted request keeps the budget of the observed minute.
LEMMA AdmitKeeps ==
  ASSUME LimiterInv, NEW ip \in IPs, Admit(ip)
  PROVE  LimiterInv'
<1> DEFINE t == Filled(Found(ip))
           new == [tokens |-> t - 1, age |-> 0]
<1>1. /\ Found(ip) \in Bucket /\ t \in 0..capacity /\ t > 0
      /\ Found(ip).age < Minute => t = Found(ip).tokens
  BY FoundIsBucket, FilledBounds DEF LimiterInv, Admit
<1>a. buckets' = [buckets EXCEPT ![ip] = new]
  BY DEF Admit
<1> HIDE DEF t
<1>2. buckets' = [buckets EXCEPT ![ip] = new] /\ new \in Bucket
  BY <1>1, <1>a, PerMinPos, MinuteAssumption DEF Bucket
<1>3. new.tokens = t - 1 /\ new.age = 0
  OBVIOUS
<1> HIDE DEF new
<1>4. CASE window[ip] = NoWindow
  <2>1. UNCHANGED window
    BY <1>4 DEF Admit, Counted, LimiterInv, LimiterTypeOK
  <2>2. LimiterTypeOK'
    BY <1>2, <2>1, MinuteAssumption DEF Admit, LimiterInv, LimiterTypeOK
  <2>3. ASSUME NEW j \in IPs PROVE Budgeted(j)'
    BY <1>2, <1>4, <2>1 DEF LimiterInv, LimiterTypeOK, Budgeted
  <2>4. QED BY <2>2, <2>3 DEF LimiterInv
<1>5. CASE window[ip] # NoWindow
  <2> DEFINE w == [window[ip] EXCEPT !.count = window[ip].count + 1]
  <2>1. window[ip] \in Window /\ window' = [window EXCEPT ![ip] = w]
    <3>1. Counted(window[ip]) = w
      BY <1>5 DEF Counted
    <3>2. window[ip] \in Window
      BY <1>5 DEF LimiterInv, LimiterTypeOK
    <3>3. QED BY <3>1, <3>2 DEF Admit
  <2>2. /\ w \in Window /\ w.age = window[ip].age
        /\ w.count = window[ip].count + 1
    BY <2>1 DEF Window
  <2>3. w # NoWindow /\ new # NoBucket
    BY <1>2, <2>2, NoBucketAssumption
  <2>4. w.age \in 0..(Minute - 1) /\ window[ip].count \in Nat
    BY <2>1, <2>2 DEF Window
  <2>5. window[ip].count + t <= capacity
    <3>1. CASE window[ip].count = 0
      BY <1>1, <3>1, PerMinPos
    <3>2. CASE window[ip].count > 0
      <4>1. /\ buckets[ip] # NoBucket
            /\ buckets[ip].age <= window[ip].age
            /\ window[ip].count + buckets[ip].tokens <= capacity
        BY <1>5, <3>2 DEF LimiterInv, Budgeted
      <4>2. Found(ip) = buckets[ip] /\ Found(ip).age < Minute
        BY <1>1, <2>2, <2>4, <4>1, MinuteAssumption DEF Found, Bucket
      <4>3. QED BY <1>1, <4>1, <4>2
    <3>3. QED BY <2>4, <3>1, <3>2
  <2> HIDE DEF w
  <2>6. LimiterTypeOK'
    BY <1>2, <2>1, <2>2, MinuteAssumption DEF Admit, LimiterInv, LimiterTypeOK
  <2>7. Budgeted(ip)'
    BY <1>1, <1>2, <1>3, <2>1, <2>2, <2>3, <2>4, <2>5, PerMinPos
       DEF LimiterInv, LimiterTypeOK, Budgeted
  <2>8. ASSUME NEW j \in IPs, j # ip PROVE Budgeted(j)'
    BY <1>2, <2>1, <2>8 DEF LimiterInv, LimiterTypeOK, Budgeted
  <2>9. QED BY <2>6, <2>7, <2>8 DEF LimiterInv
<1>6. QED BY <1>4, <1>5

\* A rejected request moves lastFill and keeps the budget.
LEMMA RejectKeeps ==
  ASSUME LimiterInv, NEW ip \in IPs, Reject(ip)
  PROVE  LimiterInv'
<1> DEFINE t == Filled(Found(ip))
           new == [tokens |-> t, age |-> 0]
<1>1. t \in 0..capacity /\ t <= 0
  BY FoundIsBucket, FilledBounds DEF LimiterInv, Reject
<1>2. /\ buckets' = [buckets EXCEPT ![ip] = new] /\ UNCHANGED <<window, idle>>
      /\ new \in Bucket /\ new.tokens = 0 /\ new.age = 0
  BY <1>1, PerMinPos, MinuteAssumption DEF Reject, Bucket
<1> HIDE DEF t, new
<1>3. LimiterTypeOK'
  BY <1>2 DEF LimiterInv, LimiterTypeOK
<1>4. ASSUME NEW j \in IPs PROVE Budgeted(j)'
  <2>1. CASE j = ip /\ window[ip] # NoWindow
    <3>1. window[ip].age \in 0..(Minute - 1) /\ window[ip].count \in Nat
      BY <2>1 DEF LimiterInv, LimiterTypeOK, Window
    <3>2. window[ip].count > 0 =>
            /\ window[ip].count + buckets[ip].tokens <= capacity
            /\ buckets[ip].tokens \in 0..capacity
      BY <2>1 DEF LimiterInv, LimiterTypeOK, Budgeted, Bucket
    <3>3. new # NoBucket
      BY <1>2, NoBucketAssumption
    <3>4. QED BY <1>2, <2>1, <3>1, <3>2, <3>3, PerMinPos
              DEF LimiterInv, LimiterTypeOK, Budgeted
  <2>2. CASE j # ip \/ window[ip] = NoWindow
    BY <1>2, <2>2 DEF LimiterInv, LimiterTypeOK, Budgeted
  <2>3. QED BY <2>1, <2>2
<1>5. QED BY <1>3, <1>4 DEF LimiterInv

\* The clock keeps the budget: a bucket old enough to be filled again is
\* older than the minute observed.
LEMMA TickKeeps ==
  ASSUME LimiterInv, Tick
  PROVE  LimiterInv'
<1>1. ASSUME NEW b \in Bucket
      PROVE  /\ Older(b) \in Bucket /\ Older(b).tokens = b.tokens
             /\ Older(b).age = Minimum(b.age + 1, Minute)
  <2>1. b # NoBucket
    BY NoBucketAssumption
  <2>2. b.age \in 0..Minute
    BY DEF Bucket
  <2>3. Minimum(b.age + 1, Minute) \in 0..Minute
    BY <2>2, MinuteAssumption DEF Minimum
  <2>4. QED BY <2>1, <2>3 DEF Older, Bucket
<1>2. ASSUME NEW w \in Window
      PROVE  \/ OlderWindow(w) = NoWindow
             \/ /\ OlderWindow(w) \in Window /\ OlderWindow(w).count = w.count
                /\ OlderWindow(w).age = w.age + 1 /\ w.age + 1 < Minute
  <2>1. w # NoWindow
    BY NoBucketAssumption
  <2>2. w.age \in 0..(Minute - 1)
    BY DEF Window
  <2>3. CASE w.age + 1 = Minute
    BY <2>1, <2>3 DEF OlderWindow
  <2>4. CASE w.age + 1 # Minute
    <3>1. w.age + 1 \in 0..(Minute - 1) /\ w.age + 1 < Minute
      BY <2>2, <2>4, MinuteAssumption
    <3>2. OlderWindow(w) = [w EXCEPT !.age = w.age + 1]
      BY <2>1, <2>4 DEF OlderWindow
    <3>3. QED BY <3>1, <3>2 DEF Window
  <2>5. QED BY <2>3, <2>4
<1>3. /\ buckets' = [ip \in IPs |-> Older(buckets[ip])]
      /\ window' = [ip \in IPs |-> OlderWindow(window[ip])]
      /\ idle' = [ip \in IPs |-> Minimum(idle[ip] + 1, Minute)]
  BY DEF Tick
<1>4. Older(NoBucket) = NoBucket /\ OlderWindow(NoWindow) = NoWindow
  BY DEF Older, OlderWindow
<1>5. LimiterTypeOK'
  <2>1. \A ip \in IPs : Older(buckets[ip]) \in Bucket \cup {NoBucket}
    BY <1>1, <1>4 DEF LimiterInv, LimiterTypeOK
  <2>2. \A ip \in IPs : OlderWindow(window[ip]) \in Window \cup {NoWindow}
    BY <1>2, <1>4 DEF LimiterInv, LimiterTypeOK
  <2>3. ASSUME NEW ip \in IPs
        PROVE  Minimum(idle[ip] + 1, Minute) \in 0..Minute
    <3>1. idle[ip] \in 0..Minute
      BY DEF LimiterInv, LimiterTypeOK
    <3>2. QED BY <3>1, MinuteAssumption DEF Minimum
  <2>4. QED BY <1>3, <2>1, <2>2, <2>3 DEF LimiterTypeOK
<1>6. ASSUME NEW ip \in IPs, window'[ip] # NoWindow, window'[ip].count > 0
      PROVE  /\ buckets'[ip] # NoBucket
             /\ buckets'[ip].age <= window'[ip].age
             /\ window'[ip].count + buckets'[ip].tokens <= capacity
  <2>1. window[ip] \in Window /\ window[ip] # NoWindow
    BY <1>3, <1>4, <1>6 DEF LimiterInv, LimiterTypeOK
  <2>2. /\ window'[ip].count = window[ip].count
        /\ window'[ip].age = window[ip].age + 1
        /\ window[ip].age + 1 < Minute
    BY <1>2, <1>3, <1>6, <2>1
  <2>3. /\ buckets[ip] # NoBucket /\ buckets[ip] \in Bucket
        /\ buckets[ip].age <= window[ip].age
        /\ window[ip].count + buckets[ip].tokens <= capacity
    BY <1>6, <2>1, <2>2 DEF LimiterInv, LimiterTypeOK, Budgeted
  <2>4. /\ buckets'[ip] \in Bucket /\ buckets'[ip].tokens = buckets[ip].tokens
        /\ buckets'[ip].age = Minimum(buckets[ip].age + 1, Minute)
    BY <1>1, <1>3, <2>3
  <2>5. buckets[ip].age \in 0..Minute /\ window[ip].age \in 0..(Minute - 1)
    BY <2>1, <2>3 DEF Bucket, Window
  <2>6. Minimum(buckets[ip].age + 1, Minute) <= window[ip].age + 1
    BY <2>3, <2>5, MinuteAssumption DEF Minimum
  <2>7. buckets'[ip] # NoBucket
    BY <2>4, NoBucketAssumption
  <2>8. QED BY <2>2, <2>3, <2>4, <2>6, <2>7
<1>7. QED BY <1>5, <1>6 DEF LimiterInv, Budgeted

\* A minute that begins to be observed has admitted nothing.
LEMMA WatchKeeps ==
  ASSUME LimiterInv, NEW ip \in IPs, Watch(ip)
  PROVE  LimiterInv'
<1> DEFINE w == [age |-> 0, count |-> 0]
<1>1. w \in Window /\ w.count = 0
  BY MinuteAssumption DEF Window
<1>2. window' = [window EXCEPT ![ip] = w] /\ UNCHANGED <<buckets, idle>>
  BY DEF Watch
<1> HIDE DEF w
<1>3. QED BY <1>1, <1>2 DEF LimiterInv, LimiterTypeOK, Budgeted

\* The empty map satisfies the invariant.
LEMMA LimiterStarts == LimiterInit => LimiterInv
  BY MinuteAssumption DEF LimiterInit, LimiterInv, LimiterTypeOK, Budgeted

\* A restart satisfies it again.
LEMMA RestartKeeps == LimiterInv /\ Restart => LimiterInv'
  BY MinuteAssumption DEF Restart, LimiterInv, LimiterTypeOK, Budgeted

\* The inductive invariant: tokens left and requests admitted in the observed
\* minute never exceed the limit together.
THEOREM LimiterInvariance == LimiterSpec => []LimiterInv
<1>1. LimiterInv /\ [LimiterNext]_limiterVars => LimiterInv'
  <2>1. LimiterInv /\ UNCHANGED limiterVars => LimiterInv'
    BY DEF LimiterInv, LimiterTypeOK, Budgeted, limiterVars
  <2>2. QED BY <2>1, AdmitKeeps, RejectKeeps, TickKeeps, WatchKeeps,
               RestartKeeps DEF LimiterNext
<1>2. QED BY <1>1, LimiterStarts, PTL DEF LimiterSpec

\* Buckets stay within the capacity, through every refill and restart.
THEOREM LimiterTypeCorrect == LimiterSpec => []LimiterTypeOK
<1>1. LimiterInv => LimiterTypeOK
  BY DEF LimiterInv
<1>2. QED BY <1>1, LimiterInvariance, PTL

\* Whenever the observed minute begins, it admits at most perMin requests.
THEOREM AtMostPerMin == LimiterSpec => []NeverOverRate
<1>1. LimiterInv => NeverOverRate
  <2> SUFFICES ASSUME LimiterInv, NEW ip \in IPs, window[ip] # NoWindow
               PROVE  window[ip].count <= perMin
    BY DEF NeverOverRate
  <2>1. window[ip].count \in Nat
    BY DEF LimiterInv, LimiterTypeOK, Window
  <2>2. CASE window[ip].count = 0
    BY <2>2, PerMinPos
  <2>3. CASE window[ip].count > 0
    BY <2>1, <2>3, PerMinPos DEF LimiterInv, LimiterTypeOK, Budgeted, Bucket
  <2>4. QED BY <2>1, <2>2, <2>3
<1>2. QED BY <1>1, LimiterInvariance, PTL

\* The only requests refused are those made less than a minute after the
\* previous one of the same IP.
THEOREM QuietMinute == LimiterSpec => QuietMinuteReopens
<1>1. ASSUME LimiterInv, NEW ip \in IPs, Reject(ip)
      PROVE  buckets[ip] # NoBucket /\ buckets[ip].age < Minute
  <2>1. Found(ip) \in Bucket /\ Filled(Found(ip)) <= 0
    BY <1>1, FoundIsBucket DEF LimiterInv, Reject
  <2>2. Found(ip).age # Minute
    BY <2>1, FilledBounds, PerMinPos
  <2>3. Found(ip).age \in 0..Minute
    BY <2>1 DEF Bucket
  <2>4. Found(ip).age < Minute
    BY <2>2, <2>3, MinuteAssumption
  <2>5. buckets[ip] # NoBucket
    <3> SUFFICES ASSUME buckets[ip] = NoBucket PROVE FALSE
      OBVIOUS
    <3>1. Found(ip).tokens = capacity
      BY DEF Found
    <3>2. QED BY <2>1, <2>4, <3>1, FilledBounds, PerMinPos
  <2>6. QED BY <2>4, <2>5 DEF Found
<1>2. LimiterInv => \A ip \in IPs :
        Reject(ip) => buckets[ip] # NoBucket /\ buckets[ip].age < Minute
  BY <1>1
<1>3. QED BY <1>2, LimiterInvariance, PTL DEF QuietMinuteReopens

------------------------------------------------------------------------------
(* The pipeline. *)

InService(s) == request[s] # NoRequest

\* Requests in service were admitted, and succeeded writes are carried out.
ServedTruly ==
    \A s \in Slots : InService(s) =>
        /\ Admitted(request[s].operation)
        /\ MustAudit(s) => request[s].operation \in carried

IInv == TypeOK /\ ServedTruly /\ AuditSound

\* A slot that is not free serves a request.
LEMMA SlotServes ==
    ASSUME TypeOK, NEW s \in Slots, ~Free(s)
    PROVE  request[s] \in Request
  BY DEF TypeOK, Free

\* An audited request has a write route and was answered OK.
LEMMA AuditedIsOK ==
    ASSUME TypeOK, NEW s \in Slots, MustAudit(s)
    PROVE  /\ request[s] \in Request
           /\ request[s].operation \in {op \in Operation : op.route \in Writes}
           /\ request[s].operation.no \in 1..MaxRequests
           /\ request[s].status = OK
  <1>1. request[s] \in Request
    BY SlotServes DEF MustAudit, Handled
  <1>2. request[s].operation.route \in Writes /\ request[s].status < 400
    BY DEF MustAudit, Audited
  <1>3. request[s].status = OK
    BY <1>1, <1>2 DEF Request, HandlerErrors, OK, NoAnswer, BadRequest,
        Unauthorized, Conflict, Unprocessable, InternalError, MustAudit, Handled
  <1> QED
    BY <1>1, <1>2, <1>3 DEF Request, Operation

\* The types are kept by every step.
LEMMA TypesKept == TypeOK /\ [Next]_vars => TypeOK'
  <1> SUFFICES ASSUME TypeOK, [Next]_vars PROVE TypeOK'
    OBVIOUS
  <1> USE BoundAssumption, AskedAssumption
  <1> DEFINE Codes == HandlerErrors \cup {NoAnswer, OK, Forbidden, TooManyRequests}
  <1> DEFINE Done == {op \in Operation : op.route \in Writes}
  <1>1. ASSUME NEW s \in Slots, NEW code \in Codes, Refuse(s, code) PROVE TypeOK'
    BY <1>1 DEF TypeOK, Refuse
  <1>2. ASSUME NEW s \in Slots, NEW route \in Routes,
               NEW user \in Users \cup {Nobody}, Enter(s, route, user)
        PROVE  TypeOK'
    <2> DEFINE new == [operation |-> [no |-> reached + 1, route |-> route, user |-> user],
                       status |-> NoAnswer]
    <2>1. reached + 1 \in 1..MaxRequests /\ reached' \in 0..MaxRequests
      BY <1>2 DEF TypeOK, Enter
    <2>2. new \in Request
      BY <2>1 DEF Request, Operation
    <2>3. request' \in [Slots -> Request \cup {NoRequest}]
      BY <1>2, <2>2 DEF TypeOK, Enter
    <2>4. answer' \in [Slots -> Codes]
      BY <1>2 DEF TypeOK, Enter
    <2> QED
      BY <1>2, <2>1, <2>3, <2>4 DEF TypeOK, Enter
  <1>3. ASSUME NEW s \in Slots, Handling(s),
               NEW code \in {OK} \cup HandlerErrors, Returns(s, code)
        PROVE  request' \in [Slots -> Request \cup {NoRequest}]
    <2>1. request[s] \in Request
      BY <1>3, SlotServes DEF Handling
    <2>2. [request[s] EXCEPT !.status = code] \in Request
      BY <2>1 DEF Request
    <2> QED
      BY <1>3, <2>2 DEF Returns, TypeOK
  <1>4. ASSUME NEW s \in Slots, ~Free(s), Perform(s) PROVE carried' \subseteq Done
    BY <1>4, SlotServes DEF Perform, TypeOK, Request
  <1>5. ASSUME NEW s \in Slots, ~Free(s), Hit(s) PROVE hit' \subseteq 1..MaxRequests
    BY <1>5, SlotServes DEF Hit, TypeOK, Request, Operation
  <1>6. ASSUME NEW s \in Slots, Handled(s), Finish(s, request[s].status)
        PROVE  /\ request' \in [Slots -> Request \cup {NoRequest}]
               /\ answer' \in [Slots -> Codes]
    <2>1. request[s].status \in Codes
      BY <1>6, SlotServes DEF Handled, Request
    <2> QED
      BY <1>6, <2>1 DEF Finish, TypeOK
  <1>7. CASE Crash
    <2>1. hit' \subseteq 1..MaxRequests
      <3>1. \A s \in Slots : ~Free(s) => request[s].operation.no \in 1..MaxRequests
        BY SlotServes DEF Request, Operation
      <3> QED
        BY <1>7, <3>1 DEF Crash, TypeOK
    <2>2. request' \in [Slots -> Request \cup {NoRequest}] /\ answer' \in [Slots -> Codes]
      BY <1>7 DEF Crash
    <2> QED
      BY <1>7, <2>1, <2>2 DEF Crash, TypeOK
  <1>8. ASSUME NEW s \in Slots, AnswerLost(s) PROVE TypeOK'
    BY <1>3, <1>4, <1>5, <1>8 DEF AnswerLost, Handling, Returns, TypeOK, HandlerErrors
  <1>9. ASSUME NEW s \in Slots, AuditFails(s) PROVE TypeOK'
    <2>1. Handled(s) /\ ~Free(s) /\ request[s].operation \in Done
      BY <1>9, AuditedIsOK DEF AuditFails, MustAudit, Handled
    <2> QED
      BY <1>5, <1>6, <1>9, <2>1 DEF AuditFails, Finish, TypeOK
  <1>10. ASSUME NEW s \in Slots, Panic(s) PROVE TypeOK'
    <2>1. ~Free(s) /\ carried' \subseteq Done
      BY <1>4, <1>10 DEF Panic, Handling, TypeOK
    <2>2. request' \in [Slots -> Request \cup {NoRequest}] /\ answer' \in [Slots -> Codes]
      BY <1>10 DEF Panic, TypeOK, HandlerErrors
    <2> QED
      BY <1>5, <1>10, <2>1, <2>2 DEF Panic, TypeOK
  <1>11. ASSUME NEW s \in Slots, Arrive(s) PROVE TypeOK'
    <2>1. PICK route \in Routes :
            \/ Limited(s, route)
            \/ EnterPublic(s, route)
            \/ \E token \in Users \cup {BadToken} :
                \/ TokenRefused(s, route, token)
                \/ RoleRefused(s, route, token)
                \/ EnterAs(s, route, token)
      BY <1>11 DEF Arrive
    <2> QED
      BY <1>1, <1>2, <2>1 DEF Limited, EnterPublic, TokenRefused, RoleRefused,
          EnterAs, HandlerErrors
  <1>12. ASSUME NEW s \in Slots, HandlerSucceeds(s) PROVE TypeOK'
    BY <1>3, <1>4, <1>12 DEF HandlerSucceeds, Handling, Returns, TypeOK
  <1>13. ASSUME NEW s \in Slots, NEW code \in HandlerErrors, HandlerRefuses(s, code)
         PROVE  TypeOK'
    BY <1>3, <1>13 DEF HandlerRefuses, Returns, TypeOK
  <1>14. ASSUME NEW s \in Slots, AuditInserts(s) PROVE TypeOK'
    <2>1. Handled(s) /\ request[s].operation \in Done
      BY <1>14, AuditedIsOK DEF AuditInserts, MustAudit
    <2> QED
      BY <1>6, <1>14, <2>1 DEF AuditInserts, Finish, TypeOK
  <1>15. ASSUME NEW s \in Slots, NotAudited(s) PROVE TypeOK'
    BY <1>6, <1>15 DEF NotAudited, Finish, TypeOK
  <1>16. CASE UNCHANGED vars
    BY <1>16 DEF vars, TypeOK
  <1> QED
    BY <1>7, <1>8, <1>9, <1>10, <1>11, <1>12, <1>13, <1>14, <1>15, <1>16
      DEF Next, Fault, Serve

\* Requests in service stay truly served, and the trail sound.
LEMMA ServiceKept == IInv /\ [Next]_vars => (ServedTruly /\ AuditSound)'
  <1> SUFFICES ASSUME IInv, [Next]_vars PROVE ServedTruly' /\ AuditSound'
    BY DEF IInv
  <1> USE DEF IInv
  <1> DEFINE Others(s) == \A t \in Slots \ {s} : request'[t] = request[t]
  \* A step that changes one slot: only that slot has something to show.
  <1>1. ASSUME NEW s \in Slots, Others(s), carried \subseteq carried',
               \/ request'[s] = NoRequest
               \/ /\ Admitted(request'[s].operation)
                  /\ MustAudit(s)' => request'[s].operation \in carried'
        PROVE  ServedTruly'
    BY <1>1 DEF ServedTruly, InService, MustAudit, Handled, Free, Admitted
  <1>2. ASSUME trail' = trail, carried \subseteq carried' PROVE AuditSound'
    BY <1>2 DEF AuditSound, Admitted
  <1>3. ASSUME NEW s \in Slots, NEW code, Refuse(s, code)
        PROVE  ServedTruly' /\ AuditSound'
    BY <1>1, <1>2, <1>3 DEF Refuse, Free
  <1>4. ASSUME NEW s \in Slots, NEW route, NEW user, Enter(s, route, user),
               IF route \in Public THEN user = Nobody
               ELSE user \in Users /\ RoleOf[user] \in RequiredRoles(route)
        PROVE  ServedTruly' /\ AuditSound'
    <2>1. /\ request'[s].operation.route = route /\ request'[s].operation.user = user
          /\ request'[s].status = NoAnswer
          /\ Others(s)
      BY <1>4 DEF Enter, TypeOK
    <2>2. Admitted(request'[s].operation) /\ ~MustAudit(s)'
      BY <1>4, <2>1 DEF Admitted, MustAudit, Handled
    <2> QED
      BY <1>1, <1>2, <1>4, <2>1, <2>2 DEF Enter
  \* A handler that returns: a success has carried the operation out.
  <1>5. ASSUME NEW s \in Slots, Handling(s), carried \subseteq carried',
               NEW code \in {OK} \cup HandlerErrors, Returns(s, code),
               code = OK => Perform(s)
        PROVE  ServedTruly' /\ AuditSound'
    <2>1. /\ request'[s].operation = request[s].operation
          /\ request'[s].status = code
          /\ Others(s)
      BY <1>5, SlotServes DEF Handling, Returns, TypeOK, Request
    <2>2. Admitted(request'[s].operation)
      BY <1>5, <2>1 DEF ServedTruly, InService, Handling, Free
    <2>3. MustAudit(s)' => code = OK
      BY <2>1 DEF MustAudit, Audited, HandlerErrors, BadRequest, Unauthorized,
          Conflict, Unprocessable, InternalError
    <2>4. MustAudit(s)' => request'[s].operation \in carried'
      BY <1>5, <2>1, <2>3 DEF Perform, MustAudit, Audited
    <2> QED
      BY <1>1, <1>2, <1>5, <2>1, <2>2, <2>4 DEF Returns
  <1>6. ASSUME NEW s \in Slots, Finish(s, request[s].status), ~Free(s),
               \/ trail' = trail
               \/ MustAudit(s) /\ trail' = trail \cup {request[s].operation}
        PROVE  ServedTruly' /\ AuditSound'
    <2>1. ServedTruly'
      BY <1>1, <1>6 DEF Finish, TypeOK
    <2>2. MustAudit(s) => /\ request[s].operation \in carried
                          /\ Admitted(request[s].operation)
      BY <1>6 DEF ServedTruly, InService, Free
    <2>3. AuditSound'
      BY <1>6, <2>2 DEF AuditSound, Finish, Admitted
    <2> QED
      BY <2>1, <2>3
  <1>7. CASE Crash
    BY <1>2, <1>7 DEF Crash, ServedTruly, InService
  <1>8. ASSUME NEW s \in Slots, AnswerLost(s) PROVE ServedTruly' /\ AuditSound'
    BY <1>5, <1>8 DEF AnswerLost, Perform, HandlerErrors
  <1>9. ASSUME NEW s \in Slots, AuditFails(s) PROVE ServedTruly' /\ AuditSound'
    BY <1>6, <1>9 DEF AuditFails, MustAudit, Handled
  <1>10. ASSUME NEW s \in Slots, Panic(s) PROVE ServedTruly' /\ AuditSound'
    <2>1. request'[s] = NoRequest /\ Others(s) /\ carried \subseteq carried'
      BY <1>10 DEF Panic, Perform, TypeOK
    <2> QED
      BY <1>1, <1>2, <1>10, <2>1 DEF Panic
  <1>11. ASSUME NEW s \in Slots, Arrive(s) PROVE ServedTruly' /\ AuditSound'
    BY <1>3, <1>4, <1>11 DEF Arrive, Limited, EnterPublic, TokenRefused,
        RoleRefused, EnterAs
  <1>12. ASSUME NEW s \in Slots, HandlerSucceeds(s) PROVE ServedTruly' /\ AuditSound'
    BY <1>5, <1>12 DEF HandlerSucceeds, Perform
  <1>13. ASSUME NEW s \in Slots, NEW code \in HandlerErrors, HandlerRefuses(s, code)
         PROVE  ServedTruly' /\ AuditSound'
    BY <1>5, <1>13 DEF HandlerRefuses, HandlerErrors, OK, BadRequest, Unauthorized,
        Conflict, Unprocessable, InternalError
  <1>14. ASSUME NEW s \in Slots, AuditInserts(s) \/ NotAudited(s)
         PROVE  ServedTruly' /\ AuditSound'
    BY <1>6, <1>14 DEF AuditInserts, NotAudited, MustAudit, Handled
  <1>15. CASE UNCHANGED vars
    BY <1>15 DEF vars, ServedTruly, InService, MustAudit, Handled, Free, Admitted,
        AuditSound
  <1> QED
    BY <1>7, <1>8, <1>9, <1>10, <1>11, <1>12, <1>13, <1>14, <1>15
      DEF Next, Fault, Serve

\* The inductive invariant holds in every reachable state.
THEOREM Invariance == Spec => []IInv
  <1>1. Init => IInv
    BY BoundAssumption DEF Init, IInv, TypeOK, ServedTruly, InService, AuditSound
  <1>2. IInv /\ [Next]_vars => IInv'
    BY TypesKept, ServiceKept DEF IInv
  <1> QED
    BY <1>1, <1>2, PTL DEF Spec

\* Requests, trail and history keep their types, for any slots and users.
THEOREM TypeCorrect == Spec => []TypeOK
  <1>1. IInv => TypeOK
    BY DEF IInv
  <1> QED
    BY <1>1, Invariance, PTL

\* Each audit entry is of an operation that was carried out, by an operator
\* whom the route admits: AuditLog runs behind the handler and reads the claims.
THEOREM TrailIsSound == Spec => []AuditSound
  <1>1. IInv => AuditSound
    BY DEF IInv
  <1> QED
    BY <1>1, Invariance, PTL

\* An operation carried out without an entry is in the slot that serves it, on
\* its way to the entry, or a fault has hit its request.
THEOREM TrailIsComplete == Spec => []AuditComplete
  <1>1. Init => AuditComplete
    BY DEF Init, AuditComplete
  <1>2. TypeOK /\ AuditComplete /\ [Next]_vars => AuditComplete'
    <2> SUFFICES ASSUME TypeOK, AuditComplete, [Next]_vars,
                        NEW op \in carried' \ trail', op.no \notin hit'
                 PROVE  \E t \in Slots : (MustAudit(t) /\ request[t].operation = op)'
      BY DEF AuditComplete
    <2> DEFINE Coming(t) == MustAudit(t) /\ request[t].operation = op
    \* What was on its way before the step: nothing but its insert ends that.
    <2>1. ASSUME op \in carried, trail \subseteq trail', hit \subseteq hit'
          PROVE  \E t \in Slots : Coming(t)
      BY <2>1 DEF AuditComplete
    <2>2. ASSUME NEW s \in Slots, op \in carried, ~Coming(s),
                 trail \subseteq trail', hit \subseteq hit',
                 \A t \in Slots \ {s} : request'[t] = request[t]
          PROVE  \E t \in Slots : Coming(t)'
      BY <2>1, <2>2 DEF MustAudit, Handled, Free
    <2>3. ASSUME NEW s \in Slots, Arrive(s) PROVE \E t \in Slots : Coming(t)'
      <3>1. /\ Free(s) /\ UNCHANGED <<trail, carried, hit>>
            /\ \A t \in Slots \ {s} : request'[t] = request[t]
        BY <2>3 DEF Arrive, Limited, EnterPublic, TokenRefused, RoleRefused,
            EnterAs, Refuse, Enter, TypeOK
      <3> QED
        BY <2>2, <3>1 DEF MustAudit, Handled
    <2>4. ASSUME NEW s \in Slots, HandlerSucceeds(s) PROVE \E t \in Slots : Coming(t)'
      <3>1. /\ request'[s].operation = request[s].operation
            /\ request'[s].status = OK
            /\ request[s] \in Request /\ request'[s] \in Request
            /\ \A t \in Slots \ {s} : request'[t] = request[t]
        BY <2>4, SlotServes DEF HandlerSucceeds, Handling, Returns, TypeOK, Request
      <3>2. CASE op \in carried
        BY <2>2, <2>4, <3>1, <3>2 DEF HandlerSucceeds, Handling, Returns, MustAudit, Handled
      <3>3. CASE op \notin carried
        <4>1. op = request[s].operation /\ op.route \in Writes
          BY <2>4, <3>3 DEF HandlerSucceeds, Perform
        <4> QED
          BY <3>1, <4>1, AbsenceAssumption DEF MustAudit, Handled, Free, Audited,
              OK, NoAnswer
      <3> QED
        BY <3>2, <3>3
    <2>5. ASSUME NEW s \in Slots, NEW code \in HandlerErrors, HandlerRefuses(s, code)
          PROVE  \E t \in Slots : Coming(t)'
      BY <2>2, <2>5 DEF HandlerRefuses, Returns, Handling, MustAudit, Handled, TypeOK
    <2>6. ASSUME NEW s \in Slots, AuditInserts(s) \/ AuditFails(s) \/ NotAudited(s)
          PROVE  \E t \in Slots : Coming(t)'
      <3>1. op \in carried /\ trail \subseteq trail' /\ hit \subseteq hit'
        BY <2>6 DEF AuditInserts, AuditFails, NotAudited, Finish, Hit
      <3>2. ~Coming(s)
        BY <2>6 DEF AuditInserts, AuditFails, NotAudited, Hit
      <3> QED
        BY <2>2, <2>6, <3>1, <3>2 DEF AuditInserts, AuditFails, NotAudited, Finish, TypeOK
    \* A fault that hits a request excuses its operation.
    <2>7. ASSUME NEW s \in Slots, AnswerLost(s) \/ Panic(s)
          PROVE  \E t \in Slots : Coming(t)'
      <3>1. op \in carried /\ trail \subseteq trail' /\ hit \subseteq hit'
        BY <2>7 DEF AnswerLost, Panic, Perform, Returns, Hit
      <3> QED
        BY <2>2, <2>7, <3>1 DEF AnswerLost, Panic, Returns, Handling, MustAudit,
            Handled, TypeOK
    <2>8. CASE Crash
      <3>1. PICK t \in Slots : Coming(t)
        BY <2>1, <2>8 DEF Crash
      <3>2. op.no \in hit'
        BY <2>8, <3>1 DEF Crash, MustAudit, Handled
      <3> QED
        BY <3>2
    <2>9. CASE UNCHANGED vars
      BY <2>1, <2>9 DEF vars, MustAudit, Handled, Free
    <2> QED
      BY <2>3, <2>4, <2>5, <2>6, <2>7, <2>8, <2>9 DEF Next, Fault, Serve
  <1> QED
    BY <1>1, <1>2, TypeCorrect, PTL DEF Spec

==============================================================================
