----------------------------- MODULE RateLimiter -----------------------------
(***************************************************************************)
(* The rate limiter in front of /auth/register and /auth/login: one bucket *)
(* of tokens per client IP, filled up in whole minutes since the last      *)
(* request of that IP.  Limit holds the mutex from the lookup to the       *)
(* decrement and reads the clock under it, so one request is one step.     *)
(*                                                                         *)
(* Time passes in ticks; Minute ticks are a minute.  Ages stop growing at  *)
(* Minute, which loses nothing: a bucket left alone for one minute is full *)
(* and for several minutes too.                                            *)
(***************************************************************************)
EXTENDS Integers

CONSTANTS
    IPs,          \* client addresses
    Setting,      \* RATE_LIMIT_PER_MINUTE
    Minute,       \* ticks in a minute
    NoBucket, NoWindow

VARIABLES
    buckets,      \* buckets[ip]: the tokens and the age of lastFill
    window,       \* history: a minute that began at some moment, and how
                  \* many requests of ip it has admitted
    idle          \* history: ticks since a request of ip was last admitted

limiterVars == <<buckets, window, idle>>

\* NewRateLimiter: a setting that is not positive means 120.
perMin == IF Setting <= 0 THEN 120 ELSE Setting
capacity == perMin

Bucket == [tokens: 0..capacity, age: 0..Minute]

Window == [age: 0..(Minute - 1), count: Nat]

ASSUME SettingAssumption == Setting \in Int
ASSUME MinuteAssumption == Minute \in Nat \ {0}
ASSUME NoBucketAssumption == NoBucket \notin Bucket /\ NoWindow \notin Window

------------------------------------------------------------------------------

\* The bucket the request finds: a full one the first time.
Found(ip) ==
    IF buckets[ip] = NoBucket THEN [tokens |-> capacity, age |-> 0]
    ELSE buckets[ip]

Minimum(m, n) == IF m < n THEN m ELSE n

\* tokens after int(elapsed.Minutes()) whole minutes, capped.
FilledEveryTick(b) == Minimum(b.tokens + b.age * perMin, capacity)   \* mutant
FilledUncapped(b) == b.tokens + (b.age \div Minute) * perMin         \* mutant
FilledNever(b) == b.tokens                                           \* mutant
Filled(b) == Minimum(b.tokens + (b.age \div Minute) * perMin, capacity)

Counted(w) == IF w = NoWindow THEN w ELSE [w EXCEPT !.count = w.count + 1]

\* A token is left: the request goes on to its handler.
Admit(ip) ==
    LET tokens == Filled(Found(ip)) IN
    /\ tokens > 0
    /\ buckets' = [buckets EXCEPT ![ip] = [tokens |-> tokens - 1, age |-> 0]]
    /\ window' = [window EXCEPT ![ip] = Counted(window[ip])]
    /\ idle' = [idle EXCEPT ![ip] = 0]

\* No token is left: 429.  lastFill moves all the same.
Reject(ip) ==
    LET tokens == Filled(Found(ip)) IN
    /\ tokens <= 0
    /\ buckets' = [buckets EXCEPT ![ip] = [tokens |-> tokens, age |-> 0]]
    /\ UNCHANGED <<window, idle>>

------------------------------------------------------------------------------

Older(b) == IF b = NoBucket THEN b
            ELSE [b EXCEPT !.age = Minimum(@ + 1, Minute)]

OlderWindow(w) == IF w = NoWindow THEN w
                  ELSE IF w.age + 1 = Minute THEN NoWindow
                  ELSE [w EXCEPT !.age = @ + 1]

Tick ==
    /\ buckets' = [ip \in IPs |-> Older(buckets[ip])]
    /\ window' = [ip \in IPs |-> OlderWindow(window[ip])]
    /\ idle' = [ip \in IPs |-> Minimum(idle[ip] + 1, Minute)]

\* The observer starts to watch one minute of ip, at any moment.
Watch(ip) ==
    /\ window[ip] = NoWindow
    /\ window' = [window EXCEPT ![ip] = [age |-> 0, count |-> 0]]
    /\ UNCHANGED <<buckets, idle>>

\* The process restarts with an empty map: every bucket is full again, and
\* the minutes being watched are those of the new process.
Restart ==
    /\ buckets' = [ip \in IPs |-> NoBucket]
    /\ window' = [ip \in IPs |-> NoWindow]
    /\ idle' = [ip \in IPs |-> Minute]

LimiterInit ==
    /\ buckets = [ip \in IPs |-> NoBucket]
    /\ window = [ip \in IPs |-> NoWindow]
    /\ idle = [ip \in IPs |-> Minute]

LimiterNext ==
    \/ \E ip \in IPs : Admit(ip) \/ Reject(ip) \/ Watch(ip)
    \/ Tick
    \/ Restart

LimiterSpec == LimiterInit /\ [][LimiterNext]_limiterVars

------------------------------------------------------------------------------
(* Properties. *)

LimiterTypeOK ==
    /\ buckets \in [IPs -> Bucket \cup {NoBucket}]
    /\ window \in [IPs -> Window \cup {NoWindow}]
    /\ idle \in [IPs -> 0..Minute]

\* No minute, wherever it begins, admits more than perMin requests of one IP.
\* (A bucket that refilled at a steady rate would let twice as many through.)
NeverOverRate ==
    \A ip \in IPs : window[ip] # NoWindow => window[ip].count <= perMin

\* An IP that stays away for a minute is admitted when it comes back.
QuietMinuteReopens ==
    [][\A ip \in IPs :
        Reject(ip) => buckets[ip] # NoBucket /\ buckets[ip].age < Minute]_limiterVars

\* A limit of perMin requests a minute: a request is refused only to an IP
\* that had a request admitted within the last minute.
RefusedOnlyWhenBusy == [][\A ip \in IPs : Reject(ip) => idle[ip] < Minute]_limiterVars

==============================================================================
