---------------------------- MODULE RateLimiter ----------------------------
(***************************************************************************)
(* The limits on public questions: apps/api/app/api/analysis_policy.py     *)
(* (sliding minute and day windows kept by each API instance, in a table   *)
(* of bounded size) and services/runtime_store.py (fixed windows counted   *)
(* in Redis and shared by the instances).                                  *)
(*                                                                         *)
(* _rate_limit is one atomic step up to its only await, the Redis          *)
(* transaction; another request, the clock and a restart may come between. *)
(* One tick of now is the unit of Minute, Day and Sweep.  The bounds are   *)
(* MaxTime and MaxRestarts.                                                *)
(***************************************************************************)
EXTENDS Integers, Sequences, FiniteSets, Functions

CONSTANTS Instances, Ips, Cap, PruneEvery, Sweep, Minute, Day,
          MinuteLimit, DayLimit, MaxTime, MaxRestarts

ASSUME LimitsAssumption ==
    /\ {Cap, PruneEvery, Sweep, Minute, MinuteLimit, DayLimit} \subseteq Nat \ {0}
    /\ Minute <= Day /\ Day \in Nat /\ MaxTime \in Nat /\ MaxRestarts \in Nat

VARIABLES
    now,        \* time.monotonic(), the same pace as the date and Redis
    minute,     \* instance -> its identities' minute windows
    day,        \* instance -> its identities' day windows
    requests,   \* _requests_since_prune of each instance
    nextSweep,  \* _next_capacity_sweep of each instance
    keys,       \* Redis: live counters, <<kind, identity>> -> count and expiry
    waiting,    \* requests their instance admitted, and when, before Redis answers
    turnedAway, \* the instances whose full table has just refused a client
    restarts,
    served      \* history: how often a request like this was let through

vars == <<now, minute, day, requests, nextSweep, keys, waiting, turnedAway,
          restarts, served>>

Times == 0 .. MaxTime
Identities == Ips \X {t \div Day : t \in Times}
NoWindows == [c \in {} |-> <<>>]
Length(kind) == IF kind = "minute" THEN Minute ELSE Day
Limit(kind) == IF kind = "minute" THEN MinuteLimit ELSE DayLimit

(* The address and the date, hashed: an identity lives for one day. *)
ClientId(ip) == <<ip, now \div Day>>

(* What is expired is popped from the left. *)
First(S) == CHOOSE n \in S : \A m \in S : n <= m
Trim(bucket, size) ==
    LET live == {n \in DOMAIN bucket : now - bucket[n] <= size}
    IN  IF live = {} THEN <<>> ELSE SubSeq(bucket, First(live), Len(bucket))
Window(table, c) == IF c \in DOMAIN table THEN table[c] ELSE <<>>
With(table, c, bucket) ==
    [d \in DOMAIN table \union {c} |-> IF d = c THEN bucket ELSE table[d]]

---------------------------------------------------------------------------
(* Sweeps *)

Expired(i, c) ==
    /\ Trim(Window(minute[i], c), Minute) = <<>>
    /\ Trim(Window(day[i], c), Day) = <<>>
ExpiredByTheMinute(i, c) == Trim(Window(minute[i], c), Minute) = <<>>
Forgotten(i, c) == Expired(i, c)

Full(table) == Cardinality(DOMAIN table) >= Cap
FullLate(table) == Cardinality(DOMAIN table) > Cap
AtCapacity(table) == Full(table)

CapacityDue(i) == Full(minute[i]) /\ now >= nextSweep[i]
NeverDue(i) == FALSE
SweepDue(i) == CapacityDue(i)

PruneDue(i) == requests[i] + 1 >= PruneEvery \/ SweepDue(i)
Kept(table, i, size) ==
    [c \in {d \in DOMAIN table : ~ Forgotten(i, d)} |-> Trim(table[c], size)]
Pruned(i, table, size) == IF PruneDue(i) THEN Kept(table, i, size) ELSE table

---------------------------------------------------------------------------
Init ==
    /\ now = 0
    /\ minute = [i \in Instances |-> NoWindows]
    /\ day = [i \in Instances |-> NoWindows]
    /\ requests = [i \in Instances |-> 0]
    /\ nextSweep = [i \in Instances |-> 0]
    /\ keys = [k \in {} |-> [count |-> 0, expires |-> 0]]
    /\ waiting = {}
    /\ turnedAway = {}
    /\ restarts = 0
    /\ served = [s \in {} |-> 0]

MaybePrune(i) ==
    /\ requests' = [requests EXCEPT ![i] = IF PruneDue(i) THEN 0 ELSE @ + 1]
    /\ nextSweep' = [nextSweep EXCEPT ![i] = IF PruneDue(i) THEN now + Sweep ELSE @]

(* What _rate_limit does before it asks Redis.  A refusal for the day has  *)
(* already charged the minute.                                             *)
Handle(i, ip) ==
    LET c    == ClientId(ip)
        mins == Pruned(i, minute[i], Minute)
        days == Pruned(i, day[i], Day)
        min  == Trim(Window(mins, c), Minute)
        all  == Trim(Window(days, c), Day)
    IN
    /\ MaybePrune(i)
    /\ <<i, c, now>> \notin waiting
    /\ \/ /\ c \notin DOMAIN mins /\ AtCapacity(mins)
          /\ minute' = [minute EXCEPT ![i] = mins]
          /\ day' = [day EXCEPT ![i] = days]
          /\ turnedAway' = {i}
          /\ UNCHANGED waiting
       \/ /\ c \in DOMAIN mins \/ ~ AtCapacity(mins)
          /\ Len(min) >= MinuteLimit
          /\ minute' = [minute EXCEPT ![i] = With(mins, c, min)]
          /\ day' = [day EXCEPT ![i] = days]
          /\ turnedAway' = {}
          /\ UNCHANGED waiting
       \/ /\ c \in DOMAIN mins \/ ~ AtCapacity(mins)
          /\ Len(min) < MinuteLimit /\ Len(all) >= DayLimit
          /\ minute' = [minute EXCEPT ![i] = With(mins, c, Append(min, now))]
          /\ day' = [day EXCEPT ![i] = With(days, c, all)]
          /\ turnedAway' = {}
          /\ UNCHANGED waiting
       \/ /\ c \in DOMAIN mins \/ ~ AtCapacity(mins)
          /\ Len(min) < MinuteLimit /\ Len(all) < DayLimit
          /\ minute' = [minute EXCEPT ![i] = With(mins, c, Append(min, now))]
          /\ day' = [day EXCEPT ![i] = With(days, c, Append(all, now))]
          /\ waiting' = waiting \union {<<i, c, now>>}
          /\ turnedAway' = {}
    /\ UNCHANGED <<now, keys, restarts, served>>

---------------------------------------------------------------------------
(* Redis *)

Kinds == {"minute", "day"}
Count(kind, c) == IF <<kind, c>> \in DOMAIN keys THEN keys[kind, c].count ELSE 0

(* INCR and EXPIRE NX of both counters, in one transaction. *)
Counted(c) ==
    [k \in DOMAIN keys \union (Kinds \X {c}) |->
        IF k[2] # c THEN keys[k]
        ELSE IF k \in DOMAIN keys
             THEN [keys[k] EXCEPT !.count = @ + 1]
             ELSE [count |-> 1, expires |-> now + Length(k[1])]]

Exceeded(c) == \E kind \in Kinds : Count(kind, c) + 1 > Limit(kind)
ExceededInAMinute(c) == Count("minute", c) + 1 > MinuteLimit
OverLimit(c) == Exceeded(c)

Often(s) == IF s \in DOMAIN served THEN served[s] ELSE 0
Pass(i, c, asked, kind) ==
    LET passed == [at |-> i, id |-> c, asked |-> asked, time |-> now, kind |-> kind]
    IN  served' = [s \in DOMAIN served \union {passed} |->
                      IF s = passed THEN Often(s) + 1 ELSE served[s]]

(* enforce_redis_limits.  A failure, before or after the transaction took  *)
(* place, lets the request through as degraded.                            *)
RedisAnswers(i, c, asked) ==
    /\ <<i, c, asked>> \in waiting
    /\ waiting' = waiting \ {<<i, c, asked>>}
    /\ keys' = Counted(c)
    /\ turnedAway' = {}
    /\ IF OverLimit(c) THEN UNCHANGED served ELSE Pass(i, c, asked, "counted")
    /\ UNCHANGED <<now, minute, day, requests, nextSweep, restarts>>

RedisFails(i, c, asked) ==
    /\ <<i, c, asked>> \in waiting
    /\ waiting' = waiting \ {<<i, c, asked>>}
    /\ keys' \in {keys, Counted(c)}
    /\ turnedAway' = {}
    /\ Pass(i, c, asked, "degraded")
    /\ UNCHANGED <<now, minute, day, requests, nextSweep, restarts>>

---------------------------------------------------------------------------
(* The world *)

(* The history keeps what is younger than a day: no window reaches past it. *)
Tick ==
    /\ now < MaxTime
    /\ now' = now + 1
    /\ LET live == {k \in DOMAIN keys : keys[k].expires > now + 1}
       IN  keys' = [k \in live |-> keys[k]]
    /\ LET young == {s \in DOMAIN served : now + 1 - s.asked <= Day}
       IN  served' = [s \in young |-> served[s]]
    /\ turnedAway' = {}
    /\ UNCHANGED <<minute, day, requests, nextSweep, waiting, restarts>>

(* A restarted instance has empty windows, and its waiting requests die. *)
Restart(i) ==
    /\ restarts < MaxRestarts
    /\ restarts' = restarts + 1
    /\ minute' = [minute EXCEPT ![i] = NoWindows]
    /\ day' = [day EXCEPT ![i] = NoWindows]
    /\ requests' = [requests EXCEPT ![i] = 0]
    /\ nextSweep' = [nextSweep EXCEPT ![i] = 0]
    /\ waiting' = {w \in waiting : w[1] # i}
    /\ turnedAway' = {}
    /\ UNCHANGED <<now, keys, served>>

Next ==
    \/ Tick
    \/ \E i \in Instances :
          \/ Restart(i)
          \/ \E ip \in Ips : Handle(i, ip)
          \/ \E c \in Identities, asked \in Times :
                RedisAnswers(i, c, asked) \/ RedisFails(i, c, asked)

Spec == Init /\ [][Next]_vars

---------------------------------------------------------------------------
(* Properties *)

InOrder(bucket) ==
    \A a, b \in DOMAIN bucket : a <= b => bucket[a] <= bucket[b]

(* The tables stay within their cap, hold windows in the order of time,    *)
(* and the day table knows only clients the capped minute table knows: the *)
(* cap that admission checks on one of them bounds both.                   *)
TypeOK ==
    /\ now \in Times /\ restarts \in 0 .. MaxRestarts
    /\ \A i \in Instances :
          /\ DOMAIN day[i] \subseteq DOMAIN minute[i]
          /\ DOMAIN minute[i] \subseteq Identities
          /\ Cardinality(DOMAIN minute[i]) <= Cap
          /\ \A c \in DOMAIN minute[i] :
                minute[i][c] \in Seq(Times) /\ InOrder(minute[i][c])
          /\ \A c \in DOMAIN day[i] :
                day[i][c] \in Seq(Times) /\ InOrder(day[i][c])
          /\ requests[i] \in 0 .. PruneEvery - 1
          /\ nextSweep[i] \in 0 .. MaxTime + Sweep
    /\ DOMAIN keys \subseteq Kinds \X Identities
    /\ waiting \subseteq Instances \X Identities \X Times

(* A sweep, a full table or a lost Redis never forgives a debt: of one     *)
(* identity's requests, an instance that has not restarted lets through at *)
(* most the limit of those it was asked in any minute and in any day.      *)
HowMany(S) == SumFunctionOnSet(served, S)

LetThrough(i, c, kind) ==
    HowMany({s \in DOMAIN served :
        s.at = i /\ s.id = c /\ now - s.asked <= Length(kind)})

DebtIsKept ==
    restarts = 0 =>
        \A i \in Instances, c \in Identities, kind \in Kinds :
            LetThrough(i, c, kind) <= Limit(kind)

(* While the counter lives, the instances together let at most the limit   *)
(* through of what Redis counted, whatever restarted.                      *)
SharedLimitHolds ==
    \A k \in DOMAIN keys :
        HowMany({s \in DOMAIN served :
            /\ s.kind = "counted" /\ s.id = k[2]
            /\ s.time >= keys[k].expires - Length(k[1])}) <= Limit(k[1])

(* A new client is turned away only behind clients that really hold the    *)
(* table: every one of them had a live window less than a sweep ago.       *)
LiveAt(i, c, t) ==
    \/ \E n \in DOMAIN Window(minute[i], c) : t - minute[i][c][n] <= Minute
    \/ \E n \in DOMAIN Window(day[i], c) : t - day[i][c][n] <= Day

RefusedBehindLiveClients ==
    \A i \in turnedAway :
        \A c \in DOMAIN minute[i] : LiveAt(i, c, now - Sweep + 1)
=============================================================================
