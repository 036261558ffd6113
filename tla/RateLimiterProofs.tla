--------------------------- MODULE RateLimiterProofs ---------------------------
(***************************************************************************)
(* Theorems about RateLimiter for any instances, addresses, limits, window *)
(* lengths and sweeps, and any number of requests.  The invariant is what  *)
(* the comment at the head of analysis_policy.py relies on: a window keeps *)
(* an entry for every request it let through or let wait (Debts), is never *)
(* longer than its limit (Windows), and was live at the last sweep         *)
(* (Swept); a live counter of Redis counts what was let through under it   *)
(* (Counters).                                                             *)
(***************************************************************************)
EXTENDS RateLimiter, Sums

---------------------------------------------------------------------------
Records == [at : Instances, id : Identities, asked : 0 .. now, time : 0 .. now,
            kind : {"counted", "degraded"}]

(* A window holds moments up to now, in order, and no more than its limit. *)
WindowOK(bucket, limit) ==
    bucket \in Seq(0 .. now) /\ InOrder(bucket) /\ Len(bucket) <= limit

TableOK(table, limit) ==
    /\ DOMAIN table \subseteq Identities /\ IsFiniteSet(DOMAIN table)
    /\ \A c \in DOMAIN table : WindowOK(table[c], limit)

Windows ==
    /\ DOMAIN minute = Instances /\ minute = [i \in Instances |-> minute[i]]
    /\ DOMAIN day = Instances /\ day = [i \in Instances |-> day[i]]
    /\ \A i \in Instances :
          /\ TableOK(minute[i], MinuteLimit) /\ TableOK(day[i], DayLimit)
          /\ DOMAIN day[i] \subseteq DOMAIN minute[i]
          /\ Cardinality(DOMAIN minute[i]) <= Cap

Swept ==
    /\ requests \in [Instances -> 0 .. PruneEvery - 1]
    /\ nextSweep \in [Instances -> Nat]
    /\ \A i \in Instances :
          /\ nextSweep[i] <= now + Sweep
          /\ \A c \in DOMAIN minute[i] : LiveAt(i, c, nextSweep[i] - Sweep)

(* What was let through or waits since a moment, and what the window says. *)
Since(i, c, t) == {s \in DOMAIN served : s.at = i /\ s.id = c /\ s.asked >= t}
Waiting(i, c, t) == {w \in waiting : w[1] = i /\ w[2] = c /\ w[3] >= t}
Owed(i, c, t) == HowMany(Since(i, c, t)) + Cardinality(Waiting(i, c, t))
CountFrom(bucket, t) == Cardinality({n \in DOMAIN bucket : bucket[n] >= t})

Debts ==
    restarts = 0 =>
        \A i \in Instances, c \in Identities, t \in Int :
            /\ now - Minute <= t => Owed(i, c, t) <= CountFrom(Window(minute[i], c), t)
            /\ now - Day <= t => Owed(i, c, t) <= CountFrom(Window(day[i], c), t)

CountedSince(k) ==
    {s \in DOMAIN served : /\ s.kind = "counted" /\ s.id = k[2]
                           /\ s.time >= keys[k].expires - Length(k[1])}

(* Both counters exist at the moment at which a request is counted.        *)
Counters ==
    /\ DOMAIN keys \subseteq Kinds \X Identities
    /\ keys \in [DOMAIN keys -> [count : Nat, expires : Int]]
    /\ \A k \in DOMAIN keys : /\ HowMany(CountedSince(k)) <= keys[k].count
                              /\ HowMany(CountedSince(k)) <= Limit(k[1])
    /\ \A s \in DOMAIN served, kind \in Kinds :
          s.kind = "counted" /\ s.time = now => <<kind, s.id>> \in DOMAIN keys

Typed ==
    /\ now \in Times /\ restarts \in 0 .. MaxRestarts
    /\ waiting \subseteq Instances \X Identities \X (0 .. now)
    /\ IsFiniteSet(waiting) /\ IsFiniteSet(DOMAIN served)
    /\ served \in [DOMAIN served -> Nat] /\ DOMAIN served \subseteq Records

LimiterInv ==
    /\ Typed /\ Windows /\ Swept /\ Debts /\ Counters /\ RefusedBehindLiveClients

---------------------------------------------------------------------------
(* Windows.                                                                *)

LEMMA FirstIs ==
    ASSUME NEW N \in Nat, NEW S, S \subseteq 1 .. N, S # {}
    PROVE  First(S) \in S /\ \A m \in S : First(S) <= m
<1> DEFINE Good == {k \in 0 .. N : \A m \in S : m > k}
<1>1. SUFFICES ASSUME ~ \E n \in S : \A m \in S : n <= m
               PROVE  FALSE
    BY DEF First
<1>2. 0 \in Good
    OBVIOUS
<1>3. ASSUME NEW k \in 0 .. (N - 1), k \in Good
      PROVE  k + 1 \in Good
    <2>1. \A m \in S : m \in Nat /\ m > k /\ m >= k + 1
        BY <1>3
    <2>2. k + 1 \notin S
        BY <1>1, <2>1
    <2>3. \A m \in S : m > k + 1
        BY <2>1, <2>2
    <2>4. QED BY <2>3
<1>4. N \in Good
    <2> HIDE DEF Good
    <2> QED BY <1>2, <1>3, CountingUp
<1>5. PICK m \in S : TRUE
    OBVIOUS
<1>6. m \in 1 .. N /\ m > N
    BY <1>4
<1>7. QED BY <1>6

(* The entries of a window since a moment are finitely many.               *)
LEMMA CountNat ==
    ASSUME NEW b, NEW T, b \in Seq(T), NEW t
    PROVE  /\ IsFiniteSet({n \in DOMAIN b : b[n] >= t})
           /\ CountFrom(b, t) \in Nat /\ CountFrom(b, t) <= Len(b)
<1>1. DOMAIN b = 1 .. Len(b) /\ Len(b) \in Nat
    OBVIOUS
<1>2. IsFiniteSet(DOMAIN b) /\ Cardinality(DOMAIN b) = Len(b)
    BY <1>1, FS_Interval
<1>3. {n \in DOMAIN b : b[n] >= t} \in SUBSET DOMAIN b
    OBVIOUS
<1>4. QED BY <1>2, <1>3, FS_Subset, FS_CardinalityType DEF CountFrom

(* Trim drops a prefix of expired entries and stops at one that is live.   *)
LEMMA Trimmed ==
    ASSUME now \in Nat, NEW b \in Seq(0 .. now), NEW size \in Nat
    PROVE  \E k \in 0 .. Len(b) :
              /\ Trim(b, size) \in Seq(0 .. now)
              /\ Len(Trim(b, size)) = Len(b) - k
              /\ \A n \in 1 .. (Len(b) - k) : Trim(b, size)[n] = b[n + k]
              /\ \A n \in 1 .. k : now - b[n] > size
              /\ k < Len(b) => now - b[k + 1] <= size
<1> DEFINE live == {n \in DOMAIN b : now - b[n] <= size}
           N == Len(b)
<1>1. /\ N \in Nat /\ DOMAIN b = 1 .. N
      /\ \A n \in 1 .. N : b[n] \in 0 .. now
    OBVIOUS
<1>2. ASSUME NEW n \in 1 .. N, n \notin live
      PROVE  now - b[n] > size
    <2>1. n \in DOMAIN b /\ b[n] \in 0 .. now
        BY <1>1
    <2>2. ~ (now - b[n] <= size)
        BY <1>2, <2>1
    <2>3. now - b[n] \in Int
        BY <2>1
    <2> HIDE DEF live
    <2>4. QED BY <2>2, <2>3
<1>3. CASE live = {}
    <2>1. Trim(b, size) = <<>>
        BY <1>3 DEF Trim
    <2>2. \A n \in 1 .. N : now - b[n] > size
        BY <1>3, <1>2
    <2>3. WITNESS N \in 0 .. N
    <2>4. QED BY <1>1, <2>1, <2>2
<1>4. CASE live # {}
    <2> DEFINE f == First(live)
    <2>1. f \in live /\ \A m \in live : f <= m
        BY <1>1, <1>4, FirstIs
    <2>2. Trim(b, size) = SubSeq(b, f, N)
        BY <1>4 DEF Trim
    <2>3. f \in 1 .. N /\ now - b[f] <= size
        BY <1>1, <2>1
    <2>4. \A n \in 1 .. (f - 1) : now - b[n] > size
        <3> SUFFICES ASSUME NEW n \in 1 .. (f - 1)
                     PROVE  now - b[n] > size
            OBVIOUS
        <3> HIDE DEF f, live, N
        <3>1. n \in 1 .. N /\ ~ (f <= n)
            BY <1>1, <2>3
        <3>2. n \notin live
            BY <2>1, <3>1
        <3>3. QED BY <1>2, <3>1, <3>2
    <2> HIDE DEF live, f, N
    <2>5. /\ SubSeq(b, f, N) \in Seq(0 .. now)
          /\ Len(SubSeq(b, f, N)) = N - (f - 1)
          /\ \A n \in 1 .. (N - (f - 1)) : SubSeq(b, f, N)[n] = b[n + (f - 1)]
        <3>1. \A n \in f .. N : b[n] \in 0 .. now
            BY <1>1, <2>3
        <3>2. QED BY <1>1, <2>3, <3>1 DEF N
    <2>6. f - 1 \in 0 .. N /\ (f - 1) + 1 = f
        BY <1>1, <2>3
    <2>7. QED BY <2>2, <2>3, <2>4, <2>5, <2>6 DEF N
<1>5. QED BY <1>3, <1>4

(* A trimmed window keeps what is younger than its size, and is live.      *)
LEMMA TrimKeeps ==
    ASSUME now \in Nat, NEW b, NEW limit \in Nat, WindowOK(b, limit), NEW size \in Nat
    PROVE  /\ WindowOK(Trim(b, size), limit)
           /\ \A t \in Int : now - size <= t => CountFrom(b, t) <= CountFrom(Trim(b, size), t)
           /\ Trim(b, size) # <<>> =>
                 \E n \in DOMAIN Trim(b, size) : now - Trim(b, size)[n] <= size
<1> DEFINE q == Trim(b, size)
           N == Len(b)
<1>1. b \in Seq(0 .. now) /\ InOrder(b) /\ N <= limit /\ N \in Nat /\ DOMAIN b = 1 .. N
    BY DEF WindowOK
<1>2. PICK k \in 0 .. N :
          /\ q \in Seq(0 .. now) /\ Len(q) = N - k
          /\ \A n \in 1 .. (N - k) : q[n] = b[n + k]
          /\ \A n \in 1 .. k : now - b[n] > size
          /\ k < N => now - b[k + 1] <= size
    BY <1>1, Trimmed
<1>3. DOMAIN q = 1 .. (N - k) /\ N - k \in Nat
    BY <1>1, <1>2
<1> HIDE DEF q, N
<1>4. InOrder(q)
    <2> SUFFICES ASSUME NEW x \in 1 .. (N - k), NEW y \in 1 .. (N - k), x <= y
                 PROVE  q[x] <= q[y]
        BY <1>3 DEF InOrder
    <2>1. x + k \in DOMAIN b /\ y + k \in DOMAIN b /\ x + k <= y + k
        BY <1>1, <1>2
    <2>2. b[x + k] <= b[y + k]
        BY <1>1, <2>1 DEF InOrder
    <2>3. QED BY <1>2, <2>2
<1>5. WindowOK(q, limit)
    BY <1>1, <1>2, <1>4 DEF WindowOK
<1>6. ASSUME NEW t \in Int, now - size <= t
      PROVE  CountFrom(b, t) <= CountFrom(q, t)
    <2> DEFINE A == {n \in DOMAIN b : b[n] >= t}
               B == {n \in DOMAIN q : q[n] >= t}
               f == [n \in A |-> n - k]
    <2>1. ASSUME NEW n \in A PROVE n - k \in B
        <3>1. n \in 1 .. N /\ b[n] >= t /\ b[n] \in 0 .. now
            BY <1>1
        <3>2. ~ (now - b[n] > size)
            BY <1>6, <3>1
        <3>3. n > k
            BY <1>2, <3>1, <3>2
        <3>4. n - k \in 1 .. (N - k) /\ (n - k) + k = n
            BY <1>1, <1>2, <3>1, <3>3
        <3>5. q[n - k] = b[n]
            BY <1>2, <3>4
        <3>6. QED BY <1>3, <3>1, <3>4, <3>5
    <2>2. \A x, y \in A : x - k = y - k => x = y
        BY <1>1, <1>2
    <2>3. IsFiniteSet(B)
        BY <1>2, CountNat
    <2> HIDE DEF A, B
    <2>4. f \in Injection(A, B)
        <3>1. f \in [A -> B]
            BY <2>1
        <3>2. \A x, y \in A : f[x] = f[y] => x = y
            BY <2>2
        <3>3. QED BY <3>1, <3>2 DEF Injection, IsInjective
    <2>5. Cardinality(A) <= Cardinality(B)
        BY <2>3, <2>4, FS_Injection
    <2>6. QED BY <2>5 DEF A, B, CountFrom
<1>7. ASSUME q # <<>>
      PROVE  \E n \in DOMAIN q : now - q[n] <= size
    <2>1. N - k # 0
        BY <1>2, <1>7
    <2>2. 1 \in 1 .. (N - k) /\ k < N /\ 1 + k = k + 1
        BY <1>1, <1>2, <2>1
    <2>3. now - q[1] <= size
        BY <1>2, <2>2
    <2>4. QED BY <1>3, <2>2, <2>3
<1>8. QED BY <1>5, <1>6, <1>7 DEF q

(* A charged window has one entry more, the moment itself.                 *)
LEMMA AppendKeeps ==
    ASSUME now \in Nat, NEW b, NEW limit \in Nat, WindowOK(b, limit), Len(b) < limit
    PROVE  /\ WindowOK(Append(b, now), limit)
           /\ \A t \in Int : CountFrom(b, t) <= CountFrom(Append(b, now), t)
           /\ \A t \in Int : t <= now =>
                 CountFrom(Append(b, now), t) = CountFrom(b, t) + 1
           /\ \E n \in DOMAIN Append(b, now) : Append(b, now)[n] = now
<1> DEFINE q == Append(b, now)
           N == Len(b)
<1>1. b \in Seq(0 .. now) /\ InOrder(b) /\ N \in Nat /\ DOMAIN b = 1 .. N
    BY DEF WindowOK
<1>2. /\ q \in Seq(0 .. now) /\ Len(q) = N + 1 /\ DOMAIN q = (1 .. N) \union {N + 1}
      /\ \A n \in 1 .. N : q[n] = b[n] /\ b[n] \in 0 .. now
      /\ q[N + 1] = now /\ N + 1 \notin 1 .. N
    BY <1>1
<1> HIDE DEF q, N
<1>3. InOrder(q)
    <2> SUFFICES ASSUME NEW x \in DOMAIN q, NEW y \in DOMAIN q, x <= y
                 PROVE  q[x] <= q[y]
        BY DEF InOrder
    <2>1. CASE y = N + 1
        <3>1. q[x] \in 0 .. now
            BY <1>2
        <3>2. QED BY <1>2, <2>1, <3>1
    <2>2. CASE y # N + 1
        <3>1. x \in 1 .. N /\ y \in 1 .. N
            BY <1>1, <1>2, <2>2
        <3>2. b[x] <= b[y]
            BY <1>1, <3>1 DEF InOrder
        <3>3. QED BY <1>2, <3>1, <3>2
    <2>3. QED BY <2>1, <2>2
<1>4. WindowOK(q, limit)
    BY <1>1, <1>2, <1>3 DEF WindowOK, N
<1>5. ASSUME NEW t \in Int
      PROVE  /\ t <= now => CountFrom(q, t) = CountFrom(b, t) + 1
             /\ CountFrom(b, t) <= CountFrom(q, t)
    <2> DEFINE A == {n \in DOMAIN b : b[n] >= t}
               B == {n \in DOMAIN q : q[n] >= t}
    <2>1. IsFiniteSet(A) /\ Cardinality(A) \in Nat /\ N + 1 \notin A
        BY <1>1, <1>2, CountNat DEF CountFrom
    <2>2. CASE t <= now
        <3>1. B = A \union {N + 1}
            BY <1>1, <1>2, <2>2
        <3> HIDE DEF A, B
        <3>2. Cardinality(B) = Cardinality(A) + 1
            BY <2>1, <3>1, FS_AddElement
        <3>3. QED BY <2>1, <3>2 DEF A, B, CountFrom
    <2>3. CASE ~ (t <= now)
        <3>1. B = A
            BY <1>1, <1>2, <2>3
        <3>2. CountFrom(b, t) = CountFrom(q, t) /\ CountFrom(b, t) \in Nat
            BY <2>1, <3>1 DEF CountFrom
        <3>3. QED BY <2>3, <3>2
    <2>4. QED BY <2>2, <2>3
<1>6. QED BY <1>2, <1>4, <1>5 DEF q

---------------------------------------------------------------------------
(* What a sweep does to the tables of an instance.                         *)

LEMMA Sizes ==
    /\ Cap \in Nat \ {0} /\ PruneEvery \in Nat \ {0} /\ Sweep \in Nat \ {0}
    /\ Minute \in Nat /\ Day \in Nat /\ Minute <= Day
    /\ MinuteLimit \in Nat \ {0} /\ DayLimit \in Nat \ {0}
    /\ MaxTime \in Nat /\ MaxRestarts \in Nat
BY LimitsAssumption

(* A window of the table before the sweep, after it.                       *)
LEMMA PrunedTable ==
    ASSUME now \in Nat, NEW i, NEW table, NEW limit \in Nat, TableOK(table, limit),
           NEW size \in Nat,
           \A c \in DOMAIN table : Forgotten(i, c) => Trim(table[c], size) = <<>>
    PROVE  /\ TableOK(Pruned(i, table, size), limit)
           /\ DOMAIN Pruned(i, table, size) \subseteq DOMAIN table
           /\ \A c : \A t \in Int : now - size <= t =>
                 CountFrom(Window(table, c), t)
                    <= CountFrom(Window(Pruned(i, table, size), c), t)
<1> DEFINE new == Pruned(i, table, size)
<1>0. \A c \in DOMAIN table : WindowOK(table[c], limit) /\ table[c] \in Seq(0 .. now)
    BY DEF TableOK, WindowOK
<1>1. CASE ~ PruneDue(i)
    <2>1. new = table
        BY <1>1 DEF Pruned
    <2>2. ASSUME NEW c, NEW t
          PROVE  CountFrom(Window(table, c), t) <= CountFrom(Window(table, c), t)
        <3>1. Window(table, c) \in Seq(0 .. now)
            <4>1. <<>> \in Seq(0 .. now)
                OBVIOUS
            <4>2. QED BY <1>0, <4>1 DEF Window
        <3>2. CountFrom(Window(table, c), t) \in Nat
            BY <3>1, CountNat
        <3>3. QED BY <3>2
    <2>3. QED BY <2>1, <2>2
<1>2. CASE PruneDue(i)
    <2> DEFINE D == {d \in DOMAIN table : ~ Forgotten(i, d)}
    <2>1. new = [c \in D |-> Trim(table[c], size)]
        BY <1>2 DEF Pruned, Kept
    <2>2. DOMAIN new = D /\ D \subseteq DOMAIN table
          /\ \A c \in D : new[c] = Trim(table[c], size)
        BY <2>1
    <2> HIDE DEF new
    <2>3. \A c \in D : WindowOK(new[c], limit)
        BY <1>0, <2>2, TrimKeeps
    <2>4. TableOK(new, limit)
        <3>1. IsFiniteSet(DOMAIN table) /\ DOMAIN table \subseteq Identities
            BY DEF TableOK
        <3>2. IsFiniteSet(D)
            BY <2>2, <3>1, FS_Subset
        <3>3. QED BY <2>2, <2>3, <3>1, <3>2 DEF TableOK
    <2>5. ASSUME NEW c, NEW t \in Int, now - size <= t
          PROVE  CountFrom(Window(table, c), t) <= CountFrom(Window(new, c), t)
        <3>1. CASE c \in D
            <4>1. Window(new, c) = Trim(table[c], size) /\ Window(table, c) = table[c]
                BY <2>2, <3>1 DEF Window
            <4>2. WindowOK(table[c], limit)
                BY <1>0, <3>1
            <4>3. CountFrom(table[c], t) <= CountFrom(Trim(table[c], size), t)
                BY <2>5, <4>2, TrimKeeps
            <4>4. QED BY <4>1, <4>3
        <3>2. CASE c \in DOMAIN table /\ c \notin D
            <4>1. Window(new, c) = <<>> /\ Window(table, c) = table[c]
                  /\ Trim(table[c], size) = <<>>
                BY <2>2, <3>2 DEF Window
            <4>2. WindowOK(table[c], limit)
                BY <1>0, <3>2
            <4>3. CountFrom(table[c], t) <= CountFrom(Trim(table[c], size), t)
                BY <2>5, <4>2, TrimKeeps
            <4>4. QED BY <4>1, <4>3
        <3>3. CASE c \notin DOMAIN table
            <4>1. Window(new, c) = <<>> /\ Window(table, c) = <<>>
                BY <2>2, <3>3 DEF Window
            <4>2. <<>> \in Seq(0 .. now)
                OBVIOUS
            <4>3. CountFrom(<<>>, t) \in Nat
                BY <4>2, CountNat
            <4>4. QED BY <4>1, <4>3
        <3>4. QED BY <3>1, <3>2, <3>3
    <2>6. QED BY <2>2, <2>4, <2>5 DEF new
<1>3. QED BY <1>1, <1>2

(* Whom a sweep keeps has a live window of one kind.                       *)
LEMMA KeptAreLive ==
    ASSUME now \in Nat, Windows, NEW i \in Instances, PruneDue(i),
           NEW c \in DOMAIN Pruned(i, minute[i], Minute)
    PROVE  \/ LET b == Pruned(i, minute[i], Minute)[c]
              IN  \E n \in DOMAIN b : now - b[n] <= Minute
           \/ /\ c \in DOMAIN Pruned(i, day[i], Day)
              /\ LET b == Pruned(i, day[i], Day)[c]
                 IN  \E n \in DOMAIN b : now - b[n] <= Day
<1>1. /\ TableOK(minute[i], MinuteLimit) /\ TableOK(day[i], DayLimit)
      /\ MinuteLimit \in Nat /\ DayLimit \in Nat /\ Minute \in Nat /\ Day \in Nat
    BY Sizes DEF Windows
<1>2. c \in DOMAIN minute[i] /\ ~ Forgotten(i, c)
      /\ Pruned(i, minute[i], Minute)[c] = Trim(minute[i][c], Minute)
    BY DEF Pruned, Kept
<1>3. CASE Trim(minute[i][c], Minute) # <<>>
    <2>1. WindowOK(minute[i][c], MinuteLimit)
        BY <1>1, <1>2 DEF TableOK
    <2>2. QED BY <1>1, <1>2, <1>3, <2>1, TrimKeeps
<1>4. CASE Trim(minute[i][c], Minute) = <<>>
    <2>1. Trim(Window(day[i], c), Day) # <<>>
        BY <1>2, <1>4 DEF Forgotten, Expired, Window
    <2>2. c \in DOMAIN day[i]
        <3>1. SUFFICES ASSUME c \notin DOMAIN day[i] PROVE FALSE
            OBVIOUS
        <3>2. Window(day[i], c) = <<>> /\ DOMAIN <<>> = {}
            BY <3>1 DEF Window
        <3>3. Trim(<<>>, Day) = <<>>
            BY <3>2 DEF Trim
        <3>4. QED BY <2>1, <3>2, <3>3
    <2>3. /\ c \in DOMAIN Pruned(i, day[i], Day)
          /\ Pruned(i, day[i], Day)[c] = Trim(day[i][c], Day)
        BY <1>2, <2>2 DEF Pruned, Kept
    <2>4. WindowOK(day[i][c], DayLimit) /\ Trim(day[i][c], Day) # <<>>
        BY <1>1, <2>1, <2>2 DEF TableOK, Window
    <2>5. QED BY <1>1, <2>3, <2>4, TrimKeeps
<1>5. QED BY <1>3, <1>4

---------------------------------------------------------------------------
(* A request at its instance.                                              *)

Mins(i) == Pruned(i, minute[i], Minute)
Days(i) == Pruned(i, day[i], Day)

(* No entry that still counts is lost from either table.                   *)
Keeps(i, m, d) ==
    \A c : \A t \in Int :
        /\ now - Minute <= t =>
              CountFrom(Window(minute[i], c), t) <= CountFrom(Window(m, c), t)
        /\ now - Day <= t =>
              CountFrom(Window(day[i], c), t) <= CountFrom(Window(d, c), t)

(* Both windows of the client have the request.                            *)
Charges(i, c, m, d) ==
    \A t \in Int : t <= now =>
        /\ now - Minute <= t =>
              CountFrom(Window(minute[i], c), t) + 1 <= CountFrom(Window(m, c), t)
        /\ now - Day <= t =>
              CountFrom(Window(day[i], c), t) + 1 <= CountFrom(Window(d, c), t)

Sound(m, d) ==
    /\ TableOK(m, MinuteLimit) /\ TableOK(d, DayLimit)
    /\ DOMAIN d \subseteq DOMAIN m /\ Cardinality(DOMAIN m) <= Cap

(* Only the client's windows are not as the sweep left them, and one is    *)
(* live.                                                                   *)
Touches(i, c, m, d) ==
    /\ DOMAIN m = DOMAIN Mins(i) \union {c}
    /\ \A e : e # c => /\ Window(m, e) = Window(Mins(i), e)
                       /\ Window(d, e) = Window(Days(i), e)
    /\ \E n \in DOMAIN Window(m, c) : now - Window(m, c)[n] <= Minute

LEMMA WithIs ==
    ASSUME NEW table, NEW c, NEW b
    PROVE  /\ DOMAIN With(table, c, b) = DOMAIN table \union {c}
           /\ Window(With(table, c, b), c) = b
           /\ \A e : e # c => Window(With(table, c, b), e) = Window(table, e)
BY DEF With, Window

LEMMA TableWith ==
    ASSUME NEW table, NEW limit, TableOK(table, limit), NEW c \in Identities, NEW b,
           WindowOK(b, limit)
    PROVE  TableOK(With(table, c, b), limit)
<1>1. IsFiniteSet(DOMAIN table \union {c})
    BY FS_AddElement DEF TableOK
<1>2. QED BY <1>1 DEF TableOK, With, Window

LEMMA SweptTables ==
    ASSUME now \in Nat, Windows, NEW i \in Instances
    PROVE  Sound(Mins(i), Days(i)) /\ Keeps(i, Mins(i), Days(i))
<1>1. /\ TableOK(minute[i], MinuteLimit) /\ TableOK(day[i], DayLimit)
      /\ DOMAIN day[i] \subseteq DOMAIN minute[i]
      /\ IsFiniteSet(DOMAIN minute[i]) /\ Cardinality(DOMAIN minute[i]) <= Cap
    BY DEF Windows, TableOK
<1>2. /\ \A c \in DOMAIN minute[i] :
            Forgotten(i, c) => Trim(minute[i][c], Minute) = <<>>
      /\ \A c \in DOMAIN day[i] : Forgotten(i, c) => Trim(day[i][c], Day) = <<>>
    BY DEF Forgotten, Expired, Window
<1>3. /\ TableOK(Mins(i), MinuteLimit) /\ DOMAIN Mins(i) \subseteq DOMAIN minute[i]
      /\ \A c : \A t \in Int : now - Minute <= t =>
            CountFrom(Window(minute[i], c), t) <= CountFrom(Window(Mins(i), c), t)
    BY <1>1, <1>2, Sizes, PrunedTable DEF Mins
<1>4. /\ TableOK(Days(i), DayLimit) /\ DOMAIN Days(i) \subseteq DOMAIN day[i]
      /\ \A c : \A t \in Int : now - Day <= t =>
            CountFrom(Window(day[i], c), t) <= CountFrom(Window(Days(i), c), t)
    BY <1>1, <1>2, Sizes, PrunedTable DEF Days
<1>5. DOMAIN Days(i) \subseteq DOMAIN Mins(i)
    BY <1>1 DEF Mins, Days, Pruned, Kept
<1>6. Cardinality(DOMAIN Mins(i)) <= Cap
    <2>1. /\ Cardinality(DOMAIN Mins(i)) <= Cardinality(DOMAIN minute[i])
          /\ Cardinality(DOMAIN Mins(i)) \in Nat /\ Cardinality(DOMAIN minute[i]) \in Nat
        BY <1>1, <1>3, FS_Subset, FS_CardinalityType
    <2>2. QED BY <1>1, <2>1, Sizes
<1>7. QED BY <1>3, <1>4, <1>5, <1>6 DEF Sound, Keeps

(* One entry of a table is replaced by one that keeps what counts.         *)
LEMMA ReplacedKeeps ==
    ASSUME NEW table, NEW old, NEW new, NEW c, NEW size, NEW b,
           \A e : \A t \in Int : now - size <= t =>
              CountFrom(Window(old, e), t) <= CountFrom(Window(table, e), t),
           \A e : e # c => Window(new, e) = Window(table, e), Window(new, c) = b,
           \A t \in Int : now - size <= t =>
              CountFrom(Window(old, c), t) <= CountFrom(b, t)
    PROVE  \A e : \A t \in Int : now - size <= t =>
              CountFrom(Window(old, e), t) <= CountFrom(Window(new, e), t)
OBVIOUS

(* A tracked client, or one there is room for, keeps the tables sound.     *)
LEMMA SoundWith ==
    ASSUME NEW m, NEW d, Sound(m, d), NEW c \in Identities,
           c \in DOMAIN m \/ ~ AtCapacity(m), NEW b, WindowOK(b, MinuteLimit),
           NEW e, TableOK(e, DayLimit), DOMAIN e \subseteq DOMAIN m \union {c}
    PROVE  Sound(With(m, c, b), e)
<1>1. TableOK(With(m, c, b), MinuteLimit) /\ DOMAIN With(m, c, b) = DOMAIN m \union {c}
    BY TableWith, WithIs DEF Sound
<1>2. /\ Cardinality(DOMAIN m) \in Nat /\ Cardinality(DOMAIN m) <= Cap
      /\ Cardinality(DOMAIN m \union {c})
           = IF c \in DOMAIN m THEN Cardinality(DOMAIN m) ELSE Cardinality(DOMAIN m) + 1
    BY FS_AddElement, FS_CardinalityType DEF Sound, TableOK
<1>3. c \notin DOMAIN m => Cardinality(DOMAIN m) < Cap
    BY <1>2, Sizes DEF AtCapacity, Full
<1>4. Cardinality(DOMAIN m \union {c}) <= Cap
    BY <1>2, <1>3, Sizes
<1>5. QED BY <1>1, <1>4 DEF Sound

(* The outcomes of _rate_limit up to Redis.                                *)
LEMMA HandleLeaves ==
    ASSUME now \in Nat, Windows, NEW i \in Instances, NEW c \in Identities, NEW ip,
           c = ClientId(ip), Handle(i, ip)
    PROVE  \E m, d :
              /\ minute' = [minute EXCEPT ![i] = m] /\ day' = [day EXCEPT ![i] = d]
              /\ Sound(m, d) /\ Keeps(i, m, d)
              /\ \/ waiting' = waiting
                 \/ /\ waiting' = waiting \union {<<i, c, now>>}
                    /\ Charges(i, c, m, d)
              /\ \/ /\ turnedAway' = {i} /\ AtCapacity(m)
                    /\ m = Mins(i) /\ d = Days(i)
                 \/ turnedAway' = {} /\ Touches(i, c, m, d)
<1> DEFINE mins == Mins(i)
           days == Days(i)
           min == Trim(Window(mins, c), Minute)
           all == Trim(Window(days, c), Day)
<1>1. Sound(mins, days) /\ Keeps(i, mins, days)
    BY SweptTables
<1>2. /\ WindowOK(Window(mins, c), MinuteLimit) /\ WindowOK(Window(days, c), DayLimit)
    <2>1. <<>> \in Seq(0 .. now) /\ Len(<<>>) = 0 /\ DOMAIN <<>> = {}
        OBVIOUS
    <2>2. WindowOK(<<>>, MinuteLimit) /\ WindowOK(<<>>, DayLimit)
        BY <2>1, Sizes DEF WindowOK, InOrder
    <2>3. QED BY <1>1, <2>2 DEF Sound, TableOK, Window
<1>3. /\ WindowOK(min, MinuteLimit)
      /\ \A t \in Int : now - Minute <= t =>
            CountFrom(Window(mins, c), t) <= CountFrom(min, t)
      /\ min # <<>> => \E n \in DOMAIN min : now - min[n] <= Minute
    BY <1>2, Sizes, TrimKeeps
<1>4. /\ WindowOK(all, DayLimit)
      /\ \A t \in Int : now - Day <= t =>
            CountFrom(Window(days, c), t) <= CountFrom(all, t)
    BY <1>2, Sizes, TrimKeeps
<1>5. /\ MinuteLimit \in Nat \ {0} /\ DayLimit \in Nat \ {0} /\ Cap \in Nat
      /\ Len(min) \in Nat /\ Len(all) \in Nat
    BY <1>3, <1>4, Sizes DEF WindowOK
\* What the client's windows held before counts at most as much as they do now.
<1>6. ASSUME NEW t \in Int
      PROVE  /\ now - Minute <= t =>
                   /\ CountFrom(Window(minute[i], c), t) <= CountFrom(min, t)
                   /\ CountFrom(Window(minute[i], c), t) \in Int
                   /\ CountFrom(min, t) \in Int
             /\ now - Day <= t =>
                   /\ CountFrom(Window(day[i], c), t) <= CountFrom(all, t)
                   /\ CountFrom(Window(day[i], c), t) \in Int
                   /\ CountFrom(all, t) \in Int
    <2>1. <<>> \in Seq(0 .. now)
        OBVIOUS
    <2>2. Window(minute[i], c) \in Seq(0 .. now) /\ Window(day[i], c) \in Seq(0 .. now)
        BY <2>1 DEF Windows, TableOK, WindowOK, Window
    <2>3. /\ Window(mins, c) \in Seq(0 .. now) /\ Window(days, c) \in Seq(0 .. now)
          /\ min \in Seq(0 .. now) /\ all \in Seq(0 .. now)
        BY <1>2, <1>3, <1>4 DEF WindowOK
    <2>4. /\ CountFrom(Window(minute[i], c), t) \in Nat
          /\ CountFrom(Window(day[i], c), t) \in Nat
          /\ CountFrom(Window(mins, c), t) \in Nat /\ CountFrom(Window(days, c), t) \in Nat
          /\ CountFrom(min, t) \in Nat /\ CountFrom(all, t) \in Nat
        BY <2>2, <2>3, CountNat
    <2>5. /\ now - Minute <= t =>
                CountFrom(Window(minute[i], c), t) <= CountFrom(Window(mins, c), t)
          /\ now - Day <= t =>
                CountFrom(Window(day[i], c), t) <= CountFrom(Window(days, c), t)
        BY <1>1 DEF Keeps
    <2> HIDE DEF mins, days, min, all
    <2>6. QED BY <1>3, <1>4, <2>4, <2>5
<1>7. /\ \/ /\ c \notin DOMAIN mins /\ AtCapacity(mins)
            /\ minute' = [minute EXCEPT ![i] = mins]
            /\ day' = [day EXCEPT ![i] = days]
            /\ turnedAway' = {i} /\ waiting' = waiting
         \/ /\ c \in DOMAIN mins \/ ~ AtCapacity(mins)
            /\ Len(min) >= MinuteLimit
            /\ minute' = [minute EXCEPT ![i] = With(mins, c, min)]
            /\ day' = [day EXCEPT ![i] = days]
            /\ turnedAway' = {} /\ waiting' = waiting
         \/ /\ c \in DOMAIN mins \/ ~ AtCapacity(mins)
            /\ Len(min) < MinuteLimit /\ Len(all) >= DayLimit
            /\ minute' = [minute EXCEPT ![i] = With(mins, c, Append(min, now))]
            /\ day' = [day EXCEPT ![i] = With(days, c, all)]
            /\ turnedAway' = {} /\ waiting' = waiting
         \/ /\ c \in DOMAIN mins \/ ~ AtCapacity(mins)
            /\ Len(min) < MinuteLimit /\ Len(all) < DayLimit
            /\ minute' = [minute EXCEPT ![i] = With(mins, c, Append(min, now))]
            /\ day' = [day EXCEPT ![i] = With(days, c, Append(all, now))]
            /\ waiting' = waiting \union {<<i, c, now>>}
            /\ turnedAway' = {}
    BY DEF Handle, Mins, Days
<1> HIDE DEF mins, days, min, all
<1>8. TableOK(mins, MinuteLimit) /\ TableOK(days, DayLimit)
      /\ DOMAIN days \subseteq DOMAIN mins
    BY <1>1 DEF Sound
<1>9. CASE /\ AtCapacity(mins)
           /\ minute' = [minute EXCEPT ![i] = mins]
           /\ day' = [day EXCEPT ![i] = days]
           /\ turnedAway' = {i} /\ waiting' = waiting
    BY <1>1, <1>9 DEF mins, days
<1>10. CASE /\ c \in DOMAIN mins \/ ~ AtCapacity(mins)
            /\ Len(min) >= MinuteLimit
            /\ minute' = [minute EXCEPT ![i] = With(mins, c, min)]
            /\ day' = [day EXCEPT ![i] = days]
            /\ turnedAway' = {} /\ waiting' = waiting
    <2> DEFINE m == With(mins, c, min)
    <2>1. /\ DOMAIN m = DOMAIN mins \union {c} /\ Window(m, c) = min
          /\ \A e : e # c => Window(m, e) = Window(mins, e)
        BY DEF With, Window
    <2>2. Sound(m, days)
        BY <1>1, <1>3, <1>8, <1>10, SoundWith
    <2> HIDE DEF m
    <2>3. Keeps(i, m, days)
        <3>1. \A e : \A t \in Int : now - Minute <= t =>
                 CountFrom(Window(minute[i], e), t) <= CountFrom(Window(m, e), t)
            BY <1>1, <1>6, <2>1, ReplacedKeeps DEF Keeps
        <3>2. QED BY <1>1, <3>1 DEF Keeps
    <2>4. min # <<>>
        BY <1>5, <1>10
    <2>5. Touches(i, c, m, days)
        BY <1>3, <2>1, <2>4 DEF Touches, mins, days
    <2>6. minute' = [minute EXCEPT ![i] = m]
        BY <1>10 DEF m
    <2>7. QED BY <1>10, <2>2, <2>3, <2>5, <2>6
<1>11. CASE /\ c \in DOMAIN mins \/ ~ AtCapacity(mins)
            /\ Len(min) < MinuteLimit
            /\ minute' = [minute EXCEPT ![i] = With(mins, c, Append(min, now))]
            /\ turnedAway' = {}
            /\ \/ /\ day' = [day EXCEPT ![i] = With(days, c, all)]
                  /\ waiting' = waiting
               \/ /\ day' = [day EXCEPT ![i] = With(days, c, Append(all, now))]
                  /\ Len(all) < DayLimit
                  /\ waiting' = waiting \union {<<i, c, now>>}
    <2> DEFINE m == With(mins, c, Append(min, now))
    <2>1. /\ WindowOK(Append(min, now), MinuteLimit)
          /\ \A t \in Int : CountFrom(min, t) <= CountFrom(Append(min, now), t)
          /\ \A t \in Int : t <= now =>
                CountFrom(Append(min, now), t) = CountFrom(min, t) + 1
          /\ \E n \in DOMAIN Append(min, now) : Append(min, now)[n] = now
        BY <1>3, <1>5, <1>11, AppendKeeps
    <2>2. /\ DOMAIN m = DOMAIN mins \union {c} /\ Window(m, c) = Append(min, now)
          /\ \A e : e # c => Window(m, e) = Window(mins, e)
        BY DEF With, Window
    <2>3. ASSUME NEW e, TableOK(e, DayLimit), DOMAIN e \subseteq DOMAIN mins \union {c}
          PROVE  Sound(m, e)
        BY <1>1, <1>11, <2>1, <2>3, SoundWith
    <2> HIDE DEF m
    <2>4. \A t \in Int : now - Minute <= t =>
             CountFrom(Window(minute[i], c), t) <= CountFrom(Append(min, now), t)
        <3> SUFFICES ASSUME NEW t \in Int, now - Minute <= t
                     PROVE  CountFrom(Window(minute[i], c), t)
                              <= CountFrom(Append(min, now), t)
            OBVIOUS
        <3>1. Append(min, now) \in Seq(0 .. now)
            BY <2>1 DEF WindowOK
        <3>2. CountFrom(Append(min, now), t) \in Nat
            BY <3>1, CountNat
        <3>3. QED BY <1>6, <2>1, <3>2
    <2>5. \A e : \A t \in Int : now - Minute <= t =>
             CountFrom(Window(minute[i], e), t) <= CountFrom(Window(m, e), t)
        BY <1>1, <2>2, <2>4, ReplacedKeeps DEF Keeps
    <2>6. \E n \in DOMAIN Window(m, c) : now - Window(m, c)[n] <= Minute
        BY <2>1, <2>2, Sizes
    <2>7. minute' = [minute EXCEPT ![i] = m]
        BY <1>11 DEF m
    <2>8. CASE day' = [day EXCEPT ![i] = With(days, c, all)] /\ waiting' = waiting
        <3> DEFINE d == With(days, c, all)
        <3>1. /\ TableOK(d, DayLimit) /\ DOMAIN d = DOMAIN days \union {c}
              /\ Window(d, c) = all /\ \A e : e # c => Window(d, e) = Window(days, e)
            <4>1. TableOK(d, DayLimit)
                BY <1>4, <1>8, TableWith
            <4>2. QED BY <4>1 DEF With, Window
        <3> HIDE DEF d
        <3>2. Sound(m, d)
            BY <1>8, <2>3, <3>1
        <3>3. Keeps(i, m, d)
            <4>1. \A e : \A t \in Int : now - Day <= t =>
                     CountFrom(Window(day[i], e), t) <= CountFrom(Window(d, e), t)
                BY <1>1, <1>6, <3>1, ReplacedKeeps DEF Keeps
            <4>2. QED BY <2>5, <4>1 DEF Keeps
        <3>4. Touches(i, c, m, d)
            BY <2>2, <2>6, <3>1 DEF Touches, mins, days
        <3>5. day' = [day EXCEPT ![i] = d]
            BY <2>8 DEF d
        <3>6. QED BY <1>11, <2>7, <2>8, <3>2, <3>3, <3>4, <3>5
    <2>9. CASE /\ day' = [day EXCEPT ![i] = With(days, c, Append(all, now))]
               /\ Len(all) < DayLimit /\ waiting' = waiting \union {<<i, c, now>>}
        <3> DEFINE d == With(days, c, Append(all, now))
        <3>1. /\ WindowOK(Append(all, now), DayLimit)
              /\ \A t \in Int : CountFrom(all, t) <= CountFrom(Append(all, now), t)
              /\ \A t \in Int : t <= now =>
                    CountFrom(Append(all, now), t) = CountFrom(all, t) + 1
            BY <1>4, <1>5, <2>9, AppendKeeps
        <3>2. /\ TableOK(d, DayLimit) /\ DOMAIN d = DOMAIN days \union {c}
              /\ Window(d, c) = Append(all, now)
              /\ \A e : e # c => Window(d, e) = Window(days, e)
            <4>1. TableOK(d, DayLimit)
                BY <1>8, <3>1, TableWith
            <4>2. QED BY <4>1 DEF With, Window
        <3> HIDE DEF d
        <3>3. Sound(m, d)
            BY <1>8, <2>3, <3>2
        <3>4. \A t \in Int : now - Day <= t =>
                 CountFrom(Window(day[i], c), t) <= CountFrom(Append(all, now), t)
            <4> SUFFICES ASSUME NEW t \in Int, now - Day <= t
                         PROVE  CountFrom(Window(day[i], c), t)
                                  <= CountFrom(Append(all, now), t)
                OBVIOUS
            <4>1. Append(all, now) \in Seq(0 .. now)
                BY <3>1 DEF WindowOK
            <4>2. CountFrom(Append(all, now), t) \in Nat
                BY <4>1, CountNat
            <4>3. QED BY <1>6, <3>1, <4>2
        <3>5. Keeps(i, m, d)
            <4>1. \A e : \A t \in Int : now - Day <= t =>
                     CountFrom(Window(day[i], e), t) <= CountFrom(Window(d, e), t)
                BY <1>1, <3>2, <3>4, ReplacedKeeps DEF Keeps
            <4>2. QED BY <2>5, <4>1 DEF Keeps
        <3>6. Charges(i, c, m, d)
            <4> SUFFICES ASSUME NEW t \in Int, t <= now
                         PROVE  /\ now - Minute <= t =>
                                      CountFrom(Window(minute[i], c), t) + 1
                                        <= CountFrom(Window(m, c), t)
                                /\ now - Day <= t =>
                                      CountFrom(Window(day[i], c), t) + 1
                                        <= CountFrom(Window(d, c), t)
                BY DEF Charges
            <4>1. /\ CountFrom(Append(min, now), t) = CountFrom(min, t) + 1
                  /\ CountFrom(Append(all, now), t) = CountFrom(all, t) + 1
                BY <2>1, <3>1
            <4>2. QED BY <1>6, <2>2, <3>2, <4>1
        <3>7. Touches(i, c, m, d)
            BY <2>2, <2>6, <3>2 DEF Touches, mins, days
        <3>8. day' = [day EXCEPT ![i] = d]
            BY <2>9 DEF d
        <3>9. QED BY <1>11, <2>7, <2>9, <3>3, <3>5, <3>6, <3>7, <3>8
    <2>10. QED BY <1>11, <2>8, <2>9
<1>12. QED BY <1>7, <1>9, <1>10, <1>11

---------------------------------------------------------------------------
(* Sweeps and refusals.                                                    *)

Live(m, d, c, t) ==
    \/ \E n \in DOMAIN Window(m, c) : t - Window(m, c)[n] <= Minute
    \/ \E n \in DOMAIN Window(d, c) : t - Window(d, c)[n] <= Day

LEMMA NoEntries == ASSUME NEW m, NEW c, c \notin DOMAIN m PROVE DOMAIN Window(m, c) = {}
<1>1. Window(m, c) = <<>> /\ DOMAIN <<>> = {}
    BY DEF Window
<1>2. QED BY <1>1

LEMMA LiveIs ==
    ASSUME NEW i, NEW c, NEW t
    PROVE  LiveAt(i, c, t) <=> Live(minute[i], day[i], c, t)
<1>1. c \in DOMAIN minute[i] => Window(minute[i], c) = minute[i][c]
    BY DEF Window
<1>2. c \in DOMAIN day[i] => Window(day[i], c) = day[i][c]
    BY DEF Window
<1>3. /\ c \notin DOMAIN minute[i] => DOMAIN Window(minute[i], c) = {}
      /\ c \notin DOMAIN day[i] => DOMAIN Window(day[i], c) = {}
    BY NoEntries
<1>4. QED BY <1>1, <1>2, <1>3 DEF LiveAt, Live

(* Who is live at a moment was live before it.                             *)
LEMMA LiveEarlier ==
    ASSUME now \in Nat, NEW m, NEW d, Sound(m, d), NEW c, NEW t \in Int, NEW u \in Int,
           u <= t, Live(m, d, c, t)
    PROVE  Live(m, d, c, u)
<1>1. ASSUME NEW table, NEW limit, TableOK(table, limit), NEW n \in DOMAIN Window(table, c)
      PROVE  Window(table, c)[n] \in Int
    <2>1. c \in DOMAIN table
        BY <1>1, NoEntries
    <2>2. Window(table, c) \in Seq(0 .. now)
        BY <1>1, <2>1 DEF TableOK, WindowOK, Window
    <2>3. QED BY <1>1, <2>2
<1>2. ASSUME NEW n \in DOMAIN Window(m, c), t - Window(m, c)[n] <= Minute
      PROVE  u - Window(m, c)[n] <= Minute
    <2>1. TableOK(m, MinuteLimit)
        BY DEF Sound
    <2>2. Window(m, c)[n] \in Int
        BY <1>1, <2>1
    <2>3. QED BY <1>2, <2>2, Sizes
<1>3. ASSUME NEW n \in DOMAIN Window(d, c), t - Window(d, c)[n] <= Day
      PROVE  u - Window(d, c)[n] <= Day
    <2>1. TableOK(d, DayLimit)
        BY DEF Sound
    <2>2. Window(d, c)[n] \in Int
        BY <1>1, <2>1
    <2>3. QED BY <1>3, <2>2, Sizes
<1>4. QED BY <1>2, <1>3 DEF Live

(* After a sweep every client left in the tables is live.                  *)
LEMMA SweptAreLive ==
    ASSUME now \in Nat, Windows, NEW i \in Instances, PruneDue(i), NEW c \in DOMAIN Mins(i)
    PROVE  Live(Mins(i), Days(i), c, now)
<1>1. Window(Mins(i), c) = Pruned(i, minute[i], Minute)[c]
    BY DEF Window, Mins
<1>2. c \in DOMAIN Pruned(i, day[i], Day) =>
         Window(Days(i), c) = Pruned(i, day[i], Day)[c]
    BY DEF Window, Days
<1>3. c \in DOMAIN Pruned(i, minute[i], Minute)
    BY DEF Mins
<1>4. QED BY <1>1, <1>2, <1>3, KeptAreLive DEF Live

(* The clients in the tables that a request leaves behind.                 *)
LEMMA LeftAreLive ==
    ASSUME now \in Nat, Windows, Swept, NEW i \in Instances, NEW c, NEW m, NEW d,
           Sound(m, d),
           (m = Mins(i) /\ d = Days(i)) \/ Touches(i, c, m, d), NEW e \in DOMAIN m
    PROVE  /\ PruneDue(i) => Live(m, d, e, now)
           /\ ~ PruneDue(i) => Live(m, d, e, nextSweep[i] - Sweep)
<1>1. nextSweep[i] \in Nat /\ nextSweep[i] <= now + Sweep /\ Sweep \in Nat
    BY Sizes DEF Swept
<1>2. nextSweep[i] - Sweep \in Int /\ nextSweep[i] - Sweep <= now
    BY <1>1
<1>3. CASE e \in DOMAIN Mins(i) /\ Window(m, e) = Window(Mins(i), e)
           /\ Window(d, e) = Window(Days(i), e)
    <2>1. \A t : Live(Mins(i), Days(i), e, t) => Live(m, d, e, t)
        BY <1>3 DEF Live
    <2>2. CASE PruneDue(i)
        BY <1>3, <2>1, <2>2, SweptAreLive
    <2>3. CASE ~ PruneDue(i)
        <3>1. Mins(i) = minute[i] /\ Days(i) = day[i]
            BY <2>3 DEF Mins, Days, Pruned
        <3>2. LiveAt(i, e, nextSweep[i] - Sweep)
            BY <1>3, <3>1 DEF Swept
        <3>3. QED BY <2>1, <2>3, <3>1, <3>2, LiveIs
    <2>4. QED BY <2>2, <2>3
<1>4. CASE Touches(i, c, m, d) /\ e = c
    <2>1. Live(m, d, e, now)
        BY <1>4 DEF Touches, Live
    <2>2. Live(m, d, e, nextSweep[i] - Sweep)
        BY <1>2, <2>1, LiveEarlier
    <2>3. QED BY <2>1, <2>2
<1>5. QED
    <2>1. CASE m = Mins(i) /\ d = Days(i)
        BY <1>3, <2>1
    <2>2. CASE Touches(i, c, m, d) /\ e # c
        <3>1. e \in DOMAIN Mins(i) /\ Window(m, e) = Window(Mins(i), e)
              /\ Window(d, e) = Window(Days(i), e)
            BY <2>2 DEF Touches
        <3>2. QED BY <1>3, <3>1
    <2>3. QED BY <1>4, <2>1, <2>2

---------------------------------------------------------------------------
(* What is owed.                                                           *)

LEMMA OwedNat ==
    ASSUME Typed, NEW i, NEW c, NEW t
    PROVE  /\ IsFiniteSet(Since(i, c, t)) /\ HowMany(Since(i, c, t)) \in Int
           /\ IsFiniteSet(Waiting(i, c, t)) /\ Cardinality(Waiting(i, c, t)) \in Nat
           /\ Owed(i, c, t) \in Int
<1>1. Since(i, c, t) \in SUBSET DOMAIN served /\ Waiting(i, c, t) \in SUBSET waiting
    BY DEF Since, Waiting
<1>2. /\ IsFiniteSet(Since(i, c, t)) /\ IsFiniteSet(Waiting(i, c, t))
      /\ Cardinality(Waiting(i, c, t)) \in Nat
    BY <1>1, FS_Subset, FS_CardinalityType DEF Typed
<1>3. \A s \in Since(i, c, t) : served[s] \in Int
    BY <1>1 DEF Typed
<1>4. HowMany(Since(i, c, t)) \in Int
    BY <1>2, <1>3, SumInt DEF HowMany
<1>5. QED BY <1>2, <1>4 DEF Owed

LEMMA WindowNat ==
    ASSUME now \in Nat, NEW table, NEW limit, TableOK(table, limit), NEW c, NEW t
    PROVE  CountFrom(Window(table, c), t) \in Nat
<1>1. <<>> \in Seq(0 .. now)
    OBVIOUS
<1>2. Window(table, c) \in Seq(0 .. now)
    BY <1>1 DEF TableOK, WindowOK, Window
<1>3. QED BY <1>2, CountNat

LEMMA OneMore ==
    ASSUME NEW S, IsFiniteSet(S), NEW x
    PROVE  /\ IsFiniteSet(S \union {x}) /\ Cardinality(S \union {x}) \in Nat
           /\ Cardinality(S \union {x}) <= Cardinality(S) + 1
<1>1. /\ IsFiniteSet(S \union {x})
      /\ Cardinality(S \union {x})
           = IF x \in S THEN Cardinality(S) ELSE Cardinality(S) + 1
    BY FS_AddElement
<1>2. Cardinality(S \union {x}) \in Nat /\ Cardinality(S) \in Nat
    BY <1>1, FS_CardinalityType
<1>3. QED BY <1>1, <1>2

(* Handle keeps every debt in both windows, and charges one that it adds.  *)
LEMMA HandleDebts ==
    ASSUME now \in Nat, Typed, Windows, Debts, NEW i \in Instances, NEW c \in Identities,
           NEW m, NEW d, Sound(m, d), Keeps(i, m, d),
           minute' = [minute EXCEPT ![i] = m], day' = [day EXCEPT ![i] = d],
           UNCHANGED <<now, restarts, served>>,
           \/ waiting' = waiting
           \/ waiting' = waiting \union {<<i, c, now>>} /\ Charges(i, c, m, d)
    PROVE  Debts'
<1>1. SUFFICES ASSUME restarts = 0, NEW j \in Instances, NEW e \in Identities, NEW t \in Int
               PROVE  /\ now - Minute <= t =>
                            Owed(j, e, t)' <= CountFrom(Window(minute'[j], e), t)
                      /\ now - Day <= t =>
                            Owed(j, e, t)' <= CountFrom(Window(day'[j], e), t)
    BY DEF Debts, CountFrom, Window
<1>2. /\ now - Minute <= t => Owed(j, e, t) <= CountFrom(Window(minute[j], e), t)
      /\ now - Day <= t => Owed(j, e, t) <= CountFrom(Window(day[j], e), t)
    BY <1>1 DEF Debts
<1>3. /\ IsFiniteSet(Waiting(j, e, t)) /\ Cardinality(Waiting(j, e, t)) \in Nat
      /\ HowMany(Since(j, e, t)) \in Int /\ Owed(j, e, t) \in Int
      /\ Owed(j, e, t) = HowMany(Since(j, e, t)) + Cardinality(Waiting(j, e, t))
    BY OwedNat DEF Owed
<1>4. /\ CountFrom(Window(minute[j], e), t) \in Nat /\ CountFrom(Window(m, e), t) \in Nat
      /\ CountFrom(Window(day[j], e), t) \in Nat /\ CountFrom(Window(d, e), t) \in Nat
    <2>1. /\ TableOK(minute[j], MinuteLimit) /\ TableOK(m, MinuteLimit)
          /\ TableOK(day[j], DayLimit) /\ TableOK(d, DayLimit)
        BY DEF Windows, Sound
    <2>2. QED BY <2>1, WindowNat
<1>5. /\ minute'[i] = m /\ day'[i] = d
      /\ j # i => minute'[j] = minute[j] /\ day'[j] = day[j]
    BY DEF Windows
<1>6. Owed(j, e, t)' = HowMany(Since(j, e, t)) + Cardinality(Waiting(j, e, t)')
    BY DEF Owed, HowMany, Since
<1>7. j = i => /\ now - Minute <= t =>
                     CountFrom(Window(minute[j], e), t) <= CountFrom(Window(m, e), t)
               /\ now - Day <= t =>
                     CountFrom(Window(day[j], e), t) <= CountFrom(Window(d, e), t)
    BY DEF Keeps
<1>8. CASE Waiting(j, e, t)' = Waiting(j, e, t)
    <2>1. Owed(j, e, t)' = Owed(j, e, t)
        BY <1>3, <1>6, <1>8
    <2>2. QED
        <3>1. CASE j = i
            <4>1. minute'[j] = m /\ day'[j] = d
                BY <1>5, <3>1
            <4>2. QED BY <1>2, <1>3, <1>4, <1>7, <2>1, <3>1, <4>1, Sizes
        <3>2. CASE j # i
            <4>1. minute'[j] = minute[j] /\ day'[j] = day[j]
                BY <1>5, <3>2
            <4>2. QED BY <1>2, <2>1, <4>1
        <3>3. QED BY <3>1, <3>2
<1>9. CASE /\ waiting' = waiting \union {<<i, c, now>>} /\ Charges(i, c, m, d)
           /\ j = i /\ e = c /\ t <= now
    <2>1. Waiting(j, e, t)' = Waiting(j, e, t) \union {<<i, c, now>>}
        BY <1>9 DEF Waiting
    <2>2. /\ Cardinality(Waiting(j, e, t)') \in Nat
          /\ Cardinality(Waiting(j, e, t)') <= Cardinality(Waiting(j, e, t)) + 1
        <3>1. PICK W : W = Waiting(j, e, t)
            OBVIOUS
        <3>2. IsFiniteSet(W)
            BY <1>3, <3>1
        <3>3. /\ Cardinality(W \union {<<i, c, now>>}) \in Nat
              /\ Cardinality(W \union {<<i, c, now>>}) <= Cardinality(W) + 1
            BY <3>2, OneMore
        <3>4. QED BY <2>1, <3>1, <3>3
    <2>3. /\ now - Minute <= t =>
                CountFrom(Window(minute[j], e), t) + 1 <= CountFrom(Window(m, e), t)
          /\ now - Day <= t =>
                CountFrom(Window(day[j], e), t) + 1 <= CountFrom(Window(d, e), t)
        BY <1>9 DEF Charges
    <2>4. minute'[j] = m /\ day'[j] = d
        BY <1>5, <1>9
    <2>5. Owed(j, e, t)' \in Int /\ Owed(j, e, t)' <= Owed(j, e, t) + 1
        BY <1>3, <1>6, <2>2
    <2>6. QED BY <1>2, <1>3, <1>4, <2>3, <2>4, <2>5, Sizes
<1>10. Waiting(j, e, t)' = Waiting(j, e, t)
       \/ (/\ waiting' = waiting \union {<<i, c, now>>} /\ Charges(i, c, m, d)
           /\ j = i /\ e = c /\ t <= now)
    BY DEF Waiting
<1>11. QED BY <1>8, <1>9, <1>10

---------------------------------------------------------------------------
(* Each action keeps the invariant.                                        *)

LEMMA InvNow == ASSUME LimiterInv PROVE now \in Nat /\ now \in Times
BY Sizes DEF LimiterInv, Typed, Times

(* The invariant's parts that the clients' windows do not enter.           *)
LEMMA CountersAlone ==
    ASSUME Counters, UNCHANGED <<now, keys, served>>
    PROVE  Counters'
<1>1. \A k : CountedSince(k)' = CountedSince(k)
    BY DEF CountedSince
<1>2. \A S : HowMany(S)' = HowMany(S)
    BY DEF HowMany
<1>3. \A k : HowMany(CountedSince(k))' = HowMany(CountedSince(k))
    BY <1>1, <1>2
<1>4. QED BY <1>3 DEF Counters

LEMMA HandleTables ==
    ASSUME Windows, NEW i \in Instances, NEW m, NEW d, Sound(m, d), now' = now,
           minute' = [minute EXCEPT ![i] = m], day' = [day EXCEPT ![i] = d]
    PROVE  Windows'
<1>1. /\ DOMAIN minute' = Instances /\ minute' = [j \in Instances |-> minute'[j]]
      /\ DOMAIN day' = Instances /\ day' = [j \in Instances |-> day'[j]]
    BY DEF Windows
<1>2. ASSUME NEW j \in Instances
      PROVE  /\ TableOK(minute'[j], MinuteLimit) /\ TableOK(day'[j], DayLimit)
             /\ DOMAIN day'[j] \subseteq DOMAIN minute'[j]
             /\ Cardinality(DOMAIN minute'[j]) <= Cap
    <2>1. minute'[i] = m /\ day'[i] = d
          /\ (j # i => minute'[j] = minute[j] /\ day'[j] = day[j])
        BY DEF Windows
    <2>2. CASE j = i
        BY <2>1, <2>2 DEF Sound
    <2>3. CASE j # i
        BY <2>1, <2>3 DEF Windows
    <2>4. QED BY <2>2, <2>3
<1>3. \A j \in Instances : TableOK(minute[j], MinuteLimit)' /\ TableOK(day[j], DayLimit)'
    BY <1>2 DEF TableOK, WindowOK
<1>4. QED BY <1>1, <1>2, <1>3 DEF Windows

(* After the sweep that a full table may ask for.                          *)
LEMMA HandleSwept ==
    ASSUME LimiterInv, NEW i \in Instances, NEW c, NEW m, NEW d, Sound(m, d),
           (m = Mins(i) /\ d = Days(i)) \/ Touches(i, c, m, d), now' = now,
           minute' = [minute EXCEPT ![i] = m], day' = [day EXCEPT ![i] = d],
           MaybePrune(i)
    PROVE  Swept'
<1>1. now \in Nat /\ Windows /\ Swept /\ Sweep \in Nat /\ PruneEvery \in Nat \ {0}
    BY InvNow, Sizes DEF LimiterInv
<1>2. /\ minute'[i] = m /\ day'[i] = d
      /\ \A j \in Instances : j # i => minute'[j] = minute[j] /\ day'[j] = day[j]
    BY <1>1 DEF Windows
<1>3. /\ PruneDue(i) => \A e \in DOMAIN m : Live(m, d, e, now)
      /\ ~ PruneDue(i) => \A e \in DOMAIN m : Live(m, d, e, nextSweep[i] - Sweep)
    BY <1>1, LeftAreLive
<1>4. /\ nextSweep \in [Instances -> Nat] /\ requests \in [Instances -> 0 .. PruneEvery - 1]
      /\ \A j \in Instances : nextSweep[j] \in Nat /\ nextSweep[j] <= now + Sweep
    BY <1>1 DEF Swept
<1>5. requests' \in [Instances -> 0 .. PruneEvery - 1]
    <2>1. ~ PruneDue(i) => requests[i] + 1 \in 0 .. PruneEvery - 1
        BY <1>1, <1>4 DEF PruneDue
    <2>2. 0 \in 0 .. PruneEvery - 1
        BY <1>1
    <2>3. QED BY <1>4, <2>1, <2>2 DEF MaybePrune
<1>6. /\ nextSweep' \in [Instances -> Nat]
      /\ nextSweep'[i] = IF PruneDue(i) THEN now + Sweep ELSE nextSweep[i]
      /\ \A j \in Instances : j # i => nextSweep'[j] = nextSweep[j]
    BY <1>1, <1>4 DEF MaybePrune
<1>7. ASSUME NEW j \in Instances
      PROVE  nextSweep'[j] <= now + Sweep
    <2>1. CASE j = i
        BY <1>1, <1>4, <1>6, <2>1
    <2>2. CASE j # i
        BY <1>4, <1>6, <2>2
    <2>3. QED BY <2>1, <2>2
<1>8. ASSUME NEW j \in Instances, NEW e \in DOMAIN minute'[j]
      PROVE  LiveAt(j, e, nextSweep[j] - Sweep)'
    <2>1. CASE j = i
        <3>1. Live(m, d, e, nextSweep'[i] - Sweep)
            <4>1. CASE PruneDue(i)
                <5>1. nextSweep'[i] - Sweep = now
                    BY <1>1, <1>6, <4>1
                <5>2. QED BY <1>2, <1>3, <1>8, <2>1, <4>1, <5>1
            <4>2. CASE ~ PruneDue(i)
                BY <1>2, <1>3, <1>6, <1>8, <2>1, <4>2
            <4>3. QED BY <4>1, <4>2
        <3>2. Live(minute'[j], day'[j], e, nextSweep'[j] - Sweep)
            BY <1>2, <2>1, <3>1
        <3>3. LiveAt(j, e, nextSweep[j] - Sweep)' <=>
                 Live(minute'[j], day'[j], e, nextSweep'[j] - Sweep)
            <4>1. /\ e \in DOMAIN minute'[j] => Window(minute'[j], e) = minute'[j][e]
                  /\ e \in DOMAIN day'[j] => Window(day'[j], e) = day'[j][e]
                BY DEF Window
            <4>2. /\ e \notin DOMAIN minute'[j] => DOMAIN Window(minute'[j], e) = {}
                  /\ e \notin DOMAIN day'[j] => DOMAIN Window(day'[j], e) = {}
                BY NoEntries
            <4>3. QED BY <4>1, <4>2 DEF LiveAt, Live, Window
        <3>4. QED BY <3>2, <3>3
    <2>2. CASE j # i
        <3>1. e \in DOMAIN minute[j] /\ nextSweep'[j] = nextSweep[j]
              /\ minute'[j] = minute[j] /\ day'[j] = day[j]
            BY <1>2, <1>6, <1>8, <2>2
        <3>2. LiveAt(j, e, nextSweep[j] - Sweep)
            BY <1>1, <3>1 DEF Swept
        <3>3. QED BY <3>1, <3>2 DEF LiveAt, Window
    <2>3. QED BY <2>1, <2>2
<1>9. QED BY <1>5, <1>6, <1>7, <1>8 DEF Swept

(* A client is refused behind clients that were live less than a sweep ago.*)
LEMMA HandleRefuses ==
    ASSUME LimiterInv, NEW i \in Instances, NEW m, NEW d, Sound(m, d), now' = now,
           m = Mins(i), d = Days(i), AtCapacity(m), turnedAway' = {i},
           minute' = [minute EXCEPT ![i] = m], day' = [day EXCEPT ![i] = d]
    PROVE  RefusedBehindLiveClients'
<1>1. now \in Nat /\ Windows /\ Swept /\ Sweep \in Nat \ {0}
    BY InvNow, Sizes DEF LimiterInv
<1>2. minute'[i] = m /\ day'[i] = d
    BY <1>1 DEF Windows
<1>3. SUFFICES ASSUME NEW e \in DOMAIN m
               PROVE  LiveAt(i, e, now - Sweep + 1)'
    BY <1>2 DEF RefusedBehindLiveClients, LiveAt
<1>4. Live(m, d, e, now - Sweep + 1)
    <2>1. CASE PruneDue(i)
        <3>1. Live(m, d, e, now)
            BY <1>1, <2>1, LeftAreLive
        <3>2. now \in Int /\ now - Sweep + 1 \in Int /\ now - Sweep + 1 <= now
            BY <1>1
        <3>3. QED BY <1>1, <3>1, <3>2, LiveEarlier
    <2>2. CASE ~ PruneDue(i)
        <3>1. Live(m, d, e, nextSweep[i] - Sweep)
            BY <1>1, <2>2, LeftAreLive
        <3>2. m = minute[i]
            BY <2>2 DEF Mins, Pruned
        <3>3. nextSweep[i] \in Nat /\ ~ (now >= nextSweep[i])
            BY <1>1, <2>2, <3>2 DEF PruneDue, SweepDue, CapacityDue, AtCapacity, Swept
        <3>4. /\ nextSweep[i] - Sweep \in Int /\ now - Sweep + 1 \in Int
              /\ now - Sweep + 1 <= nextSweep[i] - Sweep
            BY <1>1, <3>3
        <3>5. QED BY <1>1, <3>1, <3>4, LiveEarlier
    <2>3. QED BY <2>1, <2>2
<1>5. LiveAt(i, e, now - Sweep + 1)' <=> Live(minute'[i], day'[i], e, now - Sweep + 1)
    <2>1. /\ e \in DOMAIN minute'[i] => Window(minute'[i], e) = minute'[i][e]
          /\ e \in DOMAIN day'[i] => Window(day'[i], e) = day'[i][e]
        BY DEF Window
    <2>2. /\ e \notin DOMAIN minute'[i] => DOMAIN Window(minute'[i], e) = {}
          /\ e \notin DOMAIN day'[i] => DOMAIN Window(day'[i], e) = {}
        BY NoEntries
    <2>3. QED BY <2>1, <2>2 DEF LiveAt, Live, Window
<1>6. QED BY <1>2, <1>4, <1>5

LEMMA HandleKeeps ==
    ASSUME LimiterInv, NEW i \in Instances, NEW ip \in Ips, Handle(i, ip)
    PROVE  LimiterInv'
<1>1. /\ now \in Nat /\ now \in Times /\ Typed /\ Windows /\ Debts /\ Counters
    BY InvNow DEF LimiterInv
<1>2. PICK c \in Identities : c = ClientId(ip)
    BY <1>1 DEF ClientId, Identities
<1>3. PICK m, d :
          /\ minute' = [minute EXCEPT ![i] = m] /\ day' = [day EXCEPT ![i] = d]
          /\ Sound(m, d) /\ Keeps(i, m, d)
          /\ \/ waiting' = waiting
             \/ /\ waiting' = waiting \union {<<i, c, now>>}
                /\ Charges(i, c, m, d)
          /\ \/ /\ turnedAway' = {i} /\ AtCapacity(m)
                /\ m = Mins(i) /\ d = Days(i)
             \/ turnedAway' = {} /\ Touches(i, c, m, d)
    BY <1>1, <1>2, HandleLeaves
<1>4. UNCHANGED <<now, keys, restarts, served>> /\ MaybePrune(i)
    BY DEF Handle
<1>5. Typed'
    <2>1. <<i, c, now>> \in Instances \X Identities \X (0 .. now)
        BY <1>1
    <2>2. waiting' \subseteq Instances \X Identities \X (0 .. now) /\ IsFiniteSet(waiting')
        BY <1>1, <1>3, <2>1, OneMore DEF Typed
    <2>3. QED BY <1>1, <1>4, <2>2 DEF Typed, Records
<1>6. Windows'
    BY <1>1, <1>3, <1>4, HandleTables
<1>7. Swept'
    BY <1>3, <1>4, HandleSwept
<1>8. Debts'
    BY <1>1, <1>3, <1>4, HandleDebts
<1>9. Counters'
    BY <1>1, <1>4, CountersAlone
<1>10. RefusedBehindLiveClients'
    <2>1. CASE turnedAway' = {}
        BY <2>1 DEF RefusedBehindLiveClients
    <2>2. CASE turnedAway' = {i} /\ AtCapacity(m) /\ m = Mins(i) /\ d = Days(i)
        BY <1>3, <1>4, <2>2, HandleRefuses
    <2>3. QED BY <1>3, <2>1, <2>2
<1>11. QED BY <1>5, <1>6, <1>7, <1>8, <1>9, <1>10 DEF LimiterInv

---------------------------------------------------------------------------
(* Redis answers, or fails.                                                *)

Passed(i, c, asked, kind) ==
    [at |-> i, id |-> c, asked |-> asked, time |-> now, kind |-> kind]

(* A request let through is one more among the sets it belongs to.         *)
Gains(p) ==
    /\ DOMAIN served' = DOMAIN served \union {p}
    /\ served' \in [DOMAIN served' -> Nat] /\ IsFiniteSet(DOMAIN served')
    /\ \A T \in SUBSET DOMAIN served' :
          /\ p \notin T => SumFunctionOnSet(served', T)
                             = HowMany(T \intersect DOMAIN served)
          /\ p \in T => SumFunctionOnSet(served', T)
                            = HowMany(T \intersect DOMAIN served) + 1

LEMMA Gained ==
    ASSUME Typed, NEW i, NEW c, NEW asked, NEW kind, Pass(i, c, asked, kind),
           NEW p, p = Passed(i, c, asked, kind)
    PROVE  Gains(p)
<1> DEFINE D == DOMAIN served
<1>1. /\ IsFiniteSet(D) /\ served \in [D -> Nat]
    BY DEF Typed
<1>2. served' = [s \in D \union {p} |-> IF s = p THEN Often(s) + 1 ELSE served[s]]
    BY DEF Pass, Passed
<1>3. Often(p) \in Nat /\ (p \notin D => Often(p) = 0) /\ (p \in D => Often(p) = served[p])
    BY <1>1 DEF Often
<1>4. /\ DOMAIN served' = D \union {p} /\ served'[p] = Often(p) + 1
      /\ \A s \in D : s # p => served'[s] = served[s]
    BY <1>2
<1>5. served' \in [D \union {p} -> Nat]
    BY <1>1, <1>2, <1>3
<1>6. IsFiniteSet(D \union {p})
    BY <1>1, FS_AddElement
<1>7. ASSUME NEW T \in SUBSET (D \union {p})
      PROVE  /\ p \notin T => SumFunctionOnSet(served', T) = HowMany(T \intersect D)
             /\ p \in T => SumFunctionOnSet(served', T) = HowMany(T \intersect D) + 1
    <2>1. PICK g : g = served'
        OBVIOUS
    <2>2. /\ \A s \in D : s # p => g[s] = served[s]
          /\ \A s \in D : served[s] \in Int
          /\ g[p] = Often(p) + 1 /\ g[p] \in Int
        BY <1>1, <1>3, <1>4, <2>1
    <2>3. IsFiniteSet(T \intersect D) /\ T \intersect D \in SUBSET D
        BY <1>1, FS_Subset
    <2>4. CASE p \notin T
        <3>1. T \intersect D = T /\ \A s \in T : served[s] \in Int /\ served[s] = g[s]
            BY <2>2, <2>4
        <3>2. IsFiniteSet(T)
            BY <2>3, <3>1
        <3>3. SumFunctionOnSet(served, T) = SumFunctionOnSet(g, T)
            BY <3>1, <3>2, SumSame
        <3>4. QED BY <2>1, <2>4, <3>1, <3>3 DEF HowMany
    <2>5. CASE p \in T /\ p \in D
        <3>1. T \intersect D = T /\ T \subseteq D
            BY <2>5
        <3>2. IsFiniteSet(T)
            BY <2>3, <3>1
        <3>3. \A s \in T : served[s] \in Int /\ g[s] \in Int
            BY <2>2, <3>1
        <3>4. \A s \in T : s # p => g[s] = served[s]
            BY <2>2, <3>1
        <3>5. SumFunctionOnSet(g, T)
                = SumFunctionOnSet(served, T) + (g[p] - served[p])
            BY <2>5, <3>2, <3>3, <3>4, SumChange
        <3>6. g[p] - served[p] = 1
            BY <1>1, <1>3, <2>2, <2>5
        <3>7. QED BY <2>1, <2>5, <3>1, <3>5, <3>6 DEF HowMany
    <2>6. CASE p \in T /\ p \notin D
        <3>1. PICK U : U = T \intersect D
            OBVIOUS
        <3>2. T = U \union {p} /\ p \notin U /\ IsFiniteSet(U)
            BY <2>3, <2>6, <3>1
        <3>3. \A s \in U : served[s] \in Int /\ g[s] = served[s]
            BY <2>2, <2>6, <3>1
        <3>4. SumFunctionOnSet(g, U \union {p}) = SumFunctionOnSet(served, U) + g[p]
            <4>1. p \notin U /\ IsFiniteSet(U) /\ g[p] \in Int
                BY <2>2, <3>2
            <4>2. PICK f : f = served
                OBVIOUS
            <4>3. \A s \in U : f[s] \in Int /\ g[s] = f[s]
                BY <3>3, <4>2
            <4>4. SumFunctionOnSet(g, U \union {p}) = SumFunctionOnSet(f, U) + g[p]
                BY <4>1, <4>3, SumExtend
            <4>5. QED BY <4>2, <4>4
        <3>5. g[p] = 1
            BY <1>3, <2>2, <2>6
        <3>6. QED BY <2>1, <2>6, <3>1, <3>2, <3>4, <3>5 DEF HowMany
    <2>7. QED BY <2>4, <2>5, <2>6
<1>8. QED BY <1>4, <1>5, <1>6, <1>7 DEF Gains

(* What the answer or the failure of Redis leaves.                         *)
Settles(i, c, asked) ==
    /\ <<i, c, asked>> \in waiting /\ waiting' = waiting \ {<<i, c, asked>>}
    /\ keys' = keys \/ keys' = Counted(c)
    /\ \/ served' = served
       \/ Pass(i, c, asked, "degraded")
       \/ /\ Pass(i, c, asked, "counted")
          /\ keys' = Counted(c) /\ ~ OverLimit(c)
    /\ turnedAway' = {}
    /\ UNCHANGED <<now, minute, day, requests, nextSweep, restarts>>

LEMMA RedisSettles ==
    ASSUME NEW i, NEW c, NEW asked, RedisAnswers(i, c, asked) \/ RedisFails(i, c, asked)
    PROVE  Settles(i, c, asked)
BY DEF RedisAnswers, RedisFails, Settles

LEMMA SettlesOwed ==
    ASSUME Typed, NEW i, NEW c, NEW asked, Settles(i, c, asked), NEW j, NEW e, NEW t
    PROVE  Owed(j, e, t)' <= Owed(j, e, t) /\ Owed(j, e, t)' \in Int
<1> DEFINE w == <<i, c, asked>>
           S == Since(j, e, t)
           W == Waiting(j, e, t)
           mine == i = j /\ c = e /\ asked >= t
<1>1. /\ IsFiniteSet(W) /\ Cardinality(W) \in Nat
      /\ HowMany(S) \in Int /\ Owed(j, e, t) = HowMany(S) + Cardinality(W)
    BY OwedNat DEF Owed
<1>2. Owed(j, e, t)' = SumFunctionOnSet(served', S') + Cardinality(W')
    BY DEF Owed, HowMany
<1>3. /\ mine => W' = W \ {w} /\ w \in W
      /\ ~ mine => W' = W
    BY DEF Settles, Waiting
<1>4. /\ Cardinality(W') \in Nat
      /\ mine => Cardinality(W') = Cardinality(W) - 1
      /\ ~ mine => Cardinality(W') = Cardinality(W)
    <2>1. PICK U : U = W
        OBVIOUS
    <2>2. IsFiniteSet(U)
        BY <1>1, <2>1
    <2>3. w \in U => Cardinality(U \ {w}) = Cardinality(U) - 1
        BY <2>2, FS_RemoveElement
    <2>4. Cardinality(U \ {w}) \in Nat
        BY <2>2, FS_RemoveElement, FS_CardinalityType
    <2>5. CASE mine
        BY <1>3, <2>1, <2>3, <2>4, <2>5
    <2>6. CASE ~ mine
        BY <1>1, <1>3, <2>6
    <2> HIDE DEF mine
    <2>7. QED BY <2>5, <2>6
<1>5. \/ SumFunctionOnSet(served', S') = HowMany(S)
      \/ (SumFunctionOnSet(served', S') = HowMany(S) + 1) /\ mine
    <2>1. CASE served' = served
        <3>1. S' = S
            BY <2>1 DEF Since
        <3>2. SumFunctionOnSet(served', S') = SumFunctionOnSet(served, S)
            BY <2>1, <3>1
        <3>3. QED BY <3>2 DEF HowMany
    <2>2. ASSUME NEW kind, Pass(i, c, asked, kind)
          PROVE  \/ SumFunctionOnSet(served', S') = HowMany(S)
                 \/ (SumFunctionOnSet(served', S') = HowMany(S) + 1) /\ mine
        <3>0. PICK p : p = Passed(i, c, asked, kind)
            OBVIOUS
        <3>1. /\ DOMAIN served' = DOMAIN served \union {p}
              /\ \A T \in SUBSET DOMAIN served' :
                    /\ p \notin T =>
                          SumFunctionOnSet(served', T) = HowMany(T \intersect DOMAIN served)
                    /\ p \in T =>
                          SumFunctionOnSet(served', T)
                             = HowMany(T \intersect DOMAIN served) + 1
            <4>1. Gains(p)
                BY <2>2, <3>0, Gained
            <4>2. QED BY <4>1 DEF Gains
        <3>2. p.at = i /\ p.id = c /\ p.asked = asked
            BY <3>0 DEF Passed
        <3>3. S' = {s \in DOMAIN served' : s.at = j /\ s.id = e /\ s.asked >= t}
            BY DEF Since
        <3>4. /\ S' \in SUBSET DOMAIN served' /\ S' \intersect DOMAIN served = S
              /\ p \in S' => mine
            BY <3>1, <3>2, <3>3 DEF Since
        <3> HIDE DEF S, mine
        <3>5. QED BY <3>1, <3>4
    <2> HIDE DEF S, mine
    <2>3. QED BY <2>1, <2>2 DEF Settles
<1> HIDE DEF S, W, mine
<1>6. QED BY <1>1, <1>2, <1>4, <1>5

(* What waited and is let through is owed as before.                       *)
LEMMA SettlesDebts ==
    ASSUME now \in Nat, Typed, Windows, Debts, NEW i, NEW c, NEW asked,
           Settles(i, c, asked)
    PROVE  Debts'
<1>0. UNCHANGED <<now, minute, day, restarts>>
    BY DEF Settles
<1>1. SUFFICES ASSUME restarts = 0, NEW j \in Instances, NEW e \in Identities, NEW t \in Int
               PROVE  /\ now - Minute <= t =>
                            Owed(j, e, t)' <= CountFrom(Window(minute[j], e), t)
                      /\ now - Day <= t =>
                            Owed(j, e, t)' <= CountFrom(Window(day[j], e), t)
    BY <1>0 DEF Debts, CountFrom, Window
<1>2. Owed(j, e, t)' <= Owed(j, e, t) /\ Owed(j, e, t)' \in Int /\ Owed(j, e, t) \in Int
    BY SettlesOwed, OwedNat
<1>3. /\ CountFrom(Window(minute[j], e), t) \in Nat
      /\ CountFrom(Window(day[j], e), t) \in Nat
    <2>1. TableOK(minute[j], MinuteLimit) /\ TableOK(day[j], DayLimit)
        BY DEF Windows
    <2>2. QED BY <2>1, WindowNat
<1>4. /\ now - Minute <= t => Owed(j, e, t) <= CountFrom(Window(minute[j], e), t)
      /\ now - Day <= t => Owed(j, e, t) <= CountFrom(Window(day[j], e), t)
    BY <1>1 DEF Debts
<1>5. QED BY <1>2, <1>3, <1>4

(* Redis never forgets a counter and counts what it lets through.          *)
LEMMA CountedKeys ==
    ASSUME now \in Nat, Counters, NEW c \in Identities, keys' = keys \/ keys' = Counted(c)
    PROVE  /\ DOMAIN keys \subseteq DOMAIN keys' /\ DOMAIN keys' \subseteq Kinds \X Identities
           /\ keys' \in [DOMAIN keys' -> [count : Nat, expires : Int]]
           /\ \A k \in DOMAIN keys :
                 /\ keys'[k].expires = keys[k].expires
                 /\ keys'[k].count >= keys[k].count
                 /\ keys' = Counted(c) /\ k[2] = c => keys'[k].count = keys[k].count + 1
           /\ \A k \in DOMAIN keys' \ DOMAIN keys :
                 /\ k[2] = c /\ keys'[k].count = 1
                 /\ keys'[k].expires = now + Length(k[1])
           /\ keys' = Counted(c) => Kinds \X {c} \subseteq DOMAIN keys'
<1>1. /\ DOMAIN keys \subseteq Kinds \X Identities
      /\ \A k \in DOMAIN keys : keys[k] \in [count : Nat, expires : Int]
      /\ keys \in [DOMAIN keys -> [count : Nat, expires : Int]]
    BY DEF Counters
<1>2. CASE keys' = Counted(c)
    <2>1. DOMAIN keys' = DOMAIN keys \union (Kinds \X {c})
        BY <1>2 DEF Counted
    <2>2. ASSUME NEW k \in DOMAIN keys
          PROVE  /\ keys'[k] \in [count : Nat, expires : Int]
                 /\ keys'[k].expires = keys[k].expires
                 /\ keys'[k].count >= keys[k].count
                 /\ k[2] = c => keys'[k].count = keys[k].count + 1
        <3>1. keys'[k] = IF k[2] # c THEN keys[k] ELSE [keys[k] EXCEPT !.count = @ + 1]
            BY <1>2, <2>1 DEF Counted
        <3>2. keys[k] \in [count : Nat, expires : Int]
            BY <1>1
        <3>3. QED BY <3>1, <3>2
    <2>3. ASSUME NEW k \in DOMAIN keys' \ DOMAIN keys
          PROVE  /\ keys'[k] \in [count : Nat, expires : Int]
                 /\ k[2] = c /\ keys'[k].count = 1
                 /\ keys'[k].expires = now + Length(k[1])
        <3>1. k[2] = c
            BY <2>1
        <3>2. keys'[k] = [count |-> 1, expires |-> now + Length(k[1])]
            BY <1>2, <2>1, <3>1 DEF Counted
        <3>3. now + Length(k[1]) \in Int
            BY Sizes DEF Length
        <3>4. QED BY <3>1, <3>2, <3>3
    <2>4. keys' = [k \in DOMAIN keys' |-> keys'[k]]
        BY <1>2 DEF Counted
    <2>5. keys' \in [DOMAIN keys' -> [count : Nat, expires : Int]]
        BY <2>2, <2>3, <2>4
    <2>6. QED BY <1>1, <2>1, <2>2, <2>3, <2>5
<1>3. CASE keys' = keys /\ keys' # Counted(c)
    BY <1>1, <1>3
<1>4. QED BY <1>2, <1>3

LEMMA SettlesCounters ==
    ASSUME now \in Nat, Typed, Counters, NEW i, NEW c \in Identities, NEW asked,
           Settles(i, c, asked)
    PROVE  Counters'
<1> DEFINE T(k) == {s \in DOMAIN served' :
                       /\ s.kind = "counted" /\ s.id = k[2]
                       /\ s.time >= keys'[k].expires - Length(k[1])}
           D == DOMAIN served
           counted == /\ Pass(i, c, asked, "counted")
                      /\ keys' = Counted(c) /\ ~ OverLimit(c)
<1>0. now' = now /\ (keys' = keys \/ keys' = Counted(c))
    BY DEF Settles
<1>1. /\ DOMAIN keys \subseteq DOMAIN keys' /\ DOMAIN keys' \subseteq Kinds \X Identities
      /\ keys' \in [DOMAIN keys' -> [count : Nat, expires : Int]]
      /\ \A k \in DOMAIN keys :
            /\ keys'[k].expires = keys[k].expires
            /\ keys'[k].count >= keys[k].count
            /\ keys' = Counted(c) /\ k[2] = c => keys'[k].count = keys[k].count + 1
      /\ \A k \in DOMAIN keys' \ DOMAIN keys :
            /\ k[2] = c /\ keys'[k].count = 1
            /\ keys'[k].expires = now + Length(k[1])
      /\ keys' = Counted(c) => Kinds \X {c} \subseteq DOMAIN keys'
    BY <1>0, CountedKeys
<1>2. \/ served' = served
      \/ \E p : /\ Gains(p) /\ p.id = c
                /\ \/ p.kind = "degraded"
                   \/ p.kind = "counted" /\ counted
    <2>1. ASSUME NEW kind, Pass(i, c, asked, kind)
          PROVE  \E p : Gains(p) /\ p.id = c /\ p.kind = kind
        <3>1. PICK p : p = Passed(i, c, asked, kind)
            OBVIOUS
        <3>2. Gains(p)
            BY <2>1, <3>1, Gained
        <3>3. p.id = c /\ p.kind = kind
            BY <3>1 DEF Passed
        <3>4. QED BY <3>2, <3>3
    <2>2. CASE Pass(i, c, asked, "degraded")
        BY <2>1, <2>2
    <2>3. CASE counted
        <3>1. Pass(i, c, asked, "counted")
            BY <2>3
        <3>2. PICK p : Gains(p) /\ p.id = c /\ p.kind = "counted"
            BY <2>1, <3>1
        <3> HIDE DEF counted
        <3>3. QED BY <2>3, <3>2
    <2>4. QED BY <2>2, <2>3 DEF Settles
<1>3. ASSUME NEW k
      PROVE  \/ SumFunctionOnSet(served', T(k)) = HowMany(T(k) \intersect D)
             \/ /\ SumFunctionOnSet(served', T(k)) = HowMany(T(k) \intersect D) + 1
                /\ k[2] = c /\ counted
    <2>1. CASE served' = served
        <3>1. T(k) \intersect D = T(k)
            BY <2>1
        <3> HIDE DEF T, counted
        <3>2. SumFunctionOnSet(served', T(k)) = SumFunctionOnSet(served, T(k) \intersect D)
            BY <2>1, <3>1
        <3>3. QED BY <3>2 DEF HowMany
    <2>2. ASSUME NEW p, Gains(p), p.id = c,
                 p.kind = "degraded" \/ (p.kind = "counted" /\ counted)
          PROVE  \/ SumFunctionOnSet(served', T(k)) = HowMany(T(k) \intersect D)
                 \/ /\ SumFunctionOnSet(served', T(k)) = HowMany(T(k) \intersect D) + 1
                    /\ k[2] = c /\ counted
        <3>1. T(k) \in SUBSET DOMAIN served'
            OBVIOUS
        <3> HIDE DEF counted
        <3>2. p \in T(k) => k[2] = c /\ counted
            BY <2>2
        <3> HIDE DEF T
        <3>3. /\ p \notin T(k) => SumFunctionOnSet(served', T(k))
                                     = HowMany(T(k) \intersect DOMAIN served)
              /\ p \in T(k) => SumFunctionOnSet(served', T(k))
                                  = HowMany(T(k) \intersect DOMAIN served) + 1
            BY <2>2, <3>1 DEF Gains
        <3>4. QED BY <3>2, <3>3
    <2> HIDE DEF T, D, counted
    <2>3. QED BY <1>2, <2>1, <2>2
<1>4. /\ D \subseteq DOMAIN served'
      /\ \A s \in DOMAIN served' \ D : s.kind = "counted" => s.id = c /\ counted
    <2>1. CASE served' = served
        BY <2>1
    <2>2. ASSUME NEW p, Gains(p), p.id = c,
                 p.kind = "degraded" \/ (p.kind = "counted" /\ counted)
          PROVE  /\ D \subseteq DOMAIN served'
                 /\ \A s \in DOMAIN served' \ D : s.kind = "counted" => s.id = c /\ counted
        <3>1. DOMAIN served' = D \union {p}
            BY <2>2 DEF Gains
        <3> HIDE DEF counted, D
        <3>2. QED BY <2>2, <3>1
    <2> HIDE DEF counted
    <2>3. QED BY <1>2, <2>1, <2>2
<1>5. ASSUME NEW k
      PROVE  HowMany(T(k) \intersect D) \in Int
    <2>1. T(k) \intersect D \in SUBSET D /\ IsFiniteSet(D) /\ \A s \in D : served[s] \in Int
        BY DEF Typed
    <2> HIDE DEF D, T
    <2>2. PICK U, f : U = T(k) \intersect D /\ f = served
        OBVIOUS
    <2>3. IsFiniteSet(U) /\ \A s \in U : f[s] \in Int
        BY <2>1, <2>2, FS_Subset
    <2>4. SumFunctionOnSet(f, U) \in Int
        BY <2>3, SumInt
    <2>5. QED BY <2>2, <2>4 DEF HowMany
<1>6. ASSUME NEW k \in DOMAIN keys
      PROVE  /\ HowMany(T(k) \intersect D) <= keys[k].count
             /\ HowMany(T(k) \intersect D) <= Limit(k[1])
             /\ keys[k].count \in Nat
    <2>1. T(k) \intersect D = CountedSince(k)
        BY <1>1, <1>4 DEF CountedSince
    <2> HIDE DEF T, D
    <2>2. QED BY <2>1 DEF Counters
<1>7. ASSUME NEW k \in DOMAIN keys' \ DOMAIN keys
      PROVE  HowMany(T(k) \intersect D) = 0
    <2>1. /\ k[2] = c /\ keys'[k].expires = now + Length(k[1])
          /\ k[1] \in Kinds /\ k = <<k[1], k[2]>>
        BY <1>1
    <2>2. keys'[k].expires - Length(k[1]) = now
        BY <2>1, Sizes DEF Length
    <2>3. ASSUME NEW s \in T(k) \intersect D
          PROVE  FALSE
        <3>1. s.kind = "counted" /\ s.id = k[2] /\ s.time >= now /\ s \in D
            BY <2>2
        <3>2. s.time \in 0 .. now
            BY <3>1 DEF Typed, Records
        <3>3. s.time = now
            BY <3>1, <3>2
        <3>4. <<k[1], s.id>> \in DOMAIN keys
            BY <2>1, <3>1, <3>3 DEF Counters
        <3>5. QED BY <2>1, <3>1, <3>4
    <2>4. T(k) \intersect D = {}
        BY <2>3
    <2> HIDE DEF T, D
    <2>5. QED BY <2>4, SumEmpty DEF HowMany
<1>8. \A kind : Limit(kind) \in Nat \ {0}
    BY Sizes DEF Limit
<1>9. counted => \A k \in DOMAIN keys : k[2] = c => keys[k].count + 1 <= Limit(k[1])
    <2>1. SUFFICES ASSUME ~ OverLimit(c), NEW k \in DOMAIN keys, k[2] = c
                   PROVE  keys[k].count + 1 <= Limit(k[1])
        OBVIOUS
    <2>2. k[1] \in Kinds /\ k = <<k[1], c>> /\ keys[k].count \in Nat
        BY <2>1 DEF Counters
    <2>3. ~ (Count(k[1], c) + 1 > Limit(k[1]))
        BY <2>1, <2>2 DEF OverLimit, Exceeded
    <2>4. Count(k[1], c) = keys[k].count
        <3>1. Count(k[1], c) = keys[<<k[1], c>>].count
            BY <2>2 DEF Count
        <3>2. QED BY <2>2, <3>1
    <2>5. QED BY <1>8, <2>2, <2>3, <2>4
<1>10. ASSUME NEW k \in DOMAIN keys'
       PROVE  /\ SumFunctionOnSet(served', T(k)) <= keys'[k].count
              /\ SumFunctionOnSet(served', T(k)) <= Limit(k[1])
    <2>1. keys'[k].count \in Nat
        BY <1>1
    <2>2. counted => keys' = Counted(c)
        OBVIOUS
    <2> HIDE DEF T, D, counted
    <2>3. CASE k \in DOMAIN keys
        <3>1. /\ HowMany(T(k) \intersect D) \in Int /\ keys[k].count \in Nat
              /\ HowMany(T(k) \intersect D) <= keys[k].count
              /\ HowMany(T(k) \intersect D) <= Limit(k[1])
              /\ Limit(k[1]) \in Nat
            BY <1>5, <1>6, <1>8, <2>3
        <3>2. keys'[k].count >= keys[k].count
            BY <1>1, <2>3
        <3>3. CASE SumFunctionOnSet(served', T(k)) = HowMany(T(k) \intersect D)
            BY <2>1, <3>1, <3>2, <3>3
        <3>4. CASE /\ SumFunctionOnSet(served', T(k)) = HowMany(T(k) \intersect D) + 1
                   /\ k[2] = c /\ counted
            <4>1. keys'[k].count = keys[k].count + 1 /\ keys[k].count + 1 <= Limit(k[1])
                BY <1>1, <1>9, <2>2, <2>3, <3>4
            <4>2. QED BY <3>1, <3>4, <4>1
        <3>5. QED BY <1>3, <3>3, <3>4
    <2>4. CASE k \notin DOMAIN keys
        <3>1. HowMany(T(k) \intersect D) = 0 /\ keys'[k].count = 1
            BY <1>1, <1>7, <2>4
        <3>2. SumFunctionOnSet(served', T(k)) \in {0, 1}
            BY <1>3, <3>1
        <3>3. QED BY <1>8, <3>1, <3>2
    <2>5. QED BY <2>3, <2>4
<1>11. ASSUME NEW s \in DOMAIN served', NEW kind \in Kinds, s.kind = "counted", s.time = now
       PROVE  <<kind, s.id>> \in DOMAIN keys'
    <2>1. CASE s \in D
        BY <1>1, <1>11, <2>1 DEF Counters
    <2>2. CASE s \notin D
        <3>1. s.id = c /\ keys' = Counted(c)
            BY <1>4, <1>11, <2>2
        <3>2. QED BY <1>1, <3>1
    <2>3. QED BY <2>1, <2>2
<1>12. \A k : HowMany(CountedSince(k))' = SumFunctionOnSet(served', T(k))
    BY DEF HowMany, CountedSince
<1> HIDE DEF T, counted
<1>13. QED BY <1>0, <1>1, <1>10, <1>11, <1>12 DEF Counters

LEMMA SettlesKeeps ==
    ASSUME LimiterInv, NEW i, NEW c \in Identities, NEW asked, Settles(i, c, asked)
    PROVE  LimiterInv'
<1>1. now \in Nat /\ Typed /\ Windows /\ Swept /\ Debts /\ Counters
    BY InvNow DEF LimiterInv
<1>2. /\ UNCHANGED <<now, minute, day, requests, nextSweep, restarts>>
      /\ turnedAway' = {} /\ waiting' = waiting \ {<<i, c, asked>>}
      /\ <<i, c, asked>> \in waiting
    BY DEF Settles
<1>3. Typed'
    <2>1. i \in Instances /\ asked \in 0 .. now
        BY <1>1, <1>2 DEF Typed
    <2>2. waiting' \in SUBSET waiting /\ IsFiniteSet(waiting')
        BY <1>1, <1>2, FS_Subset DEF Typed
    <2>3. CASE served' = served
        BY <1>1, <1>2, <2>2, <2>3 DEF Typed, Records
    <2>4. ASSUME NEW kind \in {"counted", "degraded"}, Pass(i, c, asked, kind)
          PROVE  Typed'
        <3>1. PICK p : p = Passed(i, c, asked, kind)
            OBVIOUS
        <3>2. Gains(p)
            BY <1>1, <2>4, <3>1, Gained
        <3>3. p \in Records
            BY <1>1, <2>1, <3>1 DEF Passed, Records
        <3>4. /\ DOMAIN served' = DOMAIN served \union {p}
              /\ served' \in [DOMAIN served' -> Nat] /\ IsFiniteSet(DOMAIN served')
            BY <3>2 DEF Gains
        <3>5. DOMAIN served' \subseteq Records
            BY <1>1, <3>3, <3>4 DEF Typed
        <3>6. Records' = Records
            BY <1>2 DEF Records
        <3>7. QED BY <1>1, <1>2, <2>2, <3>4, <3>5, <3>6 DEF Typed
    <2>5. QED BY <2>3, <2>4 DEF Settles
<1>4. Windows'
    BY <1>1, <1>2 DEF Windows, TableOK, WindowOK
<1>5. Swept'
    BY <1>1, <1>2 DEF Swept, LiveAt, Window
<1>6. Debts'
    BY <1>1, SettlesDebts
<1>7. Counters'
    BY <1>1, SettlesCounters
<1>8. RefusedBehindLiveClients'
    BY <1>2 DEF RefusedBehindLiveClients
<1>9. QED BY <1>3, <1>4, <1>5, <1>6, <1>7, <1>8 DEF LimiterInv

---------------------------------------------------------------------------
(* The clock and a restart.                                                *)

LEMMA SeqOfMore ==
    ASSUME NEW S, NEW T, S \subseteq T, NEW b \in Seq(S)
    PROVE  b \in Seq(T)
<1>1. Len(b) \in Nat /\ b = [n \in 1 .. Len(b) |-> b[n]] /\ \A n \in 1 .. Len(b) : b[n] \in S
    OBVIOUS
<1>2. \A n \in 1 .. Len(b) : b[n] \in T
    BY <1>1
<1>3. QED BY <1>1, <1>2

LEMMA TickDebts ==
    ASSUME LimiterInv, Tick
    PROVE  Debts'
<1>1. now \in Nat /\ Typed /\ Windows /\ Debts
    BY InvNow DEF LimiterInv
<1>2. /\ now' = now + 1 /\ UNCHANGED <<minute, day, waiting, restarts>>
      /\ served' = [s \in {r \in DOMAIN served : now + 1 - r.asked <= Day} |-> served[s]]
    BY DEF Tick
<1>3. SUFFICES ASSUME restarts = 0, NEW j \in Instances, NEW e \in Identities, NEW t \in Int
               PROVE  /\ now' - Minute <= t =>
                            Owed(j, e, t)' <= CountFrom(Window(minute[j], e), t)
                      /\ now' - Day <= t =>
                            Owed(j, e, t)' <= CountFrom(Window(day[j], e), t)
    <2>1. minute' = minute /\ day' = day /\ restarts' = restarts
        BY <1>2
    <2>2. QED BY <2>1 DEF Debts, CountFrom, Window
<1>4. ASSUME now + 1 - Day <= t
      PROVE  Owed(j, e, t)' = Owed(j, e, t)
    <2>1. Since(j, e, t)' = Since(j, e, t)
        <3>1. ASSUME NEW s \in DOMAIN served, s.asked >= t
              PROVE  now + 1 - s.asked <= Day
            <4>1. s.asked \in Nat
                BY <1>1, <3>1 DEF Typed, Records
            <4>2. QED BY <1>1, <1>4, <3>1, <4>1, Sizes
        <3>2. DOMAIN served' = {r \in DOMAIN served : now + 1 - r.asked <= Day}
            BY <1>2
        <3>3. QED BY <3>1, <3>2 DEF Since
    <2>2. Waiting(j, e, t)' = Waiting(j, e, t)
        BY <1>2 DEF Waiting
    <2>3. SumFunctionOnSet(served', Since(j, e, t)')
            = SumFunctionOnSet(served, Since(j, e, t))
        <3>1. PICK S, f, g : S = Since(j, e, t) /\ f = served /\ g = served'
            OBVIOUS
        <3>2. IsFiniteSet(S)
            BY <1>1, <3>1, OwedNat
        <3>3. Since(j, e, t) \subseteq DOMAIN served /\ Since(j, e, t)' \subseteq DOMAIN served'
            BY DEF Since
        <3>4. \A s \in Since(j, e, t) : served[s] \in Int /\ served'[s] = served[s]
            BY <1>1, <1>2, <2>1, <3>3 DEF Typed
        <3>5. \A s \in S : f[s] \in Int /\ f[s] = g[s]
            BY <3>1, <3>4
        <3>6. SumFunctionOnSet(f, S) = SumFunctionOnSet(g, S)
            BY <3>2, <3>5, SumSame
        <3>7. QED BY <2>1, <3>1, <3>6
    <2>4. QED BY <2>2, <2>3 DEF Owed, HowMany
<1>5. /\ now - Minute <= t => Owed(j, e, t) <= CountFrom(Window(minute[j], e), t)
      /\ now - Day <= t => Owed(j, e, t) <= CountFrom(Window(day[j], e), t)
    BY <1>1, <1>3 DEF Debts
<1>6. /\ now' - Minute <= t => now - Minute <= t /\ now + 1 - Day <= t
      /\ now' - Day <= t => now - Day <= t /\ now + 1 - Day <= t
    <2>1. now' = now + 1
        BY <1>2
    <2>2. QED BY <1>1, <2>1, Sizes
<1>7. QED BY <1>4, <1>5, <1>6

LEMMA TickCounters ==
    ASSUME LimiterInv, Tick
    PROVE  Counters'
<1>1. now \in Nat /\ Typed /\ Counters
    BY InvNow DEF LimiterInv
<1>2. /\ now' = now + 1
      /\ keys' = [k \in {l \in DOMAIN keys : keys[l].expires > now + 1} |-> keys[k]]
      /\ served' = [s \in {r \in DOMAIN served : now + 1 - r.asked <= Day} |-> served[s]]
    BY DEF Tick
<1>3. /\ DOMAIN keys' \subseteq DOMAIN keys
      /\ \A k \in DOMAIN keys' : keys'[k] = keys[k]
      /\ DOMAIN served' \subseteq DOMAIN served
      /\ \A s \in DOMAIN served' : served'[s] = served[s]
    BY <1>2
<1>4. ASSUME NEW k \in DOMAIN keys'
      PROVE  HowMany(CountedSince(k))' <= HowMany(CountedSince(k))
    <2>1. PICK S, T, f, g : /\ S = CountedSince(k) /\ T = CountedSince(k)'
                            /\ f = served /\ g = served'
        OBVIOUS
    <2>2. CountedSince(k)' \subseteq CountedSince(k) /\ CountedSince(k) \subseteq DOMAIN served
          /\ CountedSince(k)' \subseteq DOMAIN served'
        BY <1>3, <1>4 DEF CountedSince
    <2>3. IsFiniteSet(S)
        BY <1>1, <2>1, <2>2, FS_Subset DEF Typed
    <2>4. \A s \in S : f[s] \in Nat
        BY <1>1, <2>1, <2>2 DEF Typed
    <2>5. T \subseteq S /\ \A s \in T : f[s] = g[s]
        BY <1>3, <2>1, <2>2
    <2>6. SumFunctionOnSet(f, T) <= SumFunctionOnSet(f, S)
        BY <2>3, <2>4, <2>5, SumOfPart
    <2>7. IsFiniteSet(T) /\ \A s \in T : f[s] \in Int /\ f[s] = g[s]
        BY <2>3, <2>4, <2>5, FS_Subset
    <2>8. SumFunctionOnSet(f, T) = SumFunctionOnSet(g, T)
        BY <2>7, SumSame
    <2>9. QED BY <2>1, <2>6, <2>8 DEF HowMany
<1>5. ASSUME NEW k \in DOMAIN keys'
      PROVE  HowMany(CountedSince(k))' \in Int /\ HowMany(CountedSince(k)) \in Int
    <2>1. ASSUME NEW f, NEW D, IsFiniteSet(D), f \in [D -> Nat], NEW S \in SUBSET D
          PROVE  SumFunctionOnSet(f, S) \in Int
        <3>1. IsFiniteSet(S) /\ \A s \in S : f[s] \in Int
            BY <2>1, FS_Subset
        <3>2. QED BY <3>1, SumInt
    <2>2. /\ CountedSince(k) \in SUBSET DOMAIN served
          /\ CountedSince(k)' \in SUBSET DOMAIN served'
        BY DEF CountedSince
    <2>3. /\ IsFiniteSet(DOMAIN served) /\ served \in [DOMAIN served -> Nat]
          /\ IsFiniteSet(DOMAIN served') /\ served' \in [DOMAIN served' -> Nat]
        BY <1>1, <1>2, <1>3, FS_Subset DEF Typed
    <2>4. SumFunctionOnSet(served, CountedSince(k)) \in Int
        BY <2>1, <2>2, <2>3
    <2>5. SumFunctionOnSet(served', CountedSince(k)') \in Int
        BY <2>1, <2>2, <2>3
    <2>6. QED BY <2>4, <2>5 DEF HowMany
<1>6. ASSUME NEW k \in DOMAIN keys'
      PROVE  /\ HowMany(CountedSince(k))' <= keys'[k].count
             /\ HowMany(CountedSince(k))' <= Limit(k[1])
    <2>1. /\ HowMany(CountedSince(k)) <= keys[k].count
          /\ HowMany(CountedSince(k)) <= Limit(k[1])
          /\ keys[k].count \in Nat /\ keys'[k] = keys[k]
        BY <1>1, <1>3 DEF Counters
    <2>2. Limit(k[1]) \in Int
        BY Sizes DEF Limit
    <2>3. QED BY <1>4, <1>5, <2>1, <2>2
<1>7. \A s \in DOMAIN served' : s.time # now + 1
    <2>1. \A s \in DOMAIN served : s.time \in 0 .. now
        BY <1>1 DEF Typed, Records
    <2>2. QED BY <1>1, <1>3, <2>1
<1>8. keys' \in [DOMAIN keys' -> [count : Nat, expires : Int]]
      /\ DOMAIN keys' \subseteq Kinds \X Identities
    BY <1>1, <1>2, <1>3 DEF Counters
<1>9. QED BY <1>2, <1>6, <1>7, <1>8 DEF Counters

LEMMA TickKeeps ==
    ASSUME LimiterInv, Tick
    PROVE  LimiterInv'
<1>1. now \in Nat /\ now \in Times /\ Typed /\ Windows /\ Swept
    BY InvNow DEF LimiterInv
<1>2. /\ now < MaxTime /\ now' = now + 1 /\ turnedAway' = {}
      /\ UNCHANGED <<minute, day, requests, nextSweep, waiting, restarts>>
      /\ served' = [s \in {r \in DOMAIN served : now + 1 - r.asked <= Day} |-> served[s]]
    BY DEF Tick
<1>3. Typed'
    <2>1. now' \in Times
        BY <1>1, <1>2, Sizes DEF Times
    <2>2. waiting \subseteq Instances \X Identities \X (0 .. now')
        <3>1. 0 .. now \subseteq 0 .. now'
            BY <1>1, <1>2
        <3>2. waiting \subseteq Instances \X Identities \X (0 .. now)
            BY <1>1 DEF Typed
        <3>3. QED BY <3>1, <3>2
    <2>3. /\ DOMAIN served' \subseteq DOMAIN served
          /\ served' \in [DOMAIN served' -> Nat] /\ IsFiniteSet(DOMAIN served')
        BY <1>1, <1>2, FS_Subset DEF Typed
    <2>4. Records \subseteq Records'
        <3>1. 0 .. now \subseteq 0 .. now'
            BY <1>1, <1>2
        <3>2. QED BY <3>1 DEF Records
    <2>5. DOMAIN served' \subseteq Records'
        BY <1>1, <2>3, <2>4 DEF Typed
    <2>6. restarts \in 0 .. MaxRestarts /\ IsFiniteSet(waiting)
        BY <1>1 DEF Typed
    <2>7. QED BY <1>2, <2>1, <2>2, <2>3, <2>5, <2>6 DEF Typed
<1>4. Windows'
    <2>1. 0 .. now \subseteq 0 .. now'
        BY <1>1, <1>2
    <2>2. ASSUME NEW table, NEW limit, TableOK(table, limit), NEW c \in DOMAIN table
          PROVE  /\ table[c] \in Seq(0 .. now') /\ InOrder(table[c])
                 /\ Len(table[c]) <= limit
        <3>1. /\ table[c] \in Seq(0 .. now) /\ InOrder(table[c])
              /\ Len(table[c]) <= limit
            BY <2>2 DEF TableOK, WindowOK
        <3>2. table[c] \in Seq(0 .. now')
            BY <2>1, <3>1, SeqOfMore
        <3>3. QED BY <3>1, <3>2
    <2>3. ASSUME NEW j \in Instances
          PROVE  TableOK(minute[j], MinuteLimit)' /\ TableOK(day[j], DayLimit)'
        <3>1. TableOK(minute[j], MinuteLimit) /\ TableOK(day[j], DayLimit)
            BY <1>1 DEF Windows
        <3>2. minute'[j] = minute[j] /\ day'[j] = day[j]
            BY <1>2
        <3>3. \A c \in DOMAIN minute[j] :
                 /\ minute[j][c] \in Seq(0 .. now') /\ InOrder(minute[j][c])
                 /\ Len(minute[j][c]) <= MinuteLimit
            BY <2>2, <3>1
        <3>4. \A c \in DOMAIN day[j] :
                 /\ day[j][c] \in Seq(0 .. now') /\ InOrder(day[j][c])
                 /\ Len(day[j][c]) <= DayLimit
            BY <2>2, <3>1
        <3>5. QED BY <3>1, <3>2, <3>3, <3>4 DEF TableOK, WindowOK
    <2>4. QED BY <1>1, <1>2, <2>3 DEF Windows
<1>5. Swept'
    <2>1. \A i \in Instances : nextSweep[i] <= now' + Sweep
        BY <1>1, <1>2, Sizes DEF Swept
    <2>2. QED BY <1>1, <1>2, <2>1 DEF Swept, LiveAt, Window
<1>6. Debts' /\ Counters'
    BY TickDebts, TickCounters
<1>7. RefusedBehindLiveClients'
    BY <1>2 DEF RefusedBehindLiveClients
<1>8. QED BY <1>3, <1>4, <1>5, <1>6, <1>7 DEF LimiterInv

LEMMA Empty ==
    /\ DOMAIN NoWindows = {} /\ IsFiniteSet({}) /\ Cardinality({}) = 0
    /\ \A c : Window(NoWindows, c) = <<>>
BY FS_EmptySet DEF NoWindows, Window

LEMMA RestartKeeps ==
    ASSUME LimiterInv, NEW i \in Instances, Restart(i)
    PROVE  LimiterInv'
<1>1. now \in Nat /\ Typed /\ Windows /\ Swept /\ Counters
    BY InvNow DEF LimiterInv
<1>2. /\ restarts < MaxRestarts /\ restarts' = restarts + 1
      /\ minute' = [minute EXCEPT ![i] = NoWindows]
      /\ day' = [day EXCEPT ![i] = NoWindows]
      /\ requests' = [requests EXCEPT ![i] = 0]
      /\ nextSweep' = [nextSweep EXCEPT ![i] = 0]
      /\ waiting' = {w \in waiting : w[1] # i} /\ turnedAway' = {}
      /\ UNCHANGED <<now, keys, served>>
    BY DEF Restart
<1>3. restarts \in 0 .. MaxRestarts /\ restarts' \in 1 .. MaxRestarts
    BY <1>1, <1>2, Sizes DEF Typed
<1>4. Typed'
    <2>1. waiting' \subseteq waiting /\ IsFiniteSet(waiting')
        BY <1>1, <1>2, FS_Subset DEF Typed
    <2>2. restarts' \in 0 .. MaxRestarts
        BY <1>3
    <2>3. QED BY <1>1, <1>2, <2>1, <2>2 DEF Typed, Records
<1>5. Windows'
    <2>1. TableOK(NoWindows, MinuteLimit) /\ TableOK(NoWindows, DayLimit)
        BY Empty DEF TableOK
    <2>2. Sound(NoWindows, NoWindows)
        BY <2>1, Empty, Sizes DEF Sound
    <2>3. QED BY <1>1, <1>2, <2>2, HandleTables
<1>6. Swept'
    <2>1. /\ requests' \in [Instances -> 0 .. PruneEvery - 1]
          /\ nextSweep' \in [Instances -> Nat]
        BY <1>1, <1>2, Sizes DEF Swept
    <2>2. ASSUME NEW j \in Instances
          PROVE  /\ nextSweep'[j] <= now + Sweep
                 /\ \A c \in DOMAIN minute'[j] : LiveAt(j, c, nextSweep[j] - Sweep)'
        <3>1. CASE j = i
            <4>1. minute'[j] = NoWindows /\ nextSweep'[j] = 0
                BY <1>1, <1>2, <3>1 DEF Windows, Swept
            <4>2. QED BY <1>1, <4>1, Empty, Sizes
        <3>2. CASE j # i
            <4>1. minute'[j] = minute[j] /\ day'[j] = day[j] /\ nextSweep'[j] = nextSweep[j]
                BY <1>1, <1>2, <3>2 DEF Windows, Swept
            <4>2. QED BY <1>1, <4>1 DEF Swept, LiveAt, Window
        <3>3. QED BY <3>1, <3>2
    <2>3. QED BY <1>2, <2>1, <2>2 DEF Swept
<1>7. Debts'
    BY <1>3 DEF Debts
<1>8. Counters'
    BY <1>1, <1>2, CountersAlone
<1>9. RefusedBehindLiveClients'
    BY <1>2 DEF RefusedBehindLiveClients
<1>10. QED BY <1>4, <1>5, <1>6, <1>7, <1>8, <1>9 DEF LimiterInv

LEMMA InitLimiterInv == Init => LimiterInv
<1> SUFFICES ASSUME Init PROVE LimiterInv
    OBVIOUS
<1> USE DEF Init
<1>1. DOMAIN served = {} /\ DOMAIN keys = {} /\ IsFiniteSet({}) /\ Cardinality({}) = 0
    BY FS_EmptySet
<1>2. Typed
    BY <1>1, Sizes DEF Typed, Times
<1>3. Windows
    <2>1. TableOK(NoWindows, MinuteLimit) /\ TableOK(NoWindows, DayLimit)
        BY Empty DEF TableOK
    <2>2. QED BY <2>1, Empty, Sizes DEF Windows
<1>4. Swept
    <2>1. 0 \in 0 .. PruneEvery - 1 /\ 0 <= 0 + Sweep
        BY Sizes
    <2>2. QED BY <2>1, Empty DEF Swept
<1>5. Debts
    <2> SUFFICES ASSUME NEW i \in Instances, NEW c \in Identities, NEW t \in Int
                 PROVE  /\ Owed(i, c, t) <= CountFrom(Window(minute[i], c), t)
                        /\ Owed(i, c, t) <= CountFrom(Window(day[i], c), t)
        BY DEF Debts
    <2>1. Since(i, c, t) = {} /\ Waiting(i, c, t) = {}
        BY <1>1 DEF Since, Waiting
    <2>2. HowMany({}) = 0
        BY SumEmpty DEF HowMany
    <2>3. Owed(i, c, t) = 0
        BY <1>1, <2>1, <2>2 DEF Owed
    <2>4. Window(minute[i], c) = <<>> /\ Window(day[i], c) = <<>>
        BY Empty
    <2>5. <<>> \in Seq(0 .. now)
        OBVIOUS
    <2>6. CountFrom(<<>>, t) \in Nat
        BY <2>5, CountNat
    <2>7. QED BY <2>3, <2>4, <2>6
<1>6. Counters
    BY <1>1 DEF Counters
<1>7. RefusedBehindLiveClients
    BY DEF RefusedBehindLiveClients
<1>8. QED BY <1>2, <1>3, <1>4, <1>5, <1>6, <1>7 DEF LimiterInv

LEMMA StutterKeeps == LimiterInv /\ UNCHANGED vars => LimiterInv'
<1> SUFFICES ASSUME LimiterInv, UNCHANGED vars PROVE LimiterInv'
    OBVIOUS
<1>1. UNCHANGED <<now, minute, day, requests, nextSweep, keys, waiting, turnedAway,
                  restarts, served>>
    BY DEF vars
<1>2. Typed' /\ Windows'
    BY <1>1 DEF LimiterInv, Typed, Windows, TableOK, WindowOK, Records
<1>3. Swept' /\ RefusedBehindLiveClients'
    BY <1>1 DEF LimiterInv, Swept, RefusedBehindLiveClients, LiveAt, Window
<1>4. Debts'
    BY <1>1 DEF LimiterInv, Debts, Owed, HowMany, Since, Waiting, CountFrom, Window
<1>5. Counters'
    BY <1>1, CountersAlone DEF LimiterInv
<1>6. QED BY <1>2, <1>3, <1>4, <1>5 DEF LimiterInv

LEMMA NextLimiterInv == LimiterInv /\ [Next]_vars => LimiterInv'
<1> SUFFICES ASSUME LimiterInv, [Next]_vars PROVE LimiterInv'
    OBVIOUS
<1>1. CASE Tick
    BY <1>1, TickKeeps
<1>2. ASSUME NEW i \in Instances, Restart(i) PROVE LimiterInv'
    BY <1>2, RestartKeeps
<1>3. ASSUME NEW i \in Instances, NEW ip \in Ips, Handle(i, ip) PROVE LimiterInv'
    BY <1>3, HandleKeeps
<1>4. ASSUME NEW i \in Instances, NEW c \in Identities, NEW asked \in Times,
             RedisAnswers(i, c, asked) \/ RedisFails(i, c, asked)
      PROVE  LimiterInv'
    BY <1>4, RedisSettles, SettlesKeeps
<1>5. CASE UNCHANGED vars
    BY <1>5, StutterKeeps
<1>6. QED BY <1>1, <1>2, <1>3, <1>4, <1>5 DEF Next

---------------------------------------------------------------------------
(* What the invariant gives.                                               *)

LEMMA InvTypeOK == LimiterInv => TypeOK
<1> SUFFICES ASSUME LimiterInv PROVE TypeOK
    OBVIOUS
<1>1. now \in Nat /\ now \in Times /\ Typed /\ Windows /\ Swept /\ Counters
    BY InvNow DEF LimiterInv
<1>2. 0 .. now \subseteq Times
    BY <1>1, Sizes DEF Times
<1>3. ASSUME NEW table, NEW limit, TableOK(table, limit), NEW c \in DOMAIN table
      PROVE  table[c] \in Seq(Times) /\ InOrder(table[c])
    <2>1. table[c] \in Seq(0 .. now) /\ InOrder(table[c])
        BY <1>3 DEF TableOK, WindowOK
    <2>2. QED BY <1>2, <2>1, SeqOfMore
<1>4. ASSUME NEW i \in Instances
      PROVE  /\ DOMAIN day[i] \subseteq DOMAIN minute[i]
             /\ DOMAIN minute[i] \subseteq Identities
             /\ Cardinality(DOMAIN minute[i]) <= Cap
             /\ \A c \in DOMAIN minute[i] :
                   minute[i][c] \in Seq(Times) /\ InOrder(minute[i][c])
             /\ \A c \in DOMAIN day[i] :
                   day[i][c] \in Seq(Times) /\ InOrder(day[i][c])
             /\ requests[i] \in 0 .. PruneEvery - 1
             /\ nextSweep[i] \in 0 .. MaxTime + Sweep
    <2>1. TableOK(minute[i], MinuteLimit) /\ TableOK(day[i], DayLimit)
        BY <1>1 DEF Windows
    <2>2. nextSweep[i] \in Nat /\ nextSweep[i] <= now + Sweep
        BY <1>1 DEF Swept
    <2>3. nextSweep[i] \in 0 .. MaxTime + Sweep
        BY <1>1, <2>2, Sizes DEF Times
    <2>4. DOMAIN minute[i] \subseteq Identities
        BY <2>1 DEF TableOK
    <2>5. QED BY <1>1, <1>3, <2>1, <2>3, <2>4 DEF Windows, Swept
<1>5. waiting \subseteq Instances \X Identities \X Times
    BY <1>1, <1>2 DEF Typed
<1>6. QED BY <1>1, <1>4, <1>5 DEF TypeOK, Typed, Counters

LEMMA InvDebtIsKept == LimiterInv => DebtIsKept
<1> SUFFICES ASSUME LimiterInv, restarts = 0, NEW i \in Instances, NEW c \in Identities,
                    NEW kind \in Kinds
             PROVE  LetThrough(i, c, kind) <= Limit(kind)
    BY DEF DebtIsKept
<1>1. now \in Nat /\ Typed /\ Windows /\ Debts
    BY InvNow DEF LimiterInv
<1>2. PICK t \in Int : t = now - Length(kind)
    BY <1>1, Sizes DEF Length
<1>3. LetThrough(i, c, kind) = HowMany(Since(i, c, t))
    <2>1. \A s \in DOMAIN served : now - s.asked <= Length(kind) <=> s.asked >= t
        <3>1. \A s \in DOMAIN served : s.asked \in Nat
            BY <1>1 DEF Typed, Records
        <3>2. Length(kind) \in Nat
            BY Sizes DEF Length
        <3>3. QED BY <1>1, <1>2, <3>1, <3>2
    <2>2. {s \in DOMAIN served : s.at = i /\ s.id = c /\ now - s.asked <= Length(kind)}
             = Since(i, c, t)
        BY <2>1 DEF Since
    <2>3. QED BY <2>2 DEF LetThrough
<1>4. PICK bucket : bucket = IF kind = "minute" THEN Window(minute[i], c)
                                               ELSE Window(day[i], c)
    OBVIOUS
<1>5. Owed(i, c, t) <= CountFrom(bucket, t)
    <2>1. /\ now - Minute <= t => Owed(i, c, t) <= CountFrom(Window(minute[i], c), t)
          /\ now - Day <= t => Owed(i, c, t) <= CountFrom(Window(day[i], c), t)
        BY <1>1 DEF Debts
    <2>2. CASE kind = "minute"
        BY <1>1, <1>2, <1>4, <2>1, <2>2, Sizes DEF Length
    <2>3. CASE kind # "minute"
        BY <1>1, <1>2, <1>4, <2>1, <2>3, Sizes DEF Length
    <2>4. QED BY <2>2, <2>3
<1>6. bucket \in Seq(0 .. now) /\ Len(bucket) <= Limit(kind) /\ Limit(kind) \in Nat
    <2>1. ASSUME NEW table, NEW limit \in Nat, TableOK(table, limit)
          PROVE  Window(table, c) \in Seq(0 .. now) /\ Len(Window(table, c)) <= limit
        <3>1. <<>> \in Seq(0 .. now) /\ Len(<<>>) = 0
            OBVIOUS
        <3>2. CASE c \in DOMAIN table
            BY <2>1, <3>2 DEF TableOK, WindowOK, Window
        <3>3. CASE c \notin DOMAIN table
            <4>1. Window(table, c) = <<>>
                BY <3>3 DEF Window
            <4>2. QED BY <2>1, <3>1, <4>1
        <3>4. QED BY <3>2, <3>3
    <2>2. /\ TableOK(minute[i], MinuteLimit) /\ MinuteLimit \in Nat
          /\ TableOK(day[i], DayLimit) /\ DayLimit \in Nat
        BY <1>1, Sizes DEF Windows
    <2>3. /\ Window(minute[i], c) \in Seq(0 .. now)
          /\ Len(Window(minute[i], c)) <= MinuteLimit
          /\ Window(day[i], c) \in Seq(0 .. now) /\ Len(Window(day[i], c)) <= DayLimit
        BY <2>1, <2>2
    <2>4. QED BY <1>4, <2>2, <2>3 DEF Limit
<1>7. CountFrom(bucket, t) \in Nat /\ CountFrom(bucket, t) <= Len(bucket)
    BY <1>6, CountNat
<1>8. /\ HowMany(Since(i, c, t)) \in Int /\ Cardinality(Waiting(i, c, t)) \in Nat
      /\ Owed(i, c, t) = HowMany(Since(i, c, t)) + Cardinality(Waiting(i, c, t))
    BY <1>1, OwedNat DEF Owed
<1>9. Len(bucket) \in Nat
    BY <1>6
<1>10. QED BY <1>3, <1>5, <1>6, <1>7, <1>8, <1>9

LEMMA InvSharedLimitHolds == LimiterInv => SharedLimitHolds
<1> SUFFICES ASSUME LimiterInv, NEW k \in DOMAIN keys
             PROVE  HowMany(CountedSince(k)) <= Limit(k[1])
    BY DEF SharedLimitHolds, CountedSince
<1>1. QED BY DEF LimiterInv, Counters

---------------------------------------------------------------------------
(* The invariant holds in every behaviour.                                 *)
THEOREM LimiterInvariance == Spec => []LimiterInv
<1>1. QED BY InitLimiterInv, NextLimiterInv, PTL DEF Spec

(* The tables stay within the cap that admission checks, hold windows in   *)
(* the order of time, and the day table knows no client that the minute    *)
(* table does not.                                                         *)
THEOREM LimiterTypeCorrect == Spec => []TypeOK
<1>1. QED BY LimiterInvariance, InvTypeOK, PTL

(* No sweep, full table or lost Redis forgives a debt: an instance that    *)
(* has not restarted lets through, of what it was asked in any minute or   *)
(* day, no more than the limit (_rate_limit and _prune_rate_limit_state).  *)
THEOREM DebtsAreKept == Spec => []DebtIsKept
<1>1. QED BY LimiterInvariance, InvDebtIsKept, PTL

(* What enforce_redis_limits counts under a live counter and lets through  *)
(* is no more than the limit, whatever restarted.                          *)
THEOREM SharedLimitIsKept == Spec => []SharedLimitHolds
<1>1. QED BY LimiterInvariance, InvSharedLimitHolds, PTL

(* A full table turns a client away only behind clients each of which had  *)
(* a live window less than a sweep interval ago.                           *)
THEOREM RefusalsAreJustified == Spec => []RefusedBehindLiveClients
<1>1. LimiterInv => RefusedBehindLiveClients
    BY DEF LimiterInv
<1>2. QED BY LimiterInvariance, <1>1, PTL
=============================================================================
