-------------------------- MODULE WebConversationProofs --------------------------
(******************************************************************************)
(* Theorems about WebConversation, for every number of turns, releases,       *)
(* activations, faults and new chats.                                         *)
(******************************************************************************)
EXTENDS WebConversation, Sums, SequenceTheorems

--------------------------------------------------------------------------------
(* The inductive invariant.  The first parts are about a list of messages, for *)
(* a boundary and a submission may both rewrite it within one step.           *)

\* What the kinds of replies bring.
Shaped(reply) ==
  /\ reply.kind = "committed" => reply.token \in TurnIds /\ reply.revision \in 1..MaxTurns
  /\ reply.kind = "revision_conflict" => reply.revision \in 0..MaxTurns

AnswersShaped(ms) ==
  \A i \in DOMAIN ms : ms[i].kind = "answer" => Shaped(ms[i].reply)

\* A turn has one answer, however often it was repeated.
OneAnswerPerTurn(ms) ==
  \A i, j \in DOMAIN ms :
    ms[i].kind = "answer" /\ ms[j].kind = "answer" /\ ms[i].turn = ms[j].turn => i = j

\* The questions bear ids that were drawn; the one that bears the id of the turn
\* to repeat is that turn's question.
QuestionsDrawn(ms, n) ==
  \A i \in DOMAIN ms : ms[i].kind = "question" => ms[i].turn <= n
Repeats(ms, turn) ==
  \A i \in DOMAIN ms :
    ms[i].kind = "question" /\ turn # None /\ turn.turn = ms[i].turn
      => turn.question = ms[i].question

MessagesInv ==
  /\ AnswersShaped(chat.messages) /\ OneAnswerPerTurn(chat.messages)
  /\ QuestionsDrawn(chat.messages, drawn) /\ Repeats(chat.messages, chat.retry)

\* Ids in use were drawn.
IdsDrawn ==
  /\ chat.retry # None => chat.retry.turn <= drawn
  /\ \A r \in wire : r.turn.turn <= drawn
  /\ \A x \in replies : x.request.turn.turn <= drawn
  /\ \A s \in TurnIds : \A i \in 1..Revision(s) : sessions[s][i].turn <= drawn

\* The page waits for one reply at most: a request on the wire or a reply whose
\* handler has not run, to the turn it would repeat.
OneReplyDue ==
  /\ IsFiniteSet(wire) /\ IsFiniteSet(replies)
  /\ \A r \in Awaiting :
       r.generation = chat.generation /\ chat.pending /\ r.turn = chat.retry
  /\ \A x \in replies :
       Awaited(x) => chat.pending /\ x.request.turn = chat.retry /\ Awaiting = {}
  /\ \A r, q \in Awaiting : r = q
  /\ \A x, y \in replies : Awaited(x) /\ Awaited(y) => x = y

\* Nothing is said before the archive is known.
ArchiveKnown ==
  chat.version = None =>
    chat.messages = <<>> /\ query # "success" /\ ~ chat.pending /\ ~ chat.expiring

\* The turn to repeat belongs to the session of the chat.
RetryInSession == chat.retry # None => chat.retry.token = chat.token

\* A session has no turn twice.
TurnsOnce ==
  \A s \in TurnIds : \A i, j \in 1..Revision(s) :
    sessions[s][i].turn = sessions[s][j].turn => i = j

\* A committed reply is that of its turn, while the session was not lost.
RepliesCommitted ==
  \A x \in replies :
    /\ Shaped(x.reply)
    /\ x.reply.kind = "committed" =>
         /\ x.reply.token = SessionOf(x.request.turn)
         /\ x.reply.token \notin lost =>
              /\ x.reply.revision \in 1..Revision(x.reply.token)
              /\ sessions[x.reply.token][x.reply.revision].turn = x.request.turn.turn

\* The revisions the active conversation shows.
ShownRevisions ==
  { chat.messages[i].reply.revision :
      i \in { i \in ActiveAnswers : chat.messages[i].reply.kind = "committed" } }

\* Where the session has the turn to repeat, it is past what is shown; and a
\* revision the page is about to be told is not behind it.
NothingShownAhead ==
  chat.token \in TurnIds \ lost =>
    /\ \A k \in 1..Revision(chat.token) :
         chat.retry # None /\ sessions[chat.token][k].turn = chat.retry.turn
           => \A n \in ShownRevisions : n < k
    /\ \A x \in replies :
         Awaited(x) /\ x.reply.kind = "revision_conflict"
           => \A n \in ShownRevisions : n <= x.reply.revision

WInv ==
  /\ TypeOK /\ MessagesInv /\ IdsDrawn /\ OneReplyDue /\ ArchiveKnown
  /\ RetryInSession /\ TurnsOnce /\ RepliesCommitted /\ NothingShownAhead
  /\ ActiveAnswersWereAskedHere /\ OneArchivePerConversation
  /\ TranscriptIsTheSession /\ UnansweredIsRetryable

--------------------------------------------------------------------------------
(* What a filter keeps.                                                       *)

\* kept is the table of the filter up to n.
Tabled(kept, q, S, n) ==
  /\ DOMAIN kept = 0..n /\ kept[0] = <<>>
  /\ \A i \in 1..n : kept[i] = IF q[i] \in S THEN Append(kept[i - 1], q[i]) ELSE kept[i - 1]

\* The filter's recursive function is what its equation says.
LEMMA KeptTable ==
  ASSUME NEW q, Len(q) \in Nat, NEW S
  PROVE  \E kept : Tabled(kept, q, S, Len(q)) /\ Kept(q, S) = kept[Len(q)]
<1> DEFINE n == Len(q)
           F(kept) == [i \in 0..n |->
                         IF i = 0 THEN <<>>
                         ELSE IF q[i] \in S THEN Append(kept[i - 1], q[i])
                         ELSE kept[i - 1]]
           Good == {m \in 0..n : \E kept : Tabled(kept, q, S, m)}
<1>1. n \in Good
  <2>1. 0 \in Good
    <3>1. Tabled([i \in 0..0 |-> <<>>], q, S, 0)
      BY DEF Tabled
    <3> QED BY <3>1
  <2>2. ASSUME NEW m \in 0..(n - 1), m \in Good PROVE m + 1 \in Good
    <3>1. PICK kept : Tabled(kept, q, S, m)
      BY <2>2
    <3> DEFINE more == [i \in 0..(m + 1) |->
                          IF i \in 0..m THEN kept[i]
                          ELSE IF q[i] \in S THEN Append(kept[m], q[i]) ELSE kept[m]]
    <3>2. more[0] = <<>> /\ DOMAIN more = 0..(m + 1)
      BY <3>1 DEF Tabled
    <3>3. ASSUME NEW i \in 1..(m + 1)
          PROVE  more[i] = IF q[i] \in S THEN Append(more[i - 1], q[i]) ELSE more[i - 1]
      <4>1. i - 1 \in 0..m /\ more[i - 1] = kept[i - 1]
        OBVIOUS
      <4>2. CASE i \in 1..m
        BY <4>1, <4>2, <3>1 DEF Tabled
      <4>3. CASE i = m + 1
        BY <4>1, <4>3
      <4> QED BY <4>2, <4>3
    <3>4. Tabled(more, q, S, m + 1)
      <4> HIDE DEF more
      <4> QED BY <3>2, <3>3 DEF Tabled
    <3> QED BY <3>4
  <2> HIDE DEF Good
  <2> QED BY <2>1, <2>2, CountingUp
<1>2. PICK kept : Tabled(kept, q, S, n)
  BY <1>1
<1>3. F([i \in 0..n |-> kept[i]]) = [i \in 0..n |-> kept[i]]
  <2>1. ASSUME NEW i \in 0..n
        PROVE  (IF i = 0 THEN <<>> ELSE IF q[i] \in S THEN Append(kept[i - 1], q[i])
                ELSE kept[i - 1]) = kept[i]
    <3>1. CASE i = 0
      BY <1>2, <3>1 DEF Tabled
    <3>2. CASE i # 0
      <4>1. i \in 1..n
        BY <3>2
      <4> QED BY <1>2, <3>2, <4>1 DEF Tabled
    <3> QED BY <3>1, <3>2
  <2>2. \A i \in 1..n : i - 1 \in 0..n
    OBVIOUS
  <2> QED BY <2>1, <2>2
<1> DEFINE table == CHOOSE f : f = F(f)
<1>4. table = F(table)
  BY <1>3
<1>5. Kept(q, S) = table[n]
  BY DEF Kept
<1>6. Tabled(table, q, S, n)
  <2> HIDE DEF table
  <2>1. table[0] = <<>> /\ DOMAIN table = 0..n
    BY <1>4
  <2>2. ASSUME NEW i \in 1..n
        PROVE  table[i] = IF q[i] \in S THEN Append(table[i - 1], q[i]) ELSE table[i - 1]
    <3>1. i \in 0..n /\ i # 0
      OBVIOUS
    <3>2. F(table)[i] = IF q[i] \in S THEN Append(table[i - 1], q[i]) ELSE table[i - 1]
      BY <3>1
    <3> HIDE DEF F
    <3> QED BY <1>4, <3>2
  <2> QED BY <2>1, <2>2 DEF Tabled
<1> QED BY <1>5, <1>6

\* f places the members of p in q: all that are in S, in their order.
Placed(f, p, q, n, S) ==
  /\ f \in [1..Len(p) -> 1..n]
  /\ \A i, j \in 1..Len(p) : i < j => f[i] < f[j]
  /\ \A i \in 1..Len(p) : p[i] = q[f[i]] /\ p[i] \in S
  /\ \A j \in 1..n : q[j] \in S => \E i \in 1..Len(p) : f[i] = j

LEMMA PlacedOneMore ==
  ASSUME NEW M, NEW p \in Seq(M), NEW q, NEW m \in Nat, NEW S, NEW f,
         Placed(f, p, q, m, S), q[m + 1] \in M, q[m + 1] \in S
  PROVE  \E g : Placed(g, Append(p, q[m + 1]), q, m + 1, S)
<1> PICK k \in Nat : k = Len(p)
  OBVIOUS
<1> DEFINE r == Append(p, q[m + 1])
           g == [i \in 1..(k + 1) |-> IF i = k + 1 THEN m + 1 ELSE f[i]]
<1>1. Len(r) = k + 1 /\ r[k + 1] = q[m + 1] /\ \A i \in 1..k : r[i] = p[i]
  OBVIOUS
<1>2. \A i \in 1..k : g[i] = f[i] /\ f[i] \in 1..m
  BY DEF Placed
<1>3. g[k + 1] = m + 1 /\ DOMAIN g = 1..(k + 1)
  OBVIOUS
<1>4. g \in [1..(k + 1) -> 1..(m + 1)]
  <2>1. ASSUME NEW i \in 1..(k + 1) PROVE g[i] \in 1..(m + 1)
    <3>1. CASE i = k + 1
      BY <1>3, <3>1
    <3>2. CASE i # k + 1
      <4>1. i \in 1..k
        BY <3>2
      <4>2. g[i] \in 1..m
        BY <4>1, <1>2, Zenon
      <4> HIDE DEF g
      <4> QED BY <4>2
    <3> QED BY <3>1, <3>2
  <2> QED BY <2>1
<1> HIDE DEF g, r
<1>5. ASSUME NEW i \in 1..(k + 1), NEW j \in 1..(k + 1), i < j PROVE g[i] < g[j]
  <2>1. i \in 1..k /\ g[i] = f[i] /\ f[i] \in 1..m
    BY <1>2, <1>5
  <2>2. CASE j = k + 1
    BY <2>1, <2>2, <1>3
  <2>3. CASE j # k + 1
    <3>1. j \in 1..k
      BY <2>3
    <3> QED BY <2>1, <3>1, <1>2, <1>5 DEF Placed
  <2> QED BY <2>2, <2>3
<1>6. ASSUME NEW i \in 1..(k + 1) PROVE r[i] = q[g[i]] /\ r[i] \in S
  <2>1. CASE i = k + 1
    BY <2>1, <1>1, <1>3
  <2>2. CASE i # k + 1
    <3>1. i \in 1..k
      BY <2>2
    <3> QED BY <3>1, <1>1, <1>2 DEF Placed
  <2> QED BY <2>1, <2>2
<1>7. ASSUME NEW j \in 1..(m + 1), q[j] \in S PROVE \E i \in 1..(k + 1) : g[i] = j
  <2>1. CASE j = m + 1
    BY <2>1, <1>3
  <2>2. CASE j # m + 1
    <3>1. j \in 1..m
      BY <2>2
    <3>2. PICK i \in 1..k : f[i] = j
      BY <3>1, <1>7 DEF Placed
    <3> QED BY <3>2, <1>2
  <2> QED BY <2>1, <2>2
<1>8. Placed(g, r, q, m + 1, S)
  BY <1>1, <1>4, <1>5, <1>6, <1>7 DEF Placed
<1> QED BY <1>8 DEF r

\* A filter keeps the members of S, in order.
LEMMA KeptPlaced ==
  ASSUME NEW M, NEW q \in Seq(M), NEW S
  PROVE  Kept(q, S) \in Seq(M) /\ \E f : Placed(f, Kept(q, S), q, Len(q), S)
<1> DEFINE n == Len(q)
<1>1. n \in Nat /\ DOMAIN q = 1..n /\ \A i \in 1..n : q[i] \in M
  OBVIOUS
<1>2. PICK kept : Tabled(kept, q, S, n) /\ Kept(q, S) = kept[n]
  BY <1>1, KeptTable
<1> DEFINE Good == {m \in 0..n : kept[m] \in Seq(M) /\ \E f : Placed(f, kept[m], q, m, S)}
<1>3. 0 \in Good
  <2>1. kept[0] = <<>>
    BY <1>2 DEF Tabled
  <2>2. Placed([i \in 1..0 |-> 0], <<>>, q, 0, S)
    BY DEF Placed
  <2>3. kept[0] \in Seq(M) /\ \E f : Placed(f, kept[0], q, 0, S)
    BY <2>1, <2>2
  <2> QED BY <1>1, <2>3
<1>4. ASSUME NEW m \in 0..(n - 1), m \in Good PROVE m + 1 \in Good
  <2> DEFINE p == kept[m]
             r == kept[m + 1]
             k == Len(p)
  <2>1. PICK f : Placed(f, p, q, m, S)
    BY <1>4
  <2>2. p \in Seq(M) /\ k \in Nat /\ DOMAIN p = 1..k
    BY <1>4
  <2>3. r = IF q[m + 1] \in S THEN Append(p, q[m + 1]) ELSE p
    <3>1. m + 1 \in 1..n /\ (m + 1) - 1 = m
      OBVIOUS
    <3> QED BY <1>2, <3>1 DEF Tabled
  <2>4. q[m + 1] \in M
    BY <1>1
  <2>5. CASE q[m + 1] \notin S
    <3>1. r = p
      BY <2>3, <2>5
    <3>2. Placed(f, p, q, m + 1, S)
      BY <2>1, <2>2, <2>5 DEF Placed
    <3> QED BY <2>2, <3>1, <3>2
  <2>6. CASE q[m + 1] \in S
    <3>1. r = Append(p, q[m + 1])
      BY <2>3, <2>6
    <3>2. \E g : Placed(g, Append(p, q[m + 1]), q, m + 1, S)
      <4> HIDE DEF p, Good, n
      <4> QED BY <2>1, <2>2, <2>4, <2>6, PlacedOneMore
    <3>3. r \in Seq(M)
      BY <2>2, <2>4, <3>1
    <3>4. m + 1 \in 0..n
      OBVIOUS
    <3> QED BY <3>1, <3>2, <3>3, <3>4, Zenon
  <2> QED BY <2>5, <2>6
<1>5. n \in Good
  <2> HIDE DEF Good
  <2> QED BY <1>1, <1>3, <1>4, CountingUp
<1> QED BY <1>2, <1>5

\* What is kept does not move towards the end.
LEMMA PlacedAhead ==
  ASSUME NEW f, NEW p, NEW q, NEW n \in Nat, NEW S, Len(p) \in Nat, Placed(f, p, q, n, S)
  PROVE  Len(p) <= n /\ \A i \in 1..Len(p) : f[i] >= i
<1> DEFINE k == Len(p)
           Good == {m \in 0..k : \A i \in 1..m : f[i] >= i}
<1>1. 0 \in Good
  OBVIOUS
<1>2. ASSUME NEW m \in 0..(k - 1), m \in Good PROVE m + 1 \in Good
  <2>1. m + 1 \in 1..k /\ f[m + 1] \in 1..n
    BY DEF Placed
  <2>2. CASE m = 0
    BY <2>1, <2>2
  <2>3. CASE m # 0
    <3>1. m \in 1..k /\ f[m] >= m /\ f[m] \in 1..n /\ f[m] < f[m + 1]
      BY <1>2, <2>1, <2>3 DEF Placed
    <3>2. f[m + 1] >= m + 1
      BY <2>1, <3>1
    <3> QED BY <1>2, <3>2
  <2> QED BY <2>2, <2>3
<1>3. k \in Good
  <2> HIDE DEF Good
  <2> QED BY <1>1, <1>2, CountingUp
<1>4. k = 0 \/ (k \in 1..k /\ f[k] >= k /\ f[k] \in 1..n)
  BY <1>3 DEF Placed
<1> QED BY <1>3, <1>4

\* A filter that drops at most one member shortens a list by one at most.
LEMMA PlacedLength ==
  ASSUME NEW f, NEW p, NEW q, NEW n \in Nat, NEW S, Len(p) \in Nat, Placed(f, p, q, n, S),
         \A i, j \in 1..n : q[i] \notin S /\ q[j] \notin S => i = j
  PROVE  n <= Len(p) + 1
<1> DEFINE k == Len(p)
           Image == {f[i] : i \in 1..k}
           Dropped == {j \in 1..n : q[j] \notin S}
<1>1. IsFiniteSet(1..k) /\ Cardinality(1..k) = k /\ IsFiniteSet(1..n) /\ Cardinality(1..n) = n
  <2>1. ASSUME NEW m \in Nat PROVE IsFiniteSet(1..m) /\ Cardinality(1..m) = m
    <3>1. 1 \in Int /\ m \in Int /\ (IF 1 > m THEN 0 ELSE m - 1 + 1) = m
      OBVIOUS
    <3>2. IsFiniteSet(1..m) /\ Cardinality(1..m) = IF 1 > m THEN 0 ELSE m - 1 + 1
      BY <3>1, FS_Interval, Zenon
    <3> QED BY <3>1, <3>2
  <2> QED BY <2>1
<1>2. IsFiniteSet(Image) /\ Cardinality(Image) <= k /\ Cardinality(Image) \in Nat
  <2>1. [i \in 1..k |-> f[i]] \in Surjection(1..k, Image)
    BY DEF Surjection
  <2>2. IsFiniteSet(Image) /\ Cardinality(Image) <= Cardinality(1..k)
    BY <1>1, <2>1, FS_Surjection
  <2> QED BY <2>2, <1>1, FS_CardinalityType
<1>3. (1..n) \ Dropped \subseteq Image
  BY DEF Placed
<1>4. CASE Dropped = {}
  <2>1. 1..n \subseteq Image
    BY <1>3, <1>4
  <2>2. Cardinality(1..n) <= Cardinality(Image)
    BY <2>1, <1>2, FS_Subset
  <2> QED BY <2>2, <1>1, <1>2
<1>5. ASSUME NEW d \in Dropped PROVE n <= k + 1
  <2>1. (1..n) \ {d} \subseteq Image /\ d \in 1..n
    BY <1>3
  <2>2. Cardinality((1..n) \ {d}) = n - 1
    BY <1>1, <2>1, FS_RemoveElement
  <2>3. Cardinality((1..n) \ {d}) <= Cardinality(Image)
    BY <2>1, <1>2, FS_Subset
  <2> QED BY <2>2, <2>3, <1>2
<1> QED BY <1>4, <1>5

--------------------------------------------------------------------------------
(* What a boundary and an answer make of the messages.                        *)

\* A question after which nothing but boundaries comes.
Unanswered(ms, i) ==
  /\ ms[i].kind = "question"
  /\ \A j \in (i + 1)..Len(ms) : ms[j].kind = "boundary"

\* What a list of messages says of its members, whatever their places.
Tidy(ms, n, turn) ==
  /\ AnswersShaped(ms) /\ OneAnswerPerTurn(ms)
  /\ QuestionsDrawn(ms, n) /\ Repeats(ms, turn)

LEMMA MessageKinds ==
  ASSUME NEW m \in Messages
  PROVE  /\ m.kind \in {"boundary", "question", "answer"}
         /\ m.kind = "boundary" => m = Boundary
         /\ m.kind = "question" => m.turn \in TurnIds /\ m.question \in TurnIds
         /\ m.kind = "answer" => m.turn \in TurnIds /\ m.reply \in Replies /\ m.asked \in Nat
BY DEF Messages, Boundary, Message

LEMMA BoundaryMessage == Boundary \in Messages /\ Boundary.kind = "boundary"
BY DEF Messages, Boundary, Message

LEMMA BearingIs ==
  ASSUME NEW ms, NEW kind, NEW turn, NEW i \in DOMAIN ms
  PROVE  /\ ms[i] \in ToSet(ms)
         /\ ms[i] \in Bearing(ms, kind, turn) <=>
              ms[i].kind = kind /\ ms[i].turn = turn.turn
BY DEF ToSet, Bearing

LEMMA MarkedIs ==
  ASSUME NEW p \in Seq(Messages)
  PROVE  /\ Marked(p) \in Seq(Messages)
         /\ Len(p) <= Len(Marked(p)) /\ Len(Marked(p)) <= Len(p) + 1
         /\ \A i \in 1..Len(p) : Marked(p)[i] = p[i]
         /\ \A i \in (Len(p) + 1)..Len(Marked(p)) : Marked(p)[i] = Boundary
<1> PICK k \in Nat : k = Len(p)
  OBVIOUS
<1>1. CASE Marked(p) = p
  BY <1>1
<1>2. CASE Marked(p) = Append(p, Boundary)
  <2>1. /\ Append(p, Boundary) \in Seq(Messages) /\ Len(Append(p, Boundary)) = k + 1
        /\ Append(p, Boundary)[k + 1] = Boundary
        /\ \A i \in 1..k : Append(p, Boundary)[i] = p[i]
    BY BoundaryMessage
  <2> QED BY <1>2, <2>1
<1> QED BY <1>1, <1>2 DEF Marked

\* Members of a list at increasing places of a tidy one, with boundaries between.
LEMMA TidyPart ==
  ASSUME NEW ms \in Seq(Messages), NEW n, NEW turn, Tidy(ms, n, turn),
         NEW p \in Seq(Messages), NEW I \in SUBSET (DOMAIN p), NEW f \in [I -> DOMAIN ms],
         \A i, j \in I : f[i] = f[j] => i = j,
         \A i \in I : p[i] = ms[f[i]],
         \A i \in DOMAIN p \ I : p[i].kind = "boundary"
  PROVE  Tidy(p, n, turn)
<1>1. \A i \in DOMAIN p : p[i].kind # "boundary" => i \in I /\ f[i] \in DOMAIN ms /\ p[i] = ms[f[i]]
  OBVIOUS
<1>2. AnswersShaped(p)
  BY <1>1 DEF Tidy, AnswersShaped
<1>3. OneAnswerPerTurn(p)
  <2> SUFFICES ASSUME NEW i \in DOMAIN p, NEW j \in DOMAIN p,
                      p[i].kind = "answer", p[j].kind = "answer", p[i].turn = p[j].turn
               PROVE  i = j
    BY DEF OneAnswerPerTurn
  <2>1. i \in I /\ j \in I /\ p[i] = ms[f[i]] /\ p[j] = ms[f[j]]
        /\ f[i] \in DOMAIN ms /\ f[j] \in DOMAIN ms
    BY <1>1
  <2>2. f[i] = f[j]
    BY <2>1 DEF Tidy, OneAnswerPerTurn
  <2> QED BY <2>1, <2>2
<1>4. QuestionsDrawn(p, n)
  BY <1>1 DEF Tidy, QuestionsDrawn
<1>5. Repeats(p, turn)
  BY <1>1 DEF Tidy, Repeats
<1> QED BY <1>2, <1>3, <1>4, <1>5 DEF Tidy

\* b, active past start, is what a boundary makes of ms when the turn retry, if
\* any, is to be repeated: nothing but its question stays active, and no other
\* question becomes one without an answer.
Divided(ms, b, start, retry) ==
  /\ \A i \in (start + 1)..Len(b) :
       b[i].kind = "question" /\ retry # None /\ b[i].turn = retry.turn
  /\ \A n, turn : Tidy(ms, n, turn) => Tidy(b, n, turn)
  /\ \A i \in 1..Len(b) : Unanswered(b, i) =>
       \/ retry # None /\ b[i].turn = retry.turn
       \/ \E j \in 1..Len(ms) : ms[j] = b[i] /\ Unanswered(ms, j)

\* boundary keeps all messages, the question to repeat behind the boundary.
LEMMA ClosedMessages ==
  ASSUME NEW c \in Chats, NEW retry \in Turns \union {None},
         NEW b, b = Closed(c, retry).messages,
         NEW start, start = Closed(c, retry).activeStart
  PROVE  /\ b \in Seq(Messages) /\ start \in Nat /\ start <= Len(b)
         /\ Divided(c.messages, b, start, retry)
<1> DEFINE ms == c.messages
           asks == IF retry = None THEN {} ELSE Bearing(ms, "question", retry)
           S == ToSet(ms) \ asks
           p == Kept(ms, S)
           h == Marked(p)
           again == Kept(ms, asks)
<1>1. ms \in Seq(Messages) /\ DOMAIN c = DOMAIN Fresh
  BY DEF Chats, Fresh
<1>2. b = h \o again /\ start = Len(h)
  BY <1>1 DEF Closed, Fresh
<1>3. PICK n \in Nat : n = Len(ms) /\ DOMAIN ms = 1..n
  BY <1>1
<1>4. p \in Seq(Messages) /\ again \in Seq(Messages)
      /\ (\E f : Placed(f, p, ms, n, S)) /\ (\E g : Placed(g, again, ms, n, asks))
  BY <1>1, <1>3, KeptPlaced
<1>5. PICK f, g : Placed(f, p, ms, n, S) /\ Placed(g, again, ms, n, asks)
  BY <1>4
<1> HIDE DEF p, again, h
<1>6. PICK k \in Nat, l \in Nat, a \in Nat :
        /\ k = Len(p) /\ l = Len(h) /\ a = Len(again) /\ k <= l
        /\ h \in Seq(Messages) /\ \A i \in 1..k : h[i] = p[i]
        /\ \A i \in (k + 1)..l : h[i] = Boundary
  BY <1>4, MarkedIs DEF h
<1>7. /\ b \in Seq(Messages) /\ Len(b) = l + a /\ start = l /\ DOMAIN b = 1..(l + a)
      /\ \A i \in 1..l : b[i] = h[i]
      /\ \A i \in (l + 1)..(l + a) : i - l \in 1..a /\ b[i] = again[i - l]
  BY <1>2, <1>4, <1>6
<1>8. /\ \A i \in 1..k : f[i] \in 1..n /\ b[i] = ms[f[i]] /\ ms[f[i]] \in S
      /\ \A i \in (k + 1)..l : b[i] = Boundary
      /\ \A i \in (l + 1)..(l + a) : g[i - l] \in 1..n /\ b[i] = ms[g[i - l]] /\ ms[g[i - l]] \in asks
  <2>1. \A i \in 1..k : i \in 1..l
    BY <1>6
  <2>2. \A i \in (k + 1)..l : i \in 1..l
    BY <1>6
  <2> HIDE DEF asks, S
  <2>3. \A i \in 1..k : f[i] \in 1..n /\ b[i] = ms[f[i]] /\ ms[f[i]] \in S
    BY <1>5, <1>6, <1>7, <2>1 DEF Placed
  <2>4. \A i \in (k + 1)..l : b[i] = Boundary
    BY <1>6, <1>7, <2>2
  <2>5. \A i \in (l + 1)..(l + a) : g[i - l] \in 1..n /\ b[i] = ms[g[i - l]] /\ ms[g[i - l]] \in asks
    BY <1>5, <1>6, <1>7 DEF Placed
  <2> QED BY <2>3, <2>4, <2>5
<1>9. \A i \in 1..n : ms[i] \in asks <=>
        retry # None /\ ms[i].kind = "question" /\ ms[i].turn = retry.turn
  BY <1>3, BearingIs
<1>10. \A i \in 1..n : ms[i] \in S <=> ms[i] \notin asks
  BY <1>3, BearingIs
<1>11. \A i \in (start + 1)..Len(b) :
         b[i].kind = "question" /\ retry # None /\ b[i].turn = retry.turn
  <2> HIDE DEF asks, S, ms
  <2> QED BY <1>7, <1>8, <1>9
<1>12. ASSUME NEW m, NEW turn, Tidy(ms, m, turn) PROVE Tidy(b, m, turn)
  <2> DEFINE I == (1..k) \union ((l + 1)..(l + a))
             F == [i \in I |-> IF i \in 1..k THEN f[i] ELSE g[i - l]]
  <2> HIDE DEF asks, S, ms
  <2>1. /\ \A i \in 1..k : F[i] = f[i] /\ i \in I
        /\ \A i \in (l + 1)..(l + a) : F[i] = g[i - l] /\ i \in I /\ i \notin 1..k
    BY <1>6
  <2>2. \A i \in I : i \in 1..k \/ i \in (l + 1)..(l + a)
    OBVIOUS
  <2>3. DOMAIN F = I
    OBVIOUS
  <2>4. I \in SUBSET (DOMAIN b)
    BY <1>6, <1>7
  <2>5. \A i \in DOMAIN b \ I : i \in (k + 1)..l
    BY <1>6, <1>7
  <2>6. F \in [I -> DOMAIN ms]
    <3>1. ASSUME NEW i \in I PROVE (IF i \in 1..k THEN f[i] ELSE g[i - l]) \in DOMAIN ms
      BY <1>3, <1>8, <2>2
    <3> QED BY <3>1
  <2> HIDE DEF F, I
  <2>7. \A i \in I : b[i] = ms[F[i]]
    BY <1>8, <2>1, <2>2
  <2>8. \A i \in DOMAIN b \ I : b[i].kind = "boundary"
    BY <2>5, <1>8, BoundaryMessage
  <2>9. ASSUME NEW i \in I, NEW j \in I, F[i] = F[j] PROVE i = j
    <3>1. CASE i \in 1..k /\ j \in 1..k
      <4>1. f[i] = f[j] /\ f[i] \in 1..n
        BY <2>1, <2>9, <3>1, <1>8
      <4> QED BY <4>1, <3>1, <1>5, <1>6 DEF Placed
    <3>2. CASE i \in (l + 1)..(l + a) /\ j \in (l + 1)..(l + a)
      <4>1. g[i - l] = g[j - l] /\ g[i - l] \in 1..n /\ i - l \in 1..a /\ j - l \in 1..a
        BY <2>1, <2>9, <3>2, <1>8
      <4>2. i - l = j - l
        BY <4>1, <1>5, <1>6 DEF Placed
      <4> QED BY <3>2, <4>2
    <3>3. CASE i \in 1..k /\ j \in (l + 1)..(l + a)
      BY <2>1, <2>9, <3>3, <1>8, <1>10
    <3>4. CASE j \in 1..k /\ i \in (l + 1)..(l + a)
      BY <2>1, <2>9, <3>4, <1>8, <1>10
    <3> QED BY <2>2, <3>1, <3>2, <3>3, <3>4
  <2>10. ms \in Seq(Messages) /\ b \in Seq(Messages)
    BY <1>1, <1>7 DEF ms
  <2> QED BY <1>12, <2>4, <2>6, <2>7, <2>8, <2>9, <2>10, TidyPart
<1>13. ASSUME NEW i \in 1..Len(b), Unanswered(b, i), ~ (retry # None /\ b[i].turn = retry.turn)
       PROVE  \E j \in 1..n : ms[j] = b[i] /\ Unanswered(ms, j)
  <2> HIDE DEF asks, S, ms
  <2>1. b[i].kind = "question" /\ \A j \in (i + 1)..(l + a) : b[j].kind = "boundary"
    BY <1>7, <1>13 DEF Unanswered
  <2>2. i \in 1..k
    BY <1>7, <1>8, <1>11, <1>13, <2>1, BoundaryMessage
  <2>3. a = 0
    <3>1. SUFFICES ASSUME a # 0 PROVE FALSE
      OBVIOUS
    <3>2. l + a \in (i + 1)..(l + a) /\ l + a \in (l + 1)..(l + a)
      BY <3>1, <2>2, <1>6
    <3> QED BY <3>2, <2>1, <1>7, <1>11
  <2>4. \A j \in 1..n : ms[j] \in S
    BY <2>3, <1>5, <1>6, <1>10 DEF Placed
  <2>5. ASSUME NEW j \in (f[i] + 1)..n PROVE ms[j].kind = "boundary"
    <3>1. f[i] \in 1..n
      BY <1>8, <2>2
    <3>2. PICK m \in 1..k : f[m] = j
      <4>1. j \in 1..n
        BY <3>1
      <4> QED BY <4>1, <2>4, <1>5, <1>6 DEF Placed
    <3>3. i < m
      <4>1. ~ (m < i) /\ m # i
        BY <3>1, <3>2, <2>2, <1>5, <1>6 DEF Placed
      <4> QED BY <4>1, <2>2
    <3>4. m \in (i + 1)..(l + a) /\ b[m] = ms[j]
      BY <3>2, <3>3, <2>2, <1>6, <1>8
    <3> QED BY <3>4, <2>1
  <2>6. f[i] \in 1..n /\ ms[f[i]] = b[i]
    BY <1>8, <2>2
  <2> QED BY <2>1, <2>5, <2>6, <1>3 DEF Unanswered
<1>14. start \in Nat /\ start <= Len(b)
  BY <1>7
<1> QED
  <2> HIDE DEF asks, S
  <2>1. Divided(ms, b, start, retry)
    BY <1>3, <1>11, <1>12, <1>13 DEF Divided
  <2> QED BY <1>7, <1>14, <2>1

\* The messages ms with an answer at their end, in place of at most one of them:
\* the others keep their order and none moves towards the end.
Replaced(ms, b, answer) ==
  /\ Len(b) \in 1..(Len(ms) + 1) /\ Len(ms) <= Len(b) /\ b[Len(b)] = answer
  /\ \E f \in [1..(Len(b) - 1) -> 1..Len(ms)] :
       /\ \A i, j \in 1..(Len(b) - 1) : i < j => f[i] < f[j]
       /\ \A i \in 1..(Len(b) - 1) : f[i] >= i /\ b[i] = ms[f[i]]

LEMMA AnsweredMessages ==
  ASSUME NEW ms \in Seq(Messages), NEW turn, NEW answer \in Messages,
         answer.kind = "answer", answer.turn = turn.turn, OneAnswerPerTurn(ms),
         NEW b, b = Append(Kept(ms, ToSet(ms) \ Bearing(ms, "answer", turn)), answer)
  PROVE  /\ b \in Seq(Messages) /\ Replaced(ms, b, answer)
         /\ \A n, t : Tidy(ms, n, t) /\ Shaped(answer.reply) => Tidy(b, n, t)
<1> DEFINE S == ToSet(ms) \ Bearing(ms, "answer", turn)
           p == Kept(ms, S)
<1>1. PICK n \in Nat : n = Len(ms) /\ DOMAIN ms = 1..n
  OBVIOUS
<1>2. p \in Seq(Messages) /\ \E f : Placed(f, p, ms, n, S)
  BY <1>1, KeptPlaced
<1>3. PICK f : Placed(f, p, ms, n, S)
  BY <1>2
<1>4. \A i \in 1..n : ms[i] \in S <=> ~ (ms[i].kind = "answer" /\ ms[i].turn = turn.turn)
  <2>1. ASSUME NEW i \in 1..n
        PROVE  /\ ms[i] \in ToSet(ms)
               /\ ms[i] \in Bearing(ms, "answer", turn) <=>
                    ms[i].kind = "answer" /\ ms[i].turn = turn.turn
    BY <1>1, BearingIs
  <2> QED BY <2>1
<1> HIDE DEF p
<1>5. PICK k \in Nat : k = Len(p) /\ DOMAIN p = 1..k
  BY <1>2
<1>6. b \in Seq(Messages) /\ Len(b) = k + 1 /\ b[k + 1] = answer /\ DOMAIN b = 1..(k + 1)
      /\ \A i \in 1..k : b[i] = p[i]
  BY <1>2, <1>5 DEF p
<1>7. k <= n /\ \A i \in 1..k : f[i] >= i
  BY <1>3, <1>5, PlacedAhead
<1>8. n <= k + 1
  <2>1. \A i, j \in 1..n : ms[i] \notin S /\ ms[j] \notin S => i = j
    BY <1>1, <1>4 DEF OneAnswerPerTurn
  <2> HIDE DEF S
  <2> QED BY <1>3, <1>5, <2>1, PlacedLength
<1> HIDE DEF S
<1>9. /\ f \in [1..k -> 1..n] /\ \A i, j \in 1..k : i < j => f[i] < f[j]
      /\ \A i \in 1..k : b[i] = ms[f[i]] /\ ms[f[i]] \in S
  BY <1>3, <1>5, <1>6 DEF Placed
<1>10. \A i \in 1..k : b[i].kind = "answer" => b[i].turn # turn.turn
  BY <1>4, <1>9
<1>11. ASSUME NEW m, NEW t, Tidy(ms, m, t), Shaped(answer.reply) PROVE Tidy(b, m, t)
  <2>1. Tidy(p, m, t)
    <3>1. \A i, j \in 1..k : f[i] = f[j] => i = j
      BY <1>9
    <3>2. \A i \in 1..k : p[i] = ms[f[i]]
      BY <1>6, <1>9
    <3> QED BY <1>1, <1>2, <1>5, <1>9, <1>11, <3>1, <3>2, TidyPart
  <2>2. \A i \in DOMAIN b : i = k + 1 \/ (i \in DOMAIN p /\ b[i] = p[i])
    <3>1. \A i \in 1..(k + 1) : i = k + 1 \/ i \in 1..k
      OBVIOUS
    <3> QED BY <1>5, <1>6, <3>1
  <2>3. AnswersShaped(b)
    BY <2>1, <2>2, <1>6, <1>11 DEF Tidy, AnswersShaped
  <2>4. OneAnswerPerTurn(b)
    <3> SUFFICES ASSUME NEW i \in DOMAIN b, NEW j \in DOMAIN b,
                        b[i].kind = "answer", b[j].kind = "answer", b[i].turn = b[j].turn
                 PROVE  i = j
      BY DEF OneAnswerPerTurn
    <3>1. CASE i = k + 1
      BY <3>1, <2>2, <1>5, <1>6, <1>10
    <3>2. CASE j = k + 1
      BY <3>2, <2>2, <1>5, <1>6, <1>10
    <3>3. CASE i # k + 1 /\ j # k + 1
      BY <3>3, <2>1, <2>2 DEF Tidy, OneAnswerPerTurn
    <3> QED BY <3>1, <3>2, <3>3
  <2>5. QuestionsDrawn(b, m)
    BY <2>1, <2>2, <1>6 DEF Tidy, QuestionsDrawn
  <2>6. Repeats(b, t)
    BY <2>1, <2>2, <1>6 DEF Tidy, Repeats
  <2> QED BY <2>3, <2>4, <2>5, <2>6 DEF Tidy
<1> QED
  <2>1. Len(b) - 1 = k /\ Len(b) \in 1..(n + 1) /\ n <= Len(b) /\ b[Len(b)] = answer
    BY <1>6, <1>7, <1>8
  <2>2. \E e \in [1..(Len(b) - 1) -> 1..Len(ms)] :
          /\ \A i, j \in 1..(Len(b) - 1) : i < j => e[i] < e[j]
          /\ \A i \in 1..(Len(b) - 1) : e[i] >= i /\ b[i] = ms[e[i]]
    BY <2>1, <1>1, <1>7, <1>9
  <2>3. Replaced(ms, b, answer)
    BY <1>1, <2>1, <2>2 DEF Replaced
  <2> QED BY <1>6, <1>11, <2>3

--------------------------------------------------------------------------------
(* Generations and turns.                                                     *)

\* A finite set of numbers leaves one free, and a least one.
LEMMA FreeNumber ==
  ASSUME NEW B, IsFiniteSet(B)
  PROVE  \E g \in 0..Cardinality(B) : g \notin B /\ \A h \in 0..(g - 1) : h \in B
<1> DEFINE n == Cardinality(B)
           Good == {m \in 0..n : \A h \in 0..m : h \in B}
<1>1. n \in Nat
  BY FS_CardinalityType
<1>2. SUFFICES ASSUME \A g \in 0..n : (\A h \in 0..(g - 1) : h \in B) => g \in B
               PROVE  FALSE
  BY Zenon
<1>3. n \in Good
  <2>1. 0 \in Good
    BY <1>1, <1>2
  <2>2. ASSUME NEW m \in 0..(n - 1), m \in Good PROVE m + 1 \in Good
    <3>1. m + 1 \in 0..n /\ \A h \in 0..((m + 1) - 1) : h \in 0..m
      BY <1>1
    <3>2. m + 1 \in B
      BY <1>2, <2>2, <3>1
    <3>3. \A h \in 0..(m + 1) : h \in 0..m \/ h = m + 1
      OBVIOUS
    <3> QED BY <2>2, <3>1, <3>2, <3>3
  <2> HIDE DEF Good
  <2> QED BY <1>1, <2>1, <2>2, CountingUp
<1>4. 0..n \in SUBSET B
  BY <1>3
<1>5. Cardinality(0..n) <= n
  BY <1>4, FS_Subset
<1>6. Cardinality(0..n) = n + 1
  <2>1. 0 \in Int /\ n \in Int /\ (IF 0 > n THEN 0 ELSE n - 0 + 1) = n + 1
    BY <1>1
  <2>2. Cardinality(0..n) = IF 0 > n THEN 0 ELSE n - 0 + 1
    BY <2>1, FS_Interval, Zenon
  <2> QED BY <2>1, <2>2
<1> QED BY <1>1, <1>5, <1>6

\* A new generation is that of no request whose reply may still come.
LEMMA NextGenerationFree ==
  ASSUME IsFiniteSet(wire), IsFiniteSet(replies)
  PROVE  /\ NextGeneration \in Nat
         /\ NextGeneration # chat.generation
         /\ \A r \in wire : NextGeneration # r.generation
         /\ \A x \in replies : NextGeneration # x.request.generation
<1> DEFINE W == {r.generation : r \in wire}
           R == {r.request.generation : r \in replies}
           B == W \union {chat.generation} \union R
<1>1. IsFiniteSet(W)
  <2>1. [r \in wire |-> r.generation] \in Surjection(wire, W)
    BY DEF Surjection
  <2> QED BY <2>1, FS_Surjection
<1>2. IsFiniteSet(R)
  <2>1. [r \in replies |-> r.request.generation] \in Surjection(replies, R)
    BY DEF Surjection
  <2> QED BY <2>1, FS_Surjection
<1>3. IsFiniteSet(B)
  <2> HIDE DEF W, R
  <2>1. IsFiniteSet(W \union {chat.generation})
    BY <1>1, FS_AddElement
  <2> QED BY <1>2, <2>1, FS_Union
<1>4. NextGeneration =
        CHOOSE g \in 0..Cardinality(B) : g \notin B /\ \A h \in 0..(g - 1) : h \in B
  BY DEF NextGeneration
<1>5. NextGeneration \in 0..Cardinality(B) /\ NextGeneration \notin B
  <2> HIDE DEF B
  <2> QED BY <1>3, <1>4, FreeNumber
<1>6. Cardinality(B) \in Nat
  BY <1>3, FS_CardinalityType
<1>7. NextGeneration \in Nat
  <2> HIDE DEF B
  <2> QED BY <1>5, <1>6
<1> QED BY <1>5, <1>7

LEMMA AnewIs ==
  ASSUME NEW turn \in Turns
  PROVE  /\ turn # None /\ Anew(turn) \in Turns /\ Anew(turn) # None
         /\ Anew(turn).turn = turn.turn /\ Anew(turn).question = turn.question
         /\ Anew(turn).token = None
<1>1. turn # None
  BY UndefinedAssumption
<1>2. <<>> \in Contexts
  BY DEF Contexts
<1>3. Anew(turn) = [turn EXCEPT !.context = <<>>, !.expected = 0, !.token = None]
  BY <1>1 DEF Anew
<1>4. Anew(turn) \in Turns
  <2>1. 0 \in 0..MaxTurns
    BY ConversationAssumption
  <2> QED BY <1>2, <1>3, <2>1 DEF Turns
<1>5. Anew(turn).turn = turn.turn /\ Anew(turn).question = turn.question
      /\ Anew(turn).token = None
  BY <1>3 DEF Turns
<1> QED BY <1>1, <1>4, <1>5, UndefinedAssumption

\* A record of such fields is a chat.
LEMMA ChatOfFields ==
  ASSUME NEW b \in Seq(Messages), NEW start \in Nat, NEW v \in Versions \union {None},
         NEW token \in TurnIds \union {None}, NEW n \in 0..MaxTurns, NEW expiring \in BOOLEAN,
         NEW retry \in Turns \union {None}, NEW pending \in BOOLEAN, NEW g \in Nat,
         NEW d, d = [messages |-> b, activeStart |-> start, version |-> v, token |-> token,
                     revision |-> n, expiring |-> expiring, retry |-> retry,
                     pending |-> pending, generation |-> g]
  PROVE  d \in Chats
BY DEF Chats

\* The chat c behind a boundary, in generation g and about version v.
Reopened(c, retry, g, v) == [[Closed(c, retry) EXCEPT !.generation = g] EXCEPT !.version = v]

\* d is what a boundary may make of c.
Behind(d, c, retry, g, v) ==
  /\ d \in Chats /\ d.activeStart <= Len(d.messages)
  /\ d.version = v /\ d.token = None /\ d.revision = 0 /\ d.expiring = FALSE
  /\ d.retry = retry /\ d.pending = FALSE /\ d.generation = g
  /\ Divided(c.messages, d.messages, d.activeStart, retry)

LEMMA BoundedIs ==
  ASSUME NEW c \in Chats, NEW retry \in Turns \union {None}, NEW g \in Nat,
         NEW v \in Versions \union {None},
         NEW d, d = Reopened(c, retry, g, v)
  PROVE  Behind(d, c, retry, g, v)
<1>1. DOMAIN c = DOMAIN Fresh
  BY DEF Chats, Fresh
<1>2. PICK b, start : b = Closed(c, retry).messages /\ start = Closed(c, retry).activeStart
  OBVIOUS
<1>3. d = [messages |-> b, activeStart |-> start, version |-> v, token |-> None,
           revision |-> 0, expiring |-> FALSE, retry |-> retry, pending |-> FALSE,
           generation |-> g]
  BY <1>1, <1>2 DEF Reopened, Closed, Fresh
<1>4. /\ b \in Seq(Messages) /\ start \in Nat /\ start <= Len(b)
      /\ Divided(c.messages, b, start, retry)
  BY <1>2, ClosedMessages, Zenon
<1>5. /\ None \in TurnIds \union {None} /\ 0 \in 0..MaxTurns
      /\ FALSE \in BOOLEAN
  BY ConversationAssumption
<1>6. d \in Chats
  BY <1>3, <1>4, <1>5, ChatOfFields, Zenon
<1>7. d.messages = b /\ d.activeStart = start
  BY <1>3
<1>8. /\ d.version = v /\ d.token = None /\ d.revision = 0 /\ d.expiring = FALSE
      /\ d.retry = retry /\ d.pending = FALSE /\ d.generation = g
  BY <1>3
<1> QED BY <1>4, <1>6, <1>7, <1>8, Zenon DEF Behind

--------------------------------------------------------------------------------
(* Type correctness, apart from the chat.                                     *)

RestTyped ==
  /\ stored \in BOOLEAN /\ query \in {"empty", "success", "failed"}
  /\ fetching \in Versions \union {None} /\ superseded \subseteq Versions
  /\ drawn \in 0..MaxTurns
  /\ wire \subseteq Requests
  /\ replies \subseteq [request : Requests, reply : Replies]
  /\ archive \in Versions
  /\ sessions \in [TurnIds -> Seq(Entries) \union {None}] /\ lost \subseteq TurnIds

LEMMA TypeParts ==
  TypeOK <=> /\ chat \in Chats /\ chat.activeStart <= Len(chat.messages)
             /\ (chat.pending => chat.retry # None)
             /\ RestTyped
BY DEF TypeOK, RestTyped

LEMMA TypePartsAfter ==
  TypeOK' <=> /\ chat' \in Chats /\ chat'.activeStart <= Len(chat'.messages)
              /\ (chat'.pending => chat'.retry # None)
              /\ RestTyped'
BY DEF TypeOK, RestTyped

LEMMA ChatTyped ==
  ASSUME TypeOK
  PROVE  /\ chat.messages \in Seq(Messages) /\ Len(chat.messages) \in Nat
         /\ DOMAIN chat.messages = 1..Len(chat.messages)
         /\ chat.activeStart \in Nat /\ chat.activeStart <= Len(chat.messages)
         /\ chat.version \in Versions \union {None} /\ chat.token \in TurnIds \union {None}
         /\ chat.revision \in 0..MaxTurns /\ chat.retry \in Turns \union {None}
         /\ chat.generation \in Nat /\ chat.pending \in BOOLEAN /\ chat.expiring \in BOOLEAN
BY DEF TypeOK, Chats

LEMMA AbortedIs ==
  ASSUME wire \subseteq Requests, IsFiniteSet(wire)
  PROVE  /\ Aborted \subseteq Requests /\ IsFiniteSet(Aborted)
         /\ \A r \in Aborted : r.awaited = FALSE /\ \E q \in wire : r.turn = q.turn
<1>1. ASSUME NEW q \in wire
      PROVE  /\ [q EXCEPT !.awaited = FALSE, !.generation = 0] \in Requests
             /\ [q EXCEPT !.awaited = FALSE, !.generation = 0].awaited = FALSE
             /\ [q EXCEPT !.awaited = FALSE, !.generation = 0].turn = q.turn
  BY DEF Requests
<1>2. IsFiniteSet(Aborted)
  <2>1. [q \in wire |-> [q EXCEPT !.awaited = FALSE, !.generation = 0]]
          \in Surjection(wire, Aborted)
    BY DEF Surjection, Aborted
  <2> QED BY <2>1, FS_Surjection
<1> QED BY <1>1, <1>2 DEF Aborted

\* Where no answer is shown, nothing is claimed of answers.
LEMMA NothingShown ==
  ASSUME ActiveAnswers' = {}, TypeOK',
         \A x \in replies' : Awaited(x)' => FALSE
  PROVE  /\ ActiveAnswersWereAskedHere' /\ OneArchivePerConversation'
         /\ TranscriptIsTheSession' /\ NothingShownAhead'
<1>1. ActiveAnswersWereAskedHere' /\ OneArchivePerConversation'
  BY DEF ActiveAnswersWereAskedHere, OneArchivePerConversation
<1>2. TranscriptIsTheSession'
  BY DEF TranscriptIsTheSession
<1>3. ShownRevisions' = {}
  BY DEF ShownRevisions
<1>4. NothingShownAhead'
  BY <1>3 DEF NothingShownAhead
<1> QED BY <1>1, <1>2, <1>4

\* What was said of chat.messages in terms of Tidy and Unanswered.
LEMMA MessagesIn == MessagesInv <=> Tidy(chat.messages, drawn, chat.retry)
BY DEF MessagesInv, Tidy
LEMMA MessagesAfter == MessagesInv' <=> Tidy(chat'.messages, drawn', chat'.retry)
BY DEF MessagesInv, Tidy
LEMMA RetryableIn ==
  ASSUME TypeOK
  PROVE  UnansweredIsRetryable <=>
           \A i \in 1..Len(chat.messages) : Unanswered(chat.messages, i) =>
             chat.retry # None /\ chat.retry.question = chat.messages[i].question
BY ChatTyped DEF UnansweredIsRetryable, Unanswered
LEMMA RetryableAfter ==
  ASSUME chat' \in Chats
  PROVE  UnansweredIsRetryable' <=>
           \A i \in 1..Len(chat'.messages) : Unanswered(chat'.messages, i) =>
             chat'.retry # None /\ chat'.retry.question = chat'.messages[i].question
<1>1. DOMAIN chat'.messages = 1..Len(chat'.messages)
  BY DEF Chats
<1> QED BY <1>1 DEF UnansweredIsRetryable, Unanswered

\* The chat c may be divided for the turn to be repeated.
Dividable(c, turn) ==
  /\ Tidy(c.messages, drawn, turn)
  /\ \A i \in 1..Len(c.messages) : Unanswered(c.messages, i) =>
       turn # None /\ turn.question = c.messages[i].question
  /\ turn # None => turn.token = None /\ turn.turn <= drawn

\* Nobody waits for the requests that are out.
Silent ==
  /\ IsFiniteSet(wire) /\ Awaiting = {}
  /\ \A r \in wire : r.turn.turn <= drawn

\* A boundary, whatever the page did to the chat before within the same step: no
\* answer is active behind it and no reply is due.
LEMMA BoundaryStep ==
  ASSUME WInv, NEW c \in Chats, NEW turn \in Turns \union {None}, NEW v \in Versions,
         Dividable(c, turn), chat' = Reopened(c, turn, NextGeneration, v),
         RestTyped', Silent', drawn' = drawn, sessions' = sessions, lost' = lost,
         replies' \subseteq replies
  PROVE  WInv'
<1>0. IsFiniteSet(wire) /\ IsFiniteSet(replies)
  BY DEF WInv, OneReplyDue
<1>1. NextGeneration \in Nat
  BY <1>0, NextGenerationFree
<1>2. v \in Versions \union {None}
  OBVIOUS
<1>3. Behind(chat', c, turn, NextGeneration, v)
  BY <1>1, <1>2, BoundedIs, Zenon
<1>4. /\ chat' \in Chats /\ chat'.activeStart <= Len(chat'.messages)
      /\ chat'.version = v /\ chat'.token = None /\ chat'.revision = 0
      /\ chat'.expiring = FALSE /\ chat'.retry = turn /\ chat'.pending = FALSE
      /\ chat'.generation = NextGeneration
      /\ Divided(c.messages, chat'.messages, chat'.activeStart, turn)
  BY <1>3 DEF Behind
<1>5. TypeOK'
  BY <1>4, TypePartsAfter
<1>6. ActiveAnswers' = {}
  BY <1>4 DEF ActiveAnswers, Divided
<1>7. \A x \in replies' : Awaited(x)' => FALSE
  BY <1>0, <1>4, NextGenerationFree DEF Awaited
<1>8. Tidy(chat'.messages, drawn', chat'.retry)
  BY <1>4 DEF Divided, Dividable
<1>9. MessagesInv'
  BY <1>8, MessagesAfter
<1>10. UnansweredIsRetryable'
  <2>1. ASSUME NEW i \in 1..Len(chat'.messages), Unanswered(chat'.messages, i)
        PROVE  turn # None /\ turn.question = chat'.messages[i].question
    <3>1. i \in DOMAIN chat'.messages
      BY <1>4, <2>1
    <3>2. CASE turn # None /\ chat'.messages[i].turn = turn.turn
      BY <1>4, <1>8, <2>1, <3>1, <3>2 DEF Tidy, Repeats, Unanswered
    <3>3. CASE \E j \in 1..Len(c.messages) :
                 c.messages[j] = chat'.messages[i] /\ Unanswered(c.messages, j)
      BY <3>3 DEF Dividable
    <3> QED BY <1>4, <2>1, <3>2, <3>3 DEF Divided, Dividable
  <2> QED BY <1>4, <2>1, RetryableAfter
<1>11. IdsDrawn'
  <2>1. \A x \in replies' : x.request.turn.turn <= drawn'
    BY DEF WInv, IdsDrawn
  <2>2. \A s \in TurnIds : \A i \in 1..Revision(s)' : sessions'[s][i].turn <= drawn'
    BY DEF WInv, IdsDrawn, Revision
  <2>3. chat'.retry # None => chat'.retry.turn <= drawn'
    BY <1>4 DEF Dividable
  <2>4. \A r \in wire' : r.turn.turn <= drawn'
    BY DEF Silent
  <2> QED BY <2>1, <2>2, <2>3, <2>4 DEF IdsDrawn
<1>12. OneReplyDue'
  <2>1. IsFiniteSet(replies')
    BY <1>0, FS_Subset
  <2> QED BY <1>7, <2>1 DEF OneReplyDue, Silent
<1>13. ArchiveKnown'
  <2>1. v # None
    BY ConversationAssumption DEF Versions
  <2> QED BY <1>4, <2>1 DEF ArchiveKnown
<1>14. RetryInSession'
  BY <1>4 DEF RetryInSession, Dividable
<1>15. TurnsOnce'
  BY DEF WInv, TurnsOnce, Revision
<1>16. RepliesCommitted'
  BY DEF WInv, RepliesCommitted, Revision, SessionOf
<1>17. /\ ActiveAnswersWereAskedHere' /\ OneArchivePerConversation'
       /\ TranscriptIsTheSession' /\ NothingShownAhead'
  BY <1>5, <1>6, <1>7, NothingShown
<1> QED
  BY <1>5, <1>9, <1>10, <1>11, <1>12, <1>13, <1>14, <1>15, <1>16, <1>17 DEF WInv
--------------------------------------------------------------------------------
(* Steps that leave the chat alone.                                           *)

\* What is said of sessions and replies stays true while the sessions stay and
\* replies are only taken.
LEMMA SessionsKept ==
  ASSUME WInv, sessions' = sessions, lost' = lost, replies' \subseteq replies,
         drawn' \in Nat, drawn <= drawn'
  PROVE  /\ TurnsOnce' /\ RepliesCommitted' /\ IsFiniteSet(replies')
         /\ \A x \in replies' : x.request.turn.turn <= drawn'
         /\ \A s \in TurnIds : \A i \in 1..Revision(s)' : sessions'[s][i].turn <= drawn'
<1>1. TurnsOnce'
  BY DEF WInv, TurnsOnce, Revision
<1>2. RepliesCommitted'
  BY DEF WInv, RepliesCommitted, Revision, SessionOf
<1>3. IsFiniteSet(replies')
  <2>1. IsFiniteSet(replies)
    BY DEF WInv, OneReplyDue
  <2> QED BY <2>1, FS_Subset
<1>4. drawn \in Nat
  BY ConversationAssumption DEF WInv, TypeOK
<1>5. ASSUME NEW x \in replies' PROVE x.request.turn.turn <= drawn'
  <2>1. x \in replies /\ x.request.turn.turn <= drawn
    BY DEF WInv, IdsDrawn
  <2>2. x.request.turn.turn \in Nat
    BY <2>1, ConversationAssumption DEF WInv, TypeOK, Requests, Turns, TurnIds
  <2> QED BY <1>4, <2>1, <2>2
<1>6. ASSUME NEW s \in TurnIds, NEW i \in 1..Revision(s)' PROVE sessions'[s][i].turn <= drawn'
  <2>1. i \in 1..Revision(s) /\ sessions'[s][i] = sessions[s][i]
    BY <1>6 DEF Revision
  <2>2. sessions[s][i].turn <= drawn
    BY <2>1 DEF WInv, IdsDrawn
  <2>3. sessions[s][i] \in Entries
    BY <2>1 DEF WInv, TypeOK, Revision
  <2>4. sessions[s][i].turn \in Nat
    BY <2>3, ConversationAssumption DEF Entries, TurnIds
  <2> QED BY <1>4, <2>1, <2>2, <2>4
<1> QED BY <1>1, <1>2, <1>3, <1>5, <1>6

\* What is said of the chat alone stays true with it.
LEMMA ChatKept ==
  ASSUME WInv, chat' = chat, drawn' = drawn, query' = "success" => query = "success"
  PROVE  /\ MessagesInv' /\ ArchiveKnown' /\ RetryInSession' /\ UnansweredIsRetryable'
         /\ ActiveAnswersWereAskedHere' /\ OneArchivePerConversation'
         /\ ActiveAnswers' = ActiveAnswers /\ ShownRevisions' = ShownRevisions
<1>1. ActiveAnswers' = ActiveAnswers
  BY DEF ActiveAnswers
<1>2. ShownRevisions' = ShownRevisions
  BY <1>1 DEF ShownRevisions
<1>3. ActiveAnswersWereAskedHere' /\ OneArchivePerConversation'
  BY <1>1 DEF WInv, ActiveAnswersWereAskedHere, OneArchivePerConversation
<1>4. MessagesInv'
  BY DEF WInv, MessagesInv
<1>5. ArchiveKnown' /\ RetryInSession'
  BY DEF WInv, ArchiveKnown, RetryInSession
<1>6. UnansweredIsRetryable'
  BY DEF WInv, UnansweredIsRetryable
<1> QED BY <1>1, <1>2, <1>3, <1>4, <1>5, <1>6

LEMMA TypedChat ==
  ASSUME TypeOK, chat' = chat, RestTyped'
  PROVE  TypeOK'
BY TypeParts, TypePartsAfter

\* A step of the archive or of a fetch, or a reply that is dropped.
LEMMA QuietStep ==
  ASSUME WInv, chat' = chat, drawn' = drawn, query' = "success" => query = "success",
         RestTyped', sessions' = sessions, lost' = lost, wire' = wire,
         replies' \subseteq replies
  PROVE  WInv'
<1>1. TypeOK'
  BY TypedChat DEF WInv
<1>2. drawn' \in Nat /\ drawn <= drawn'
  BY ConversationAssumption DEF WInv, TypeOK
<1>3. /\ TurnsOnce' /\ RepliesCommitted' /\ IsFiniteSet(replies')
      /\ \A x \in replies' : x.request.turn.turn <= drawn'
      /\ \A s \in TurnIds : \A i \in 1..Revision(s)' : sessions'[s][i].turn <= drawn'
  BY <1>2, SessionsKept
<1>4. IdsDrawn'
  BY <1>3 DEF WInv, IdsDrawn
<1>5. Awaiting' = Awaiting /\ \A x \in replies' : x \in replies /\ (Awaited(x)' <=> Awaited(x))
  BY DEF Awaiting, Awaited
<1>6. OneReplyDue'
  BY <1>3, <1>5 DEF WInv, OneReplyDue
<1>7. /\ MessagesInv' /\ ArchiveKnown' /\ RetryInSession' /\ UnansweredIsRetryable'
      /\ ActiveAnswersWereAskedHere' /\ OneArchivePerConversation'
      /\ ActiveAnswers' = ActiveAnswers /\ ShownRevisions' = ShownRevisions
  BY ChatKept
<1>8. NothingShownAhead'
  BY <1>5, <1>7 DEF WInv, NothingShownAhead, Revision
<1>9. TranscriptIsTheSession'
  BY <1>7 DEF WInv, TranscriptIsTheSession, Revision
<1> QED BY <1>1, <1>3, <1>4, <1>6, <1>7, <1>8, <1>9 DEF WInv

LEMMA StartCheckStep ==
  ASSUME WInv, StartCheck PROVE WInv'
<1>1. RestTyped'
  BY DEF WInv, TypeOK, RestTyped, StartCheck, server
<1> QED BY <1>1, QuietStep DEF StartCheck, server

LEMMA RetryReadinessStep ==
  ASSUME WInv, RetryReadiness PROVE WInv'
<1>1. RestTyped'
  BY DEF WInv, TypeOK, RestTyped, RetryReadiness, Supersede, server
<1> QED BY <1>1, QuietStep DEF RetryReadiness, Supersede, server

LEMMA CheckFailsStep ==
  ASSUME WInv, CheckFails PROVE WInv'
<1>1. RestTyped'
  BY DEF WInv, TypeOK, RestTyped, CheckFails, server
<1> QED BY <1>1, QuietStep DEF CheckFails, server

LEMMA ReleaseActivatedStep ==
  ASSUME WInv, ReleaseActivated PROVE WInv'
<1>1. RestTyped'
  BY DEF WInv, TypeOK, RestTyped, ReleaseActivated, browser
<1> QED BY <1>1, QuietStep DEF ReleaseActivated, browser

LEMMA DroppedStep ==
  ASSUME WInv, NEW r \in replies, replies' = replies \ {r}, UNCHANGED browser,
         UNCHANGED <<wire, server>>
  PROVE  WInv'
<1>1. RestTyped'
  BY DEF WInv, TypeOK, RestTyped, browser, server
<1> QED BY <1>1, QuietStep DEF browser, server

LEMMA StutterStep ==
  ASSUME WInv, UNCHANGED vars PROVE WInv'
<1>1. RestTyped'
  BY DEF WInv, TypeOK, RestTyped, vars, browser, server
<1> QED BY <1>1, QuietStep DEF vars, browser, server

\* The page hears of a failure of its request, which stays on the wire.
LEMMA ConnectionLostStep ==
  ASSUME WInv, ConnectionLost PROVE WInv'
<1>0. chat' = chat /\ drawn' = drawn /\ query' = query /\ stored' = stored
      /\ fetching' = fetching /\ superseded' = superseded
      /\ archive' = archive /\ sessions' = sessions /\ lost' = lost
  BY DEF ConnectionLost, browser, server
<1>1. PICK r \in Awaiting :
        /\ wire' = (wire \ {r}) \union {[r EXCEPT !.awaited = FALSE, !.generation = 0]}
        /\ replies' = replies \union {[request |-> r, reply |-> Conflict("error", None)]}
  BY DEF ConnectionLost
<1>2. r \in wire /\ r \in Requests /\ r.turn.turn <= drawn
  BY DEF WInv, TypeOK, Awaiting, IdsDrawn
<1>3. PICK q : q = [r EXCEPT !.awaited = FALSE, !.generation = 0]
  OBVIOUS
<1>4. q \in Requests /\ q.awaited = FALSE /\ q.turn = r.turn
  BY <1>2, <1>3 DEF Requests
<1>5. PICK x : x = [request |-> r, reply |-> Conflict("error", None)]
  OBVIOUS
<1>6. /\ x \in [request : Requests, reply : Replies]
      /\ x.request = r /\ x.reply.kind = "error"
  BY <1>2, <1>5 DEF Conflict, Reply, Replies, ReplyKinds
<1>7. RestTyped'
  BY <1>0, <1>1, <1>3, <1>4, <1>5, <1>6 DEF WInv, TypeOK, RestTyped
<1>8. TypeOK'
  BY <1>0, <1>7, TypedChat DEF WInv
<1>9. /\ MessagesInv' /\ ArchiveKnown' /\ RetryInSession' /\ UnansweredIsRetryable'
      /\ ActiveAnswersWereAskedHere' /\ OneArchivePerConversation'
      /\ ActiveAnswers' = ActiveAnswers /\ ShownRevisions' = ShownRevisions
  BY <1>0, ChatKept
<1>10. Awaiting' = {} /\ r.generation = chat.generation /\ chat.pending /\ r.turn = chat.retry
  <2>1. \A s \in Awaiting : s = r
    BY DEF WInv, OneReplyDue
  <2>2. r.generation = chat.generation /\ chat.pending /\ r.turn = chat.retry
    BY DEF WInv, OneReplyDue
  <2> QED BY <1>1, <1>3, <1>4, <2>1, <2>2 DEF Awaiting
<1>11. \A y \in replies : ~ Awaited(y)
  BY <1>1 DEF WInv, OneReplyDue
<1>12. \A y \in replies' : y = x \/ (y \in replies /\ ~ Awaited(y)')
  BY <1>0, <1>1, <1>5, <1>11 DEF Awaited
<1>13. OneReplyDue'
  <2>1. IsFiniteSet(wire) /\ IsFiniteSet(replies)
    BY DEF WInv, OneReplyDue
  <2>2. IsFiniteSet(wire \ {r})
    BY <2>1, FS_Subset
  <2>3. IsFiniteSet(wire') /\ IsFiniteSet(replies')
    BY <1>1, <2>1, <2>2, FS_AddElement
  <2>4. \A y \in replies' : Awaited(y)' => chat'.pending /\ y.request.turn = chat'.retry
    BY <1>0, <1>6, <1>10, <1>12
  <2>5. \A y, z \in replies' : Awaited(y)' /\ Awaited(z)' => y = z
    BY <1>12
  <2> QED BY <1>10, <2>3, <2>4, <2>5 DEF OneReplyDue
<1>14. IdsDrawn'
  <2>1. \A s \in wire' : s.turn.turn <= drawn'
    BY <1>0, <1>1, <1>2, <1>3, <1>4 DEF WInv, IdsDrawn
  <2>2. \A y \in replies' : y.request.turn.turn <= drawn'
    BY <1>0, <1>2, <1>6, <1>12 DEF WInv, IdsDrawn
  <2> QED BY <1>0, <2>1, <2>2 DEF WInv, IdsDrawn, Revision
<1>15. TurnsOnce'
  BY <1>0 DEF WInv, TurnsOnce, Revision
<1>16. RepliesCommitted'
  <2>1. Shaped(x.reply) /\ x.reply.kind # "committed"
    BY <1>6 DEF Shaped
  <2>2. \A y \in replies' : y = x \/ y \in replies
    BY <1>12
  <2> QED BY <1>0, <2>1, <2>2 DEF WInv, RepliesCommitted, Revision, SessionOf
<1>17. NothingShownAhead'
  <2>1. \A y \in replies' : Awaited(y)' => y.reply.kind # "revision_conflict"
    BY <1>6, <1>12
  <2> QED BY <1>0, <1>9, <2>1 DEF WInv, NothingShownAhead, Revision
<1>18. TranscriptIsTheSession'
  BY <1>0, <1>9 DEF WInv, TranscriptIsTheSession, Revision
<1> QED BY <1>8, <1>9, <1>13, <1>14, <1>15, <1>16, <1>17, <1>18 DEF WInv

\* A session is lost: nothing is claimed of it any more.
LEMMA SessionLostStep ==
  ASSUME WInv, SessionLost PROVE WInv'
<1>0. chat' = chat /\ drawn' = drawn /\ query' = query /\ stored' = stored
      /\ fetching' = fetching /\ superseded' = superseded
      /\ archive' = archive /\ wire' = wire /\ replies' = replies
  BY DEF SessionLost, browser
<1>1. PICK s \in TurnIds : sessions' = [sessions EXCEPT ![s] = None] /\ lost' = lost \union {s}
  BY DEF SessionLost
<1>2. sessions \in [TurnIds -> Seq(Entries) \union {None}] /\ lost \subseteq TurnIds
  BY DEF WInv, TypeOK
<1>3. /\ sessions' \in [TurnIds -> Seq(Entries) \union {None}] /\ lost' \subseteq TurnIds
      /\ \A t \in TurnIds : t # s => sessions'[t] = sessions[t] /\ Revision(t)' = Revision(t)
      /\ Revision(s)' = 0
  BY <1>1, <1>2 DEF Revision
<1>4. \A t \in TurnIds : \A i \in 1..Revision(t)' :
        t # s /\ i \in 1..Revision(t) /\ sessions'[t][i] = sessions[t][i]
  <2>1. \A i \in 1..0 : FALSE
    OBVIOUS
  <2> QED BY <1>3, <2>1
<1>5. TypeOK'
  <2>1. RestTyped'
    BY <1>0, <1>3 DEF WInv, TypeOK, RestTyped
  <2> QED BY <1>0, <2>1, TypedChat DEF WInv
<1>6. /\ MessagesInv' /\ ArchiveKnown' /\ RetryInSession' /\ UnansweredIsRetryable'
      /\ ActiveAnswersWereAskedHere' /\ OneArchivePerConversation'
      /\ ActiveAnswers' = ActiveAnswers /\ ShownRevisions' = ShownRevisions
  BY <1>0, ChatKept
<1>7. IdsDrawn'
  BY <1>0, <1>4 DEF WInv, IdsDrawn
<1>8. OneReplyDue'
  BY <1>0 DEF WInv, OneReplyDue, Awaiting, Awaited
<1>9. TurnsOnce'
  <2> SUFFICES ASSUME NEW t \in TurnIds, NEW i \in 1..Revision(t)', NEW j \in 1..Revision(t)',
                      sessions'[t][i].turn = sessions'[t][j].turn
               PROVE  i = j
    BY DEF TurnsOnce
  <2> QED BY <1>4 DEF WInv, TurnsOnce
<1>10. RepliesCommitted'
  <2>1. ASSUME NEW x \in replies', x.reply.kind = "committed", x.reply.token \notin lost'
        PROVE  /\ x.reply.revision \in 1..Revision(x.reply.token)'
               /\ sessions'[x.reply.token][x.reply.revision].turn = x.request.turn.turn
    <3>1. x \in replies /\ x.reply.token \in TurnIds /\ x.reply.token # s
      BY <1>0, <1>1, <2>1 DEF WInv, RepliesCommitted, Shaped
    <3> QED BY <1>1, <1>3, <2>1, <3>1 DEF WInv, RepliesCommitted
  <2> QED BY <1>0, <2>1 DEF WInv, RepliesCommitted, SessionOf
<1>11. NothingShownAhead'
  <2> SUFFICES ASSUME chat'.token \in TurnIds \ lost'
               PROVE  NothingShownAhead'
    BY DEF NothingShownAhead
  <2>1. chat.token \in TurnIds \ lost /\ chat.token # s
    BY <1>0, <1>1
  <2>2. sessions'[chat'.token] = sessions[chat.token] /\ Revision(chat.token)' = Revision(chat.token)
    BY <1>0, <1>3, <2>1
  <2> QED BY <1>0, <1>6, <2>1, <2>2 DEF WInv, NothingShownAhead, Awaited
<1>12. TranscriptIsTheSession'
  <2>1. CASE chat'.token \in lost'
    BY <1>0, <1>6, <2>1 DEF WInv, TranscriptIsTheSession
  <2>2. CASE chat'.token \notin lost' /\ chat.token = None
    <3>1. ASSUME NEW i \in ActiveAnswers, chat.messages[i].reply.kind = "committed"
          PROVE  FALSE
      <4>1. i \in DOMAIN chat.messages /\ chat.messages[i].kind = "answer"
        BY ChatTyped DEF ActiveAnswers, WInv
      <4>2. chat.messages[i].reply.token \in TurnIds
        BY <3>1, <4>1 DEF WInv, MessagesInv, AnswersShaped, Shaped
      <4>3. None \notin TurnIds
        BY ConversationAssumption DEF TurnIds
      <4> QED BY <2>2, <3>1, <4>2, <4>3 DEF WInv, TranscriptIsTheSession
    <3> QED BY <1>0, <1>6, <3>1 DEF TranscriptIsTheSession
  <2>3. CASE chat'.token \notin lost' /\ chat.token # None
    <3>1. chat.token \in TurnIds /\ chat.token # s /\ chat.token \notin lost
      BY <1>0, <1>1, <2>3, ChatTyped DEF WInv
    <3>2. sessions'[chat'.token] = sessions[chat.token]
          /\ Revision(chat.token)' = Revision(chat.token)
      BY <1>0, <1>3, <3>1
    <3> QED BY <1>0, <1>6, <3>1, <3>2 DEF WInv, TranscriptIsTheSession
  <2> QED BY <2>1, <2>2, <2>3
<1> QED BY <1>5, <1>6, <1>7, <1>8, <1>9, <1>10, <1>11, <1>12 DEF WInv

--------------------------------------------------------------------------------
(* A request is served.                                                       *)

\* A session without a turn twice is no longer than there are turns.
LEMMA SessionLength ==
  ASSUME NEW q \in Seq(Entries), \A i, j \in 1..Len(q) : q[i].turn = q[j].turn => i = j
  PROVE  Len(q) \in 0..MaxTurns
<1> PICK n \in Nat : n = Len(q)
  OBVIOUS
<1>1. ASSUME NEW m \in Nat PROVE IsFiniteSet(1..m) /\ Cardinality(1..m) = m
  <2>1. 1 \in Int /\ m \in Int /\ (IF 1 > m THEN 0 ELSE m - 1 + 1) = m
    OBVIOUS
  <2>2. IsFiniteSet(1..m) /\ Cardinality(1..m) = IF 1 > m THEN 0 ELSE m - 1 + 1
    BY <2>1, FS_Interval, Zenon
  <2> QED BY <2>1, <2>2
<1>2. [i \in 1..n |-> q[i].turn] \in Injection(1..n, 1..MaxTurns)
  <2>1. \A i \in 1..n : q[i] \in Entries
    OBVIOUS
  <2>2. \A i \in 1..n : q[i].turn \in 1..MaxTurns
    BY <2>1 DEF Entries, TurnIds
  <2> QED BY <2>2 DEF Injection, IsInjective
<1>3. MaxTurns \in Nat
  BY ConversationAssumption
<1>4. Cardinality(1..n) <= Cardinality(1..MaxTurns)
  BY <1>1, <1>2, <1>3, FS_Injection
<1> QED BY <1>1, <1>3, <1>4

LEMMA AppendIs ==
  ASSUME NEW M, NEW p \in Seq(M), NEW n \in Nat, n = Len(p), NEW m \in M
  PROVE  /\ Append(p, m) \in Seq(M) /\ Len(Append(p, m)) = n + 1
         /\ Append(p, m)[n + 1] = m /\ \A i \in 1..n : Append(p, m)[i] = p[i]
OBVIOUS

\* after is the session with the turn recorded at its end, where it was not.
Recording(after, turn) ==
  LET s == SessionOf(turn) IN
  /\ after \in Seq(Entries) /\ Len(after) = Revision(s) + 1 /\ Len(after) \in 0..MaxTurns
  /\ \A i \in 1..Revision(s) : after[i] = sessions[s][i] /\ after[i].turn # turn.turn
  /\ after[Revision(s) + 1].turn = turn.turn

\* What a request for a turn may end in.
Ending(o, turn) ==
  LET s == SessionOf(turn) IN
  /\ o.reply \in Replies /\ Shaped(o.reply)
  /\ o.session = sessions[s] \/ Recording(o.session, turn)
  /\ o.reply.kind = "committed" =>
       /\ o.session \in Seq(Entries) /\ o.reply.token = s
       /\ o.reply.revision \in 1..Len(o.session)
       /\ o.session[o.reply.revision].turn = turn.turn
  /\ o.reply.kind = "revision_conflict" => o.reply.revision = Revision(s)

LEMMA SessionTyped ==
  ASSUME WInv, NEW s \in TurnIds
  PROVE  /\ Revision(s) \in 0..MaxTurns
         /\ sessions[s] # None => sessions[s] \in Seq(Entries) /\ Len(sessions[s]) = Revision(s)
         /\ (IF sessions[s] = None THEN <<>> ELSE sessions[s]) \in Seq(Entries)
         /\ Len(IF sessions[s] = None THEN <<>> ELSE sessions[s]) = Revision(s)
         /\ \A i \in 1..Revision(s) : sessions[s] # None /\ sessions[s][i] \in Entries
<1>1. sessions[s] \in Seq(Entries) \union {None}
  BY DEF WInv, TypeOK
<1>2. CASE sessions[s] = None
  BY <1>2, ConversationAssumption DEF Revision
<1>3. CASE sessions[s] # None
  <2>1. sessions[s] \in Seq(Entries) /\ Revision(s) = Len(sessions[s])
    BY <1>1, <1>3 DEF Revision
  <2>2. Len(sessions[s]) \in 0..MaxTurns
    BY <2>1, SessionLength DEF WInv, TurnsOnce
  <2> QED BY <1>3, <2>1, <2>2
<1> QED BY <1>2, <1>3

LEMMA TurnTyped ==
  ASSUME NEW turn \in Turns
  PROVE  /\ SessionOf(turn) \in TurnIds /\ turn.turn \in TurnIds /\ turn.turn \in Nat
         /\ Digest(turn) \in TurnIds \X Contexts /\ turn.token \in TurnIds \union {None}
BY ConversationAssumption DEF Turns, SessionOf, Digest, TurnIds

\* A turn that is not recorded, executed: the session grows by it.
LEMMA ExecutedRecords ==
  ASSUME WInv, NEW turn \in Turns, Recorded(turn) = {},
         NEW after, after = Append(IF sessions[SessionOf(turn)] = None THEN <<>>
                                   ELSE sessions[SessionOf(turn)],
                                   [turn |-> turn.turn, digest |-> Digest(turn),
                                    version |-> archive])
  PROVE  Recording(after, turn)
<1>1. PICK s \in TurnIds : s = SessionOf(turn)
  BY TurnTyped
<1>2. PICK entry : entry = [turn |-> turn.turn, digest |-> Digest(turn), version |-> archive]
  OBVIOUS
<1>3. entry \in Entries /\ entry.turn = turn.turn
  BY <1>2, TurnTyped DEF WInv, TypeOK, Entries
<1>4. PICK base : base = IF sessions[s] = None THEN <<>> ELSE sessions[s]
  OBVIOUS
<1>5. PICK n \in Nat : n = Revision(s) /\ Len(base) = n /\ base \in Seq(Entries)
  <2>1. 0..MaxTurns \subseteq Nat
    BY ConversationAssumption
  <2> QED BY <1>4, <2>1, SessionTyped
<1>6. /\ after \in Seq(Entries) /\ Len(after) = n + 1 /\ after[n + 1] = entry
      /\ \A i \in 1..n : after[i] = base[i]
  <2>1. after = Append(base, entry)
    BY <1>1, <1>2, <1>4
  <2>2. /\ Append(base, entry) \in Seq(Entries) /\ Len(Append(base, entry)) = n + 1
        /\ Append(base, entry)[n + 1] = entry
        /\ \A i \in 1..n : Append(base, entry)[i] = base[i]
    BY <1>3, <1>5, AppendIs
  <2> QED BY <2>1, <2>2, Zenon
<1>7. \A i \in 1..n : base[i] = sessions[s][i] /\ sessions[s][i].turn # turn.turn
  <2>1. \A i \in 1..n : sessions[s] # None
    BY <1>5, SessionTyped
  <2> QED BY <1>1, <1>4, <1>5, <2>1 DEF Recorded
<1>8. Len(after) \in 0..MaxTurns
  <2>1. ASSUME NEW i \in 1..(n + 1), NEW j \in 1..(n + 1), after[i].turn = after[j].turn
        PROVE  i = j
    <3>1. CASE i \in 1..n /\ j \in 1..n
      BY <3>1, <2>1, <1>5, <1>6, <1>7 DEF WInv, TurnsOnce
    <3>2. CASE i = n + 1 /\ j \in 1..n
      BY <3>2, <2>1, <1>3, <1>6, <1>7
    <3>3. CASE j = n + 1 /\ i \in 1..n
      BY <3>3, <2>1, <1>3, <1>6, <1>7
    <3> QED BY <3>1, <3>2, <3>3
  <2> QED BY <1>6, <2>1, SessionLength
<1> QED BY <1>1, <1>3, <1>5, <1>6, <1>7, <1>8 DEF Recording

LEMMA Endings ==
  ASSUME WInv, NEW turn \in Turns, NEW o \in Served(turn) \union Faulty(turn)
  PROVE  Ending(o, turn)
<1>1. PICK s \in TurnIds : s = SessionOf(turn)
  BY TurnTyped
<1>2. archive \in Versions /\ Revision(s) \in 0..MaxTurns /\ None \notin Nat /\ MaxTurns \in Nat
  BY SessionTyped, ConversationAssumption DEF WInv, TypeOK
<1>3. CASE o \in Faulty(turn)
  <2>1. PICK reply \in {Conflict("turn_in_progress", None), Conflict("error", None),
                        Reply("stateless", archive, None, None)} :
          o = Outcome(reply, sessions[s], 1)
    BY <1>1, <1>3 DEF Faulty
  <2>2. o.reply = reply /\ o.session = sessions[s]
    BY <2>1 DEF Outcome
  <2>3. /\ reply \in Replies
        /\ reply.kind \in {"turn_in_progress", "error", "stateless"}
    BY <1>2, <2>1 DEF Conflict, Reply, Replies, ReplyKinds, Answers
  <2> QED BY <1>1, <2>2, <2>3 DEF Ending, Shaped
<1>4. CASE sessions[s] = None /\ turn.token # None /\ o \in Served(turn)
  <2>1. o = Outcome(Conflict("session_expired", None), None, 0)
    BY <1>1, <1>4 DEF Served
  <2>2. o.reply = Conflict("session_expired", None) /\ o.session = sessions[s]
    BY <1>4, <2>1 DEF Outcome
  <2>3. o.reply \in Replies /\ o.reply.kind = "session_expired"
    BY <2>2 DEF Conflict, Reply, Replies, ReplyKinds
  <2> QED BY <1>1, <2>2, <2>3 DEF Ending, Shaped
<1>5. CASE ~ (sessions[s] = None /\ turn.token # None) /\ Recorded(turn) # {} /\ o \in Served(turn)
  <2>1. o \in Replayed(turn)
    BY <1>1, <1>5 DEF Served
  <2>2. PICK i \in Recorded(turn) :
          o = Outcome(IF sessions[s][i].digest = Digest(turn)
                      THEN Reply("committed", sessions[s][i].version, s, i)
                      ELSE Conflict("turn_id_reused", None), sessions[s], 0)
    BY <1>1, <2>1 DEF Replayed
  <2>3. o.session = sessions[s]
    BY <2>2 DEF Outcome
  <2>4. i \in 1..Revision(s) /\ sessions[s][i].turn = turn.turn
    BY <1>1, <2>2 DEF Recorded
  <2>5. sessions[s] \in Seq(Entries) /\ Len(sessions[s]) = Revision(s) /\ sessions[s][i] \in Entries
    BY <2>4, SessionTyped
  <2>6. i \in 1..MaxTurns /\ i \in 0..MaxTurns /\ sessions[s][i].version \in Versions
    BY <1>2, <2>4, <2>5 DEF Entries
  <2>7. CASE sessions[s][i].digest = Digest(turn)
    <3>1. o.reply = Reply("committed", sessions[s][i].version, s, i)
      BY <2>2, <2>7 DEF Outcome
    <3>2. o.reply \in Replies /\ o.reply.kind = "committed" /\ o.reply.token = s /\ o.reply.revision = i
      BY <2>6, <3>1 DEF Reply, Replies, ReplyKinds, Answers
    <3> QED BY <1>1, <2>3, <2>4, <2>5, <2>6, <3>2 DEF Ending, Shaped
  <2>8. CASE sessions[s][i].digest # Digest(turn)
    <3>1. o.reply = Conflict("turn_id_reused", None)
      BY <2>2, <2>8 DEF Outcome
    <3>2. o.reply \in Replies /\ o.reply.kind = "turn_id_reused"
      BY <3>1 DEF Conflict, Reply, Replies, ReplyKinds
    <3> QED BY <1>1, <2>3, <3>2 DEF Ending, Shaped
  <2> QED BY <2>7, <2>8
<1>6. CASE /\ ~ (sessions[s] = None /\ turn.token # None) /\ Recorded(turn) = {}
           /\ Revision(s) # turn.expected /\ o \in Served(turn)
  <2>1. o = Outcome(Conflict("revision_conflict", Revision(s)), sessions[s], 0)
    BY <1>1, <1>6 DEF Served
  <2>2. o.reply = Conflict("revision_conflict", Revision(s)) /\ o.session = sessions[s]
    BY <2>1 DEF Outcome
  <2>3. /\ o.reply \in Replies /\ o.reply.kind = "revision_conflict"
        /\ o.reply.revision = Revision(s)
    BY <1>2, <2>2 DEF Conflict, Reply, Replies, ReplyKinds
  <2> QED BY <1>1, <1>2, <2>2, <2>3 DEF Ending, Shaped
<1>7. CASE /\ ~ (sessions[s] = None /\ turn.token # None) /\ Recorded(turn) = {}
           /\ Revision(s) = turn.expected /\ o \in Served(turn)
  <2>1. o \in Executed(turn)
    BY <1>1, <1>7 DEF Served
  <2>2. PICK after : after = Append(IF sessions[s] = None THEN <<>> ELSE sessions[s],
                                    [turn |-> turn.turn, digest |-> Digest(turn),
                                     version |-> archive])
    OBVIOUS
  <2>3. Recording(after, turn)
    BY <1>1, <1>7, <2>2, ExecutedRecords
  <2>4. \/ o = Outcome(Reply("committed", archive, s, Len(after)), after, 0)
        \/ \E session \in {sessions[s], after} :
             o = Outcome(Reply("uncommitted", archive, None, None), session, 1)
        \/ \E v \in {None, archive} :
             o = Outcome(Reply("unverified", v, None, None), sessions[s], 1)
    BY <1>1, <2>1, <2>2 DEF Executed
  <2>5. CASE o = Outcome(Reply("committed", archive, s, Len(after)), after, 0)
    <3>1. o.reply = Reply("committed", archive, s, Len(after)) /\ o.session = after
      BY <2>5 DEF Outcome
    <3>2. /\ after \in Seq(Entries) /\ Len(after) = Revision(s) + 1 /\ Len(after) \in 0..MaxTurns
          /\ after[Revision(s) + 1].turn = turn.turn
      BY <1>1, <2>3 DEF Recording
    <3>3. /\ o.reply \in Replies /\ o.reply.kind = "committed" /\ o.reply.token = s
          /\ o.reply.revision = Len(after)
      BY <1>2, <3>1, <3>2 DEF Reply, Replies, ReplyKinds, Answers
    <3>4. Len(after) \in 1..MaxTurns /\ Len(after) \in 1..Len(after)
      BY <1>2, <3>2
    <3>5. Shaped(o.reply)
      BY <3>3, <3>4 DEF Shaped
    <3> QED BY <1>1, <2>3, <3>1, <3>2, <3>3, <3>4, <3>5 DEF Ending
  <2>6. CASE \E session \in {sessions[s], after} :
               o = Outcome(Reply("uncommitted", archive, None, None), session, 1)
    <3>1. o.reply = Reply("uncommitted", archive, None, None) /\ o.session \in {sessions[s], after}
      BY <2>6 DEF Outcome
    <3>2. o.reply \in Replies /\ o.reply.kind = "uncommitted"
      BY <1>2, <3>1 DEF Reply, Replies, ReplyKinds, Answers
    <3> QED BY <1>1, <2>3, <3>1, <3>2 DEF Ending, Shaped
  <2>7. CASE \E v \in {None, archive} :
               o = Outcome(Reply("unverified", v, None, None), sessions[s], 1)
    <3>1. PICK v \in {None, archive} : o.reply = Reply("unverified", v, None, None)
                                       /\ o.session = sessions[s]
      BY <2>7 DEF Outcome
    <3>2. o.reply \in Replies /\ o.reply.kind = "unverified"
      BY <1>2, <3>1 DEF Reply, Replies, ReplyKinds, Answers
    <3> QED BY <1>1, <3>1, <3>2 DEF Ending, Shaped
  <2> QED BY <2>4, <2>5, <2>6, <2>7
<1> QED BY <1>3, <1>4, <1>5, <1>6, <1>7

\* What the sessions had they have, the turn perhaps at the end of its session.
LEMMA ServedGrows ==
  ASSUME WInv, NEW turn \in Turns, turn.turn <= drawn, NEW o, Ending(o, turn),
         sessions' = [sessions EXCEPT ![SessionOf(turn)] = o.session]
  PROVE  /\ sessions' \in [TurnIds -> Seq(Entries) \union {None}]
         /\ \A t \in TurnIds :
              /\ Revision(t) \in Nat /\ Revision(t)' \in Nat /\ Revision(t) <= Revision(t)'
              /\ Revision(t)' <= Revision(t) + 1
              /\ \A i \in 1..Revision(t) : sessions'[t][i] = sessions[t][i]
              /\ Revision(t)' = Revision(t) + 1 =>
                   /\ sessions'[t][Revision(t) + 1].turn = turn.turn
                   /\ \A i \in 1..Revision(t) : sessions[t][i].turn # turn.turn
         /\ o.reply.kind = "committed" =>
              /\ o.reply.token = SessionOf(turn)
              /\ o.reply.revision \in 1..Revision(SessionOf(turn))'
              /\ sessions'[SessionOf(turn)][o.reply.revision].turn = turn.turn
<1>1. PICK s \in TurnIds : s = SessionOf(turn)
  BY TurnTyped
<1>2. PICK e : e = o.session
  OBVIOUS
<1>3. /\ sessions \in [TurnIds -> Seq(Entries) \union {None}]
      /\ sessions' = [sessions EXCEPT ![s] = e]
  BY <1>1, <1>2 DEF WInv, TypeOK
<1>4. sessions'[s] = e /\ \A t \in TurnIds : t # s => sessions'[t] = sessions[t]
  BY <1>3
<1>5. e = sessions[s] \/ Recording(e, turn)
  BY <1>1, <1>2 DEF Ending
<1>6. sessions[s] \in Seq(Entries) \union {None} /\ (Recording(e, turn) => e \in Seq(Entries))
  BY <1>3 DEF Recording
<1>7. sessions' \in [TurnIds -> Seq(Entries) \union {None}]
  BY <1>3, <1>5, <1>6
<1>8. \A t \in TurnIds : Revision(t) \in Nat
  <2>1. 0..MaxTurns \subseteq Nat
    BY ConversationAssumption
  <2> QED BY <2>1, SessionTyped
<1>9. \A t \in TurnIds : sessions'[t] = sessions[t] => Revision(t)' = Revision(t)
  BY DEF Revision
<1>10. ASSUME Recording(e, turn)
       PROVE  /\ Revision(s)' = Revision(s) + 1
              /\ \A i \in 1..Revision(s) :
                   sessions'[s][i] = sessions[s][i] /\ sessions[s][i].turn # turn.turn
              /\ sessions'[s][Revision(s) + 1].turn = turn.turn
  <2>1. e # None
    BY <1>6, <1>10, UndefinedAssumption
  <2>2. /\ Len(e) = Revision(s) + 1 /\ e[Revision(s) + 1].turn = turn.turn
        /\ \A i \in 1..Revision(s) : e[i] = sessions[s][i] /\ e[i].turn # turn.turn
    BY <1>1, <1>10 DEF Recording
  <2>3. Revision(s)' = Len(e)
    BY <1>4, <2>1 DEF Revision
  <2> QED BY <1>4, <2>2, <2>3
<1>11. ASSUME NEW t \in TurnIds
       PROVE  /\ Revision(t) \in Nat /\ Revision(t)' \in Nat /\ Revision(t) <= Revision(t)'
              /\ Revision(t)' <= Revision(t) + 1
              /\ \A i \in 1..Revision(t) : sessions'[t][i] = sessions[t][i]
              /\ Revision(t)' = Revision(t) + 1 =>
                   /\ sessions'[t][Revision(t) + 1].turn = turn.turn
                   /\ \A i \in 1..Revision(t) : sessions[t][i].turn # turn.turn
  <2>1. CASE sessions'[t] = sessions[t]
    <3>1. Revision(t)' = Revision(t)
      BY <1>9, <2>1
    <3> QED BY <1>8, <2>1, <3>1
  <2>2. CASE sessions'[t] # sessions[t]
    <3>1. t = s /\ Recording(e, turn)
      BY <1>4, <1>5, <2>2
    <3> QED BY <1>8, <1>10, <3>1
  <2> QED BY <2>1, <2>2
<1>12. ASSUME o.reply.kind = "committed"
       PROVE  /\ o.reply.token = s /\ o.reply.revision \in 1..Revision(s)'
              /\ sessions'[s][o.reply.revision].turn = turn.turn
  <2>1. /\ e \in Seq(Entries) /\ o.reply.token = s
        /\ o.reply.revision \in 1..Len(e) /\ e[o.reply.revision].turn = turn.turn
    BY <1>1, <1>2, <1>12 DEF Ending
  <2>2. Revision(s)' = Len(e)
    BY <1>4, <2>1, UndefinedAssumption DEF Revision
  <2> QED BY <1>4, <2>1, <2>2
<1> QED BY <1>1, <1>7, <1>11, <1>12

\* The entries of the sessions after a request was served.
Grown(turn) ==
  \A t \in TurnIds :
    /\ Revision(t) \in Nat /\ Revision(t)' \in Nat /\ Revision(t) <= Revision(t)'
    /\ Revision(t)' <= Revision(t) + 1
    /\ \A i \in 1..Revision(t) : sessions'[t][i] = sessions[t][i]
    /\ Revision(t)' = Revision(t) + 1 =>
         /\ sessions'[t][Revision(t) + 1].turn = turn.turn
         /\ \A i \in 1..Revision(t) : sessions[t][i].turn # turn.turn

LEMMA GrownEntries ==
  ASSUME NEW turn, Grown(turn), NEW t \in TurnIds, NEW i \in 1..Revision(t)'
  PROVE  \/ i \in 1..Revision(t) /\ sessions'[t][i] = sessions[t][i]
         \/ /\ i = Revision(t) + 1 /\ sessions'[t][i].turn = turn.turn
            /\ \A j \in 1..Revision(t) : sessions[t][j].turn # turn.turn
<1>1. /\ Revision(t) \in Nat /\ Revision(t)' \in Nat /\ Revision(t) <= Revision(t)'
      /\ Revision(t)' <= Revision(t) + 1
      /\ \A j \in 1..Revision(t) : sessions'[t][j] = sessions[t][j]
      /\ Revision(t)' = Revision(t) + 1 =>
           /\ sessions'[t][Revision(t) + 1].turn = turn.turn
           /\ \A j \in 1..Revision(t) : sessions[t][j].turn # turn.turn
  BY DEF Grown
<1>2. CASE i \in 1..Revision(t)
  BY <1>1, <1>2
<1>3. CASE i \notin 1..Revision(t)
  <2>1. i = Revision(t) + 1 /\ Revision(t)' = Revision(t) + 1
    BY <1>1, <1>3
  <2> QED BY <1>1, <2>1
<1> QED BY <1>2, <1>3

LEMMA ServeStep ==
  ASSUME WInv, Serve PROVE WInv'
<1>0. chat' = chat /\ drawn' = drawn /\ query' = query /\ stored' = stored
      /\ fetching' = fetching /\ superseded' = superseded
      /\ archive' = archive /\ lost' = lost
  BY DEF Serve, browser
<1> DEFINE Step(r, o) ==
        /\ sessions' = [sessions EXCEPT ![SessionOf(r.turn)] = o.session]
        /\ replies' = replies \union
             { [request |-> q, reply |-> o.reply] : q \in {r} \intersect Awaiting }
        /\ wire' = wire \ {r}
<1>a. PICK r \in wire : \E o \in Served(r.turn) \union Faulty(r.turn) : Step(r, o)
  BY DEF Serve
<1>1. PICK o \in Served(r.turn) \union Faulty(r.turn) : Step(r, o)
  BY <1>a
<1>2. r \in Requests /\ r.turn \in Turns /\ r.turn.turn <= drawn
  BY DEF WInv, TypeOK, Requests, IdsDrawn
<1>3. PICK turn \in Turns : turn = r.turn
  BY <1>2
<1>4. Ending(o, turn)
  BY <1>3, Endings
<1>5. /\ sessions' \in [TurnIds -> Seq(Entries) \union {None}]
      /\ Grown(turn)
      /\ o.reply.kind = "committed" =>
           /\ o.reply.token = SessionOf(turn)
           /\ o.reply.revision \in 1..Revision(SessionOf(turn))'
           /\ sessions'[SessionOf(turn)][o.reply.revision].turn = turn.turn
  <2>1. turn.turn <= drawn /\ sessions' = [sessions EXCEPT ![SessionOf(turn)] = o.session]
    BY <1>1, <1>2, <1>3
  <2>2. Grown(turn)
    BY <1>4, <2>1, ServedGrows DEF Grown
  <2> QED BY <1>4, <2>1, <2>2, ServedGrows
<1>6. PICK x : x = [request |-> r, reply |-> o.reply]
  OBVIOUS
<1>7. /\ x.request = r /\ x.reply = o.reply /\ x \in [request : Requests, reply : Replies]
  BY <1>2, <1>4, <1>6 DEF Ending
<1>8. \A y \in replies' : y \in replies \/ (y = x /\ r \in Awaiting)
  BY <1>1, <1>6
<1>9. TypeOK'
  <2>1. replies' \subseteq [request : Requests, reply : Replies]
    BY <1>7, <1>8 DEF WInv, TypeOK
  <2>2. RestTyped'
    BY <1>0, <1>1, <1>5, <2>1 DEF WInv, TypeOK, RestTyped
  <2> QED BY <1>0, <2>2, TypedChat DEF WInv
<1>10. /\ MessagesInv' /\ ArchiveKnown' /\ RetryInSession' /\ UnansweredIsRetryable'
       /\ ActiveAnswersWereAskedHere' /\ OneArchivePerConversation'
       /\ ActiveAnswers' = ActiveAnswers /\ ShownRevisions' = ShownRevisions
  BY <1>0, ChatKept
<1>11. IdsDrawn'
  <2>1. \A q \in wire' : q.turn.turn <= drawn'
    BY <1>0, <1>1 DEF WInv, IdsDrawn
  <2>2. \A y \in replies' : y.request.turn.turn <= drawn'
    BY <1>0, <1>2, <1>7, <1>8 DEF WInv, IdsDrawn
  <2>3. ASSUME NEW t \in TurnIds, NEW i \in 1..Revision(t)' PROVE sessions'[t][i].turn <= drawn'
    <3>1. CASE i \in 1..Revision(t) /\ sessions'[t][i] = sessions[t][i]
      BY <1>0, <3>1 DEF WInv, IdsDrawn
    <3>2. CASE sessions'[t][i].turn = turn.turn
      BY <1>0, <1>2, <1>3, <3>2
    <3> QED BY <1>5, <2>3, <3>1, <3>2, GrownEntries
  <2> QED BY <1>0, <2>1, <2>2, <2>3 DEF WInv, IdsDrawn
<1>12. OneReplyDue'
  <2>1. IsFiniteSet(wire) /\ IsFiniteSet(replies)
    BY DEF WInv, OneReplyDue
  <2>2. IsFiniteSet(wire')
    BY <1>1, <2>1, FS_Subset
  <2>3. CASE r \notin Awaiting
    <3>1. replies' = replies
      BY <1>1, <2>3
    <3>2. Awaiting' = Awaiting
      BY <1>1, <2>3 DEF Awaiting
    <3> QED BY <1>0, <2>1, <2>2, <3>1, <3>2 DEF WInv, OneReplyDue, Awaited
  <2>4. CASE r \in Awaiting
    <3>1. replies' = replies \union {x}
      BY <1>1, <1>6, <2>4
    <3>2. IsFiniteSet(replies')
      BY <2>1, <3>1, FS_AddElement
    <3>3. /\ r.generation = chat.generation /\ chat.pending /\ r.turn = chat.retry
          /\ \A q \in Awaiting : q = r
      BY <2>4 DEF WInv, OneReplyDue
    <3>4. Awaiting' = {}
      BY <1>1, <3>3 DEF Awaiting
    <3>5. \A y \in replies : ~ Awaited(y)
      BY <2>4 DEF WInv, OneReplyDue
    <3>6. \A y \in replies' : Awaited(y)' => y = x
      BY <1>0, <3>1, <3>5 DEF Awaited
    <3>7. \A y \in replies' : Awaited(y)' => chat'.pending /\ y.request.turn = chat'.retry
      BY <1>0, <1>7, <3>3, <3>6
    <3>8. \A y, z \in replies' : Awaited(y)' /\ Awaited(z)' => y = z
      BY <3>6
    <3> QED BY <2>2, <3>2, <3>4, <3>7, <3>8 DEF OneReplyDue
  <2> QED BY <2>3, <2>4
<1>13. TurnsOnce'
  <2> SUFFICES ASSUME NEW t \in TurnIds, NEW i \in 1..Revision(t)', NEW j \in 1..Revision(t)',
                      sessions'[t][i].turn = sessions'[t][j].turn
               PROVE  i = j
    BY DEF TurnsOnce
  <2>1. \A k \in 1..Revision(t)' :
          \/ k \in 1..Revision(t) /\ sessions'[t][k] = sessions[t][k]
          \/ /\ k = Revision(t) + 1 /\ sessions'[t][k].turn = turn.turn
             /\ \A l \in 1..Revision(t) : sessions[t][l].turn # turn.turn
    BY <1>5, GrownEntries
  <2> QED BY <2>1 DEF WInv, TurnsOnce
<1>14. RepliesCommitted'
  <2> SUFFICES ASSUME NEW y \in replies'
               PROVE  /\ Shaped(y.reply)
                      /\ y.reply.kind = "committed" =>
                           /\ y.reply.token = SessionOf(y.request.turn)
                           /\ y.reply.token \notin lost' =>
                                /\ y.reply.revision \in 1..Revision(y.reply.token)'
                                /\ sessions'[y.reply.token][y.reply.revision].turn
                                     = y.request.turn.turn
    BY DEF RepliesCommitted, SessionOf
  <2>1. CASE y \in replies
    <3>1. /\ Shaped(y.reply)
          /\ y.reply.kind = "committed" =>
               /\ y.reply.token = SessionOf(y.request.turn)
               /\ y.reply.token \notin lost =>
                    /\ y.reply.revision \in 1..Revision(y.reply.token)
                    /\ sessions[y.reply.token][y.reply.revision].turn = y.request.turn.turn
      BY <2>1 DEF WInv, RepliesCommitted
    <3>2. y.reply.kind = "committed" => y.reply.token \in TurnIds
      BY <3>1 DEF Shaped
    <3>3. ASSUME NEW t \in TurnIds, NEW n \in 1..Revision(t)
          PROVE  n \in 1..Revision(t)' /\ sessions'[t][n] = sessions[t][n]
      BY <1>5 DEF Grown
    <3> QED BY <1>0, <3>1, <3>2, <3>3
  <2>2. CASE y = x
    BY <1>3, <1>4, <1>5, <1>7, <2>2 DEF Ending
  <2> QED BY <1>8, <2>1, <2>2
<1>b. PICK token : token = chat.token /\ token = chat'.token
  BY <1>0
<1>15. \A i \in ActiveAnswers : chat.messages[i].reply.kind = "committed" =>
         chat.token \in TurnIds
  <2>1. ASSUME NEW i \in ActiveAnswers, chat.messages[i].reply.kind = "committed"
        PROVE  chat.token \in TurnIds
    <3>1. i \in DOMAIN chat.messages /\ chat.messages[i].kind = "answer"
      BY ChatTyped DEF ActiveAnswers, WInv
    <3>2. chat.messages[i].reply.token \in TurnIds
      BY <2>1, <3>1 DEF WInv, MessagesInv, AnswersShaped, Shaped
    <3> QED BY <2>1, <3>2 DEF WInv, TranscriptIsTheSession
  <2> QED BY <2>1
<1>16. TranscriptIsTheSession'
  <2>1. ASSUME NEW t \in TurnIds, NEW n \in 1..Revision(t)
        PROVE  n \in 1..Revision(t)' /\ sessions'[t][n] = sessions[t][n]
    BY <1>5 DEF Grown
  <2>2. ASSUME NEW i \in ActiveAnswers, chat.messages[i].reply.kind = "committed",
               chat.token \notin lost
        PROVE  /\ chat.messages[i].reply.revision \in 1..Revision(token)'
               /\ sessions'[token][chat.messages[i].reply.revision].turn
                    = chat.messages[i].turn
    <3>1. /\ chat.messages[i].reply.revision \in 1..Revision(chat.token)
          /\ sessions[chat.token][chat.messages[i].reply.revision].turn = chat.messages[i].turn
      BY <2>2 DEF WInv, TranscriptIsTheSession
    <3> QED BY <1>b, <1>15, <2>1, <2>2, <3>1
  <2>3. Revision(chat.token)' = Revision(token)'
    BY <1>b DEF Revision
  <2> QED BY <1>0, <1>b, <1>10, <2>2, <2>3 DEF WInv, TranscriptIsTheSession
<1>17. ShownRevisions \in SUBSET Nat /\ \A n \in ShownRevisions :
         chat.token \in TurnIds \ lost => n \in 1..Revision(chat.token)
  <2>1. ASSUME NEW i \in ActiveAnswers, chat.messages[i].reply.kind = "committed"
        PROVE  /\ chat.messages[i].reply.revision \in Nat
               /\ chat.token \notin lost =>
                    chat.messages[i].reply.revision \in 1..Revision(chat.token)
    <3>1. i \in DOMAIN chat.messages /\ chat.messages[i].kind = "answer"
      BY ChatTyped DEF ActiveAnswers, WInv
    <3>2. chat.messages[i].reply.revision \in 1..MaxTurns /\ MaxTurns \in Nat
      BY <2>1, <3>1, ConversationAssumption DEF WInv, MessagesInv, AnswersShaped, Shaped
    <3> QED BY <2>1, <3>2 DEF WInv, TranscriptIsTheSession
  <2> QED BY <2>1 DEF ShownRevisions
<1>18. NothingShownAhead'
  <2> SUFFICES ASSUME chat.token \in TurnIds \ lost
               PROVE  /\ \A k \in 1..Revision(token)' :
                           chat.retry # None /\ sessions'[token][k].turn = chat.retry.turn
                             => \A n \in ShownRevisions : n < k
                      /\ \A y \in replies' :
                           Awaited(y)' /\ y.reply.kind = "revision_conflict"
                             => \A n \in ShownRevisions : n <= y.reply.revision
    BY <1>0, <1>b, <1>10 DEF NothingShownAhead, Revision
  <2>1. ASSUME NEW k \in 1..Revision(token)', chat.retry # None,
               sessions'[token][k].turn = chat.retry.turn, NEW n \in ShownRevisions
        PROVE  n < k
    <3>1. CASE k \in 1..Revision(token) /\ sessions'[token][k] = sessions[token][k]
      BY <1>b, <2>1, <3>1 DEF WInv, NothingShownAhead
    <3>2. CASE k = Revision(token) + 1
      <4>1. n \in 1..Revision(token) /\ Revision(token) \in Nat
        BY <1>b, <1>5, <1>17 DEF Grown
      <4> QED BY <3>2, <4>1
    <3> QED BY <1>b, <1>5, <2>1, <3>1, <3>2, GrownEntries
  <2>2. ASSUME NEW y \in replies', Awaited(y)', y.reply.kind = "revision_conflict",
               NEW n \in ShownRevisions
        PROVE  n <= y.reply.revision
    <3>1. CASE y \in replies
      BY <1>0, <2>2, <3>1 DEF WInv, NothingShownAhead, Awaited
    <3>2. CASE y = x /\ r \in Awaiting
      <4>1. turn = chat.retry /\ turn # None
        BY <1>3, <3>2, UndefinedAssumption DEF WInv, OneReplyDue
      <4>2. turn.token = chat.token /\ chat.token # None
        BY <4>1, ConversationAssumption DEF WInv, RetryInSession, TurnIds
      <4>3. SessionOf(turn) = chat.token
        BY <4>2 DEF SessionOf
      <4>4. y.reply.revision = Revision(chat.token)
        BY <1>4, <1>7, <2>2, <3>2, <4>3 DEF Ending
      <4>5. n \in 1..Revision(chat.token) /\ Revision(chat.token) \in Nat
        BY <1>5, <1>17 DEF Grown
      <4> QED BY <4>4, <4>5
    <3> QED BY <1>8, <3>1, <3>2
  <2> QED BY <2>1, <2>2
<1> QED BY <1>9, <1>10, <1>11, <1>12, <1>13, <1>14, <1>16, <1>18 DEF WInv

--------------------------------------------------------------------------------
(* Steps of the page.                                                         *)

LEMMA AbortedSilent ==
  ASSUME WInv, wire' = Aborted, drawn' = drawn
  PROVE  Silent' /\ wire' \subseteq Requests
<1>1. wire \subseteq Requests /\ IsFiniteSet(wire)
  BY DEF WInv, TypeOK, OneReplyDue
<1>2. /\ Aborted \subseteq Requests /\ IsFiniteSet(Aborted)
      /\ \A r \in Aborted : r.awaited = FALSE /\ \E q \in wire : r.turn = q.turn
  BY <1>1, AbortedIs
<1>3. \A r \in wire' : r.turn.turn <= drawn'
  BY <1>2 DEF WInv, IdsDrawn
<1>4. Awaiting' = {}
  BY <1>2 DEF Awaiting
<1> QED BY <1>2, <1>3, <1>4 DEF Silent

LEMMA NothingDue ==
  ASSUME IsFiniteSet(wire'), IsFiniteSet(replies'), Awaiting' = {},
         \A x \in replies' : Awaited(x)' => FALSE
  PROVE  OneReplyDue'
BY DEF OneReplyDue

\* A boundary that leaves the version is one that sets it to what it was.
LEMMA BoundedReopened ==
  ASSUME NEW c \in Chats, NEW retry
  PROVE  Bounded(c, retry) = Reopened(c, retry, NextGeneration, c.version)
<1>1. DOMAIN c = DOMAIN Fresh
  BY DEF Chats, Fresh
<1>2. PICK e, v : e = Closed(c, retry) /\ v = c.version
  OBVIOUS
<1>3. e.version = v
  BY <1>1, <1>2 DEF Closed, Fresh
<1>4. ASSUME NEW g, NEW d, d = [e EXCEPT !.generation = g]
      PROVE  [d EXCEPT !.version = v] = d
  BY <1>3, <1>4
<1> QED BY <1>2, <1>4 DEF Bounded, Reopened

LEMMA RetryTyped ==
  ASSUME WInv
  PROVE  /\ chat.retry \in Turns \union {None}
         /\ chat.retry # None => chat.retry.turn <= drawn /\ chat.retry.turn \in Nat
         /\ drawn \in Nat
<1>1. chat.retry \in Turns \union {None}
  BY ChatTyped DEF WInv
<1>2. drawn \in Nat
  BY ConversationAssumption DEF WInv, TypeOK
<1> QED BY <1>1, <1>2, TurnTyped DEF WInv, IdsDrawn

\* The question of the turn to repeat may be asked anew.
LEMMA RetryAnew ==
  ASSUME WInv, NEW c, c.messages = chat.messages
  PROVE  Anew(chat.retry) \in Turns \union {None} /\ Dividable(c, Anew(chat.retry))
<1>1. PICK t : t = Anew(chat.retry)
  OBVIOUS
<1>2. /\ t \in Turns \union {None} /\ (t = None <=> chat.retry = None)
      /\ t # None => /\ t.turn = chat.retry.turn /\ t.question = chat.retry.question
                     /\ t.token = None
  <2>1. CASE chat.retry = None
    BY <1>1, <2>1 DEF Anew
  <2>2. CASE chat.retry \in Turns
    BY <1>1, <2>2, AnewIs
  <2> QED BY <2>1, <2>2, RetryTyped
<1>3. Tidy(chat.messages, drawn, t)
  <2>1. Repeats(chat.messages, t)
    BY <1>2 DEF WInv, MessagesInv, Repeats
  <2> QED BY <2>1 DEF WInv, MessagesInv, Tidy
<1>4. \A i \in 1..Len(chat.messages) : Unanswered(chat.messages, i) =>
         t # None /\ t.question = chat.messages[i].question
  BY <1>2, RetryableIn DEF WInv
<1>5. t # None => t.turn <= drawn
  BY <1>2, RetryTyped
<1> QED BY <1>1, <1>2, <1>3, <1>4, <1>5 DEF Dividable

\* The revisions shown are those of committed answers.
LEMMA ShownIs ==
  ASSUME WInv, NEW i \in ActiveAnswers, chat.messages[i].reply.kind = "committed"
  PROVE  /\ i \in 1..Len(chat.messages) /\ i > chat.activeStart
         /\ chat.messages[i].reply.revision \in 1..MaxTurns
         /\ chat.messages[i].reply.revision \in Nat
         /\ chat.messages[i].reply.revision \in ShownRevisions
         /\ chat.messages[i].reply.token = chat.token /\ chat.token \in TurnIds
<1>1. i \in 1..Len(chat.messages) /\ i > chat.activeStart /\ i \in DOMAIN chat.messages
      /\ chat.messages[i].kind = "answer"
  BY ChatTyped DEF ActiveAnswers, WInv
<1>2. Shaped(chat.messages[i].reply)
  BY <1>1 DEF WInv, MessagesInv, AnswersShaped
<1>3. chat.messages[i].reply.token \in TurnIds
      /\ chat.messages[i].reply.revision \in 1..MaxTurns
  BY <1>2 DEF Shaped
<1>4. chat.messages[i].reply.token = chat.token
  BY DEF WInv, TranscriptIsTheSession
<1>5. MaxTurns \in Nat
  BY ConversationAssumption
<1>6. chat.messages[i].reply.revision \in ShownRevisions
  BY DEF ShownRevisions
<1> QED BY <1>1, <1>3, <1>4, <1>5, <1>6

\* What is shown and what is to be repeated, in a step that leaves the messages,
\* the session and the generation of the chat.
Unsaid ==
  /\ chat'.messages = chat.messages /\ chat'.activeStart = chat.activeStart
  /\ chat'.token = chat.token /\ chat'.generation = chat.generation
  /\ chat.version \in {None, chat'.version}
  /\ chat.token \in TurnIds \ lost => \A n \in ShownRevisions : n <= chat'.revision
  /\ chat.retry # None =>
       chat'.retry # None /\ chat'.retry.question = chat.retry.question
  /\ chat'.retry # None =>
       /\ chat.retry # None
       /\ chat'.retry.turn = chat.retry.turn
          \/ (chat'.retry.turn \in Nat /\ chat'.retry.turn > drawn)
  /\ drawn' \in Nat /\ drawn <= drawn'
  /\ sessions' = sessions /\ lost' = lost /\ replies' \subseteq replies

LEMMA UnsaidStep ==
  ASSUME WInv, Unsaid, TypeOK'
  PROVE  /\ MessagesInv' /\ UnansweredIsRetryable' /\ NothingShownAhead'
         /\ ActiveAnswersWereAskedHere' /\ OneArchivePerConversation'
         /\ TranscriptIsTheSession'
<1>0. /\ chat'.messages = chat.messages /\ chat'.activeStart = chat.activeStart
      /\ chat'.token = chat.token /\ chat'.generation = chat.generation
      /\ chat.version \in {None, chat'.version}
      /\ sessions' = sessions /\ lost' = lost /\ replies' \subseteq replies
      /\ drawn' \in Nat /\ drawn <= drawn' /\ drawn \in Nat
  BY RetryTyped DEF Unsaid
<1>1. ActiveAnswers' = ActiveAnswers
  BY <1>0 DEF ActiveAnswers
<1>2. ShownRevisions' = ShownRevisions
  BY <1>0, <1>1 DEF ShownRevisions
<1>3. ActiveAnswersWereAskedHere'
  BY <1>0, <1>1 DEF WInv, ActiveAnswersWereAskedHere
<1>4. OneArchivePerConversation'
  <2>1. CASE chat.version = None
    <3>1. chat.messages = <<>>
      BY <2>1 DEF WInv, ArchiveKnown
    <3>2. ActiveAnswers = {}
      BY <3>1, ChatTyped DEF ActiveAnswers, WInv
    <3> QED BY <1>1, <3>2 DEF OneArchivePerConversation
  <2>2. CASE chat.version = chat'.version
    BY <1>0, <1>1, <2>2 DEF WInv, OneArchivePerConversation
  <2> QED BY <1>0, <2>1, <2>2
<1>5. TranscriptIsTheSession'
  <2>1. ASSUME NEW i \in ActiveAnswers, chat.messages[i].reply.kind = "committed",
               chat.token \notin lost
        PROVE  chat.messages[i].reply.revision <= chat'.revision
    BY <2>1, ShownIs DEF Unsaid
  <2> QED BY <1>0, <1>1, <2>1 DEF WInv, TranscriptIsTheSession, Revision
<1>6. MessagesInv'
  <2>1. \A i \in DOMAIN chat.messages : chat.messages[i].kind = "question" =>
          chat.messages[i].turn \in Nat
    <3>1. \A i \in DOMAIN chat.messages : chat.messages[i] \in Messages
      BY ChatTyped DEF WInv
    <3> QED BY <3>1, MessageKinds, ConversationAssumption DEF TurnIds
  <2>2. QuestionsDrawn(chat.messages, drawn')
    BY <1>0, <2>1 DEF WInv, MessagesInv, QuestionsDrawn
  <2>3. Repeats(chat.messages, chat'.retry)
    <3> SUFFICES ASSUME NEW i \in DOMAIN chat.messages, chat.messages[i].kind = "question",
                        chat'.retry # None, chat'.retry.turn = chat.messages[i].turn
                 PROVE  chat'.retry.question = chat.messages[i].question
      BY DEF Repeats
    <3>1. chat.messages[i].turn <= drawn /\ chat.messages[i].turn \in Nat
      BY <2>1 DEF WInv, MessagesInv, QuestionsDrawn
    <3>2. chat'.retry.turn = chat.retry.turn /\ chat.retry # None
          /\ chat'.retry.question = chat.retry.question
      BY <1>0, <3>1 DEF Unsaid
    <3> QED BY <3>2 DEF WInv, MessagesInv, Repeats
  <2> QED BY <1>0, <2>2, <2>3 DEF WInv, MessagesInv
<1>7. UnansweredIsRetryable'
  BY <1>0 DEF WInv, UnansweredIsRetryable, Unsaid
<1>8. NothingShownAhead'
  <2> SUFFICES ASSUME chat.token \in TurnIds \ lost
               PROVE  /\ \A k \in 1..Revision(chat.token) :
                           chat'.retry # None /\ sessions[chat.token][k].turn = chat'.retry.turn
                             => \A n \in ShownRevisions : n < k
                      /\ \A x \in replies :
                           Awaited(x) /\ x.reply.kind = "revision_conflict"
                             => \A n \in ShownRevisions : n <= x.reply.revision
    BY <1>0, <1>2 DEF NothingShownAhead, Revision, Awaited
  <2>1. ASSUME NEW k \in 1..Revision(chat.token), chat'.retry # None,
               sessions[chat.token][k].turn = chat'.retry.turn
        PROVE  chat.retry # None /\ sessions[chat.token][k].turn = chat.retry.turn
    <3>1. sessions[chat.token][k].turn <= drawn
      BY <2>1 DEF WInv, IdsDrawn
    <3>2. ~ (chat'.retry.turn \in Nat /\ chat'.retry.turn > drawn)
      BY <1>0, <2>1, <3>1
    <3> QED BY <2>1, <3>2 DEF Unsaid
  <2> QED BY <2>1 DEF WInv, NothingShownAhead
<1> QED BY <1>3, <1>4, <1>5, <1>6, <1>7, <1>8

\* A request goes out when no reply is due: it is the only one awaited.
LEMMA RequestSent ==
  ASSUME WInv, ~ chat.pending, NEW t \in Turns, NEW g \in Nat,
         wire' = Aborted \union {[turn |-> t, generation |-> g, awaited |-> TRUE]},
         replies' = replies, drawn' \in Nat, drawn <= drawn', t.turn <= drawn',
         chat'.retry = t, chat'.pending = TRUE, chat'.generation = g,
         \A x \in replies : x.request.generation # g
  PROVE  OneReplyDue' /\ wire' \subseteq Requests /\ \A r \in wire' : r.turn.turn <= drawn'
<1>1. wire \subseteq Requests /\ IsFiniteSet(wire) /\ IsFiniteSet(replies)
  BY DEF WInv, TypeOK, OneReplyDue
<1>2. /\ Aborted \subseteq Requests /\ IsFiniteSet(Aborted)
      /\ \A r \in Aborted : r.awaited = FALSE /\ \E q \in wire : r.turn = q.turn
  BY <1>1, AbortedIs
<1>3. PICK sent : sent = [turn |-> t, generation |-> g, awaited |-> TRUE]
  OBVIOUS
<1>4. sent \in Requests /\ sent.turn = t /\ sent.generation = g /\ sent.awaited = TRUE
  BY <1>3 DEF Requests
<1>5. IsFiniteSet(wire') /\ wire' = Aborted \union {sent}
  BY <1>2, <1>3, FS_AddElement
<1>6. Awaiting' = {sent}
  BY <1>2, <1>4, <1>5 DEF Awaiting
<1>7. \A x \in replies' : Awaited(x)' => FALSE
  BY DEF Awaited
<1>8. OneReplyDue'
  BY <1>1, <1>4, <1>5, <1>6, <1>7 DEF OneReplyDue
<1>9. ASSUME NEW r \in wire' PROVE r.turn.turn <= drawn'
  <2>1. CASE r = sent
    BY <1>4, <2>1
  <2>2. CASE r \in Aborted
    <3>1. PICK q \in wire : r.turn = q.turn
      BY <1>2, <2>2
    <3>2. q.turn.turn <= drawn /\ q.turn \in Turns
      BY <1>1 DEF WInv, IdsDrawn, Requests
    <3>3. q.turn.turn \in Nat /\ drawn \in Nat
      BY <3>2, TurnTyped, RetryTyped
    <3> QED BY <3>1, <3>2, <3>3
  <2> QED BY <1>5, <2>1, <2>2
<1> QED BY <1>2, <1>4, <1>5, <1>8, <1>9

\* The sessions and their parts of the invariant, while the page acts.
LEMMA PageIds ==
  ASSUME WInv, sessions' = sessions, lost' = lost, replies' \subseteq replies,
         drawn' \in Nat, drawn <= drawn', \A r \in wire' : r.turn.turn <= drawn',
         chat'.retry # None => chat'.retry.turn <= drawn'
  PROVE  IdsDrawn' /\ TurnsOnce' /\ RepliesCommitted' /\ IsFiniteSet(replies')
BY SessionsKept DEF IdsDrawn

LEMMA FinishCheckStep ==
  ASSUME WInv, FinishCheck PROVE WInv'
<1>1. /\ drawn' = drawn /\ replies' = replies /\ archive' = archive
      /\ sessions' = sessions /\ lost' = lost
  BY DEF FinishCheck, server
<1>2. PICK v \in Versions : /\ ApplyVersion(v) /\ query' \in {"empty", "success", "failed"}
                            /\ fetching' \in Versions \union {None}
                            /\ superseded' \subseteq Versions
  BY DEF FinishCheck, WInv, TypeOK
<1>3. v # None
  BY ConversationAssumption DEF Versions
<1>4. drawn \in Nat /\ drawn <= drawn'
  BY <1>1, RetryTyped
<1>5. chat \in Chats
  BY DEF WInv, TypeOK
<1>6. CASE chat.version \in {None, v}
  <2>1. chat' = [chat EXCEPT !.version = v] /\ stored' = TRUE /\ wire' = wire
    BY <1>2, <1>6 DEF ApplyVersion, Change
  <2>2. /\ chat' \in Chats /\ chat'.version = v /\ chat'.messages = chat.messages
        /\ chat'.activeStart = chat.activeStart /\ chat'.token = chat.token
        /\ chat'.revision = chat.revision /\ chat'.retry = chat.retry
        /\ chat'.pending = chat.pending /\ chat'.generation = chat.generation
    BY <1>5, <2>1 DEF Chats
  <2>3. TypeOK'
    <3>1. RestTyped'
      BY <1>1, <1>2, <2>1 DEF WInv, TypeOK, RestTyped
    <3> QED BY <2>2, <3>1, TypePartsAfter DEF WInv, TypeOK
  <2>4. chat.token \in TurnIds \ lost => \A n \in ShownRevisions : n <= chat.revision
    BY DEF WInv, TranscriptIsTheSession, ShownRevisions
  <2>5. Unsaid
    BY <1>1, <1>4, <1>6, <2>2, <2>4 DEF Unsaid
  <2>6. IdsDrawn' /\ TurnsOnce' /\ RepliesCommitted'
    BY <1>1, <1>4, <2>1, <2>2, PageIds DEF WInv, IdsDrawn
  <2>7. OneReplyDue'
    BY <1>1, <2>1, <2>2 DEF WInv, OneReplyDue, Awaiting, Awaited
  <2>8. ArchiveKnown' /\ RetryInSession'
    BY <1>3, <2>2 DEF WInv, ArchiveKnown, RetryInSession
  <2> QED BY <2>3, <2>5, <2>6, <2>7, <2>8, UnsaidStep DEF WInv
<1>7. CASE chat.version \notin {None, v}
  <2>1. /\ chat' = Reopened(chat, Anew(chat.retry), NextGeneration, v)
        /\ stored' = TRUE /\ wire' = Aborted
    BY <1>2, <1>7 DEF ApplyVersion, Change, Bounded, Reopened
  <2>2. Silent' /\ wire' \subseteq Requests
    BY <1>1, <2>1, AbortedSilent
  <2>3. RestTyped'
    BY <1>1, <1>2, <2>1, <2>2 DEF WInv, TypeOK, RestTyped
  <2>4. Anew(chat.retry) \in Turns \union {None} /\ Dividable(chat, Anew(chat.retry))
    BY RetryAnew
  <2>5. replies' \subseteq replies
    BY <1>1
  <2> QED BY <1>1, <1>5, <2>1, <2>2, <2>3, <2>4, <2>5, BoundaryStep
<1> QED BY <1>6, <1>7

LEMMA RetryStep ==
  ASSUME WInv, Retry PROVE WInv'
<1>1. /\ query' = query /\ fetching' = fetching /\ superseded' = superseded
      /\ drawn' = drawn /\ replies' = replies /\ archive' = archive
      /\ sessions' = sessions /\ lost' = lost
  BY DEF Retry, server
<1>2. PICK t \in Turns : t = chat.retry
  BY RetryTyped DEF Retry
<1>3. PICK g \in Nat : g = chat.generation
  BY ChatTyped DEF WInv
<1>4. /\ query = "success" /\ ~ chat.pending /\ chat.retry # None
      /\ chat' = [chat EXCEPT !.retry = t, !.pending = TRUE] /\ stored' = TRUE
      /\ wire' = Aborted \union {[turn |-> t, generation |-> g, awaited |-> TRUE]}
  BY <1>2, <1>3 DEF Retry, MaySubmit, Send, Change
<1>5. chat \in Chats
  BY DEF WInv, TypeOK
<1>6. /\ chat' \in Chats /\ chat'.version = chat.version /\ chat'.messages = chat.messages
      /\ chat'.activeStart = chat.activeStart /\ chat'.token = chat.token
      /\ chat'.revision = chat.revision /\ chat'.retry = t
      /\ chat'.pending = TRUE /\ chat'.generation = g
  BY <1>3, <1>4, <1>5 DEF Chats
<1>7. drawn \in Nat /\ drawn <= drawn' /\ t.turn <= drawn' /\ t # None
  BY <1>1, <1>2, <1>4, RetryTyped
<1>8. \A x \in replies : x.request.generation # g
  BY <1>3, <1>4 DEF WInv, OneReplyDue, Awaited
<1>9. OneReplyDue' /\ wire' \subseteq Requests /\ \A r \in wire' : r.turn.turn <= drawn'
  BY <1>1, <1>4, <1>6, <1>7, <1>8, RequestSent
<1>10. TypeOK'
  <2>1. RestTyped'
    BY <1>1, <1>4, <1>9 DEF WInv, TypeOK, RestTyped
  <2> QED BY <1>6, <1>7, <2>1, TypePartsAfter DEF WInv, TypeOK
<1>11. chat.token \in TurnIds \ lost => \A n \in ShownRevisions : n <= chat.revision
  BY DEF WInv, TranscriptIsTheSession, ShownRevisions
<1>12. Unsaid
  BY <1>1, <1>2, <1>3, <1>4, <1>6, <1>7, <1>11 DEF Unsaid
<1>13. IdsDrawn' /\ TurnsOnce' /\ RepliesCommitted'
  BY <1>1, <1>6, <1>7, <1>9, PageIds
<1>14. ArchiveKnown' /\ RetryInSession'
  BY <1>1, <1>2, <1>4, <1>6 DEF WInv, ArchiveKnown, RetryInSession
<1> QED BY <1>9, <1>10, <1>12, <1>13, <1>14, UnsaidStep DEF WInv

\* A chat without messages.
Empty(g, v) ==
  [messages |-> <<>>, activeStart |-> 0, version |-> v, token |-> None, revision |-> 0,
   expiring |-> FALSE, retry |-> None, pending |-> FALSE, generation |-> g]

LEMMA EmptyChat ==
  ASSUME WInv, NEW g \in Nat, NEW v \in Versions \union {None},
         chat' = Empty(g, v), RestTyped', Silent', drawn' = drawn, sessions' = sessions, lost' = lost,
         replies' \subseteq replies, \A x \in replies' : x.request.generation # g,
         v = None => query' # "success"
  PROVE  WInv'
<1>1. /\ chat'.messages = <<>> /\ chat'.activeStart = 0 /\ chat'.version = v
      /\ chat'.retry = None /\ chat'.pending = FALSE /\ chat'.expiring = FALSE
      /\ chat'.generation = g
  BY DEF Empty
<1>2. <<>> \in Seq(Messages) /\ 0 \in Nat /\ None \in TurnIds \union {None}
      /\ 0 \in 0..MaxTurns /\ FALSE \in BOOLEAN /\ None \in Turns \union {None}
  BY ConversationAssumption
<1>3. chat' \in Chats
  BY <1>2, ChatOfFields, Zenon DEF Empty
<1>4. TypeOK'
  BY <1>1, <1>3, TypePartsAfter
<1>5. MessagesInv'
  BY <1>1 DEF MessagesInv, AnswersShaped, OneAnswerPerTurn, QuestionsDrawn, Repeats
<1>6. UnansweredIsRetryable'
  BY <1>1 DEF UnansweredIsRetryable
<1>7. drawn \in Nat /\ drawn <= drawn' /\ \A r \in wire' : r.turn.turn <= drawn'
  BY RetryTyped DEF Silent
<1>8. IdsDrawn' /\ TurnsOnce' /\ RepliesCommitted' /\ IsFiniteSet(replies')
  BY <1>1, <1>7, PageIds
<1>9. \A x \in replies' : Awaited(x)' => FALSE
  BY <1>1 DEF Awaited
<1>10. OneReplyDue'
  BY <1>8, <1>9, NothingDue DEF Silent
<1>11. ArchiveKnown' /\ RetryInSession'
  BY <1>1 DEF ArchiveKnown, RetryInSession
<1>12. ActiveAnswers' = {}
  BY <1>1 DEF ActiveAnswers
<1>13. /\ ActiveAnswersWereAskedHere' /\ OneArchivePerConversation'
       /\ TranscriptIsTheSession' /\ NothingShownAhead'
  BY <1>4, <1>9, <1>12, NothingShown
<1> QED BY <1>4, <1>5, <1>6, <1>8, <1>10, <1>11, <1>13 DEF WInv

LEMMA NewChatStep ==
  ASSUME WInv, NewChat PROVE WInv'
<1>1. /\ query' = query /\ fetching' = fetching /\ superseded' = superseded
      /\ drawn' = drawn /\ replies' = replies /\ archive' = archive
      /\ sessions' = sessions /\ lost' = lost /\ stored' = FALSE /\ wire' = Aborted
      /\ chat' = [Fresh EXCEPT !.version = chat.version, !.generation = NextGeneration]
  BY DEF NewChat, server
<1>2. PICK g \in Nat : /\ g = NextGeneration
                       /\ \A x \in replies : g # x.request.generation
  BY NextGenerationFree DEF WInv, OneReplyDue
<1>3. PICK v \in Versions \union {None} : v = chat.version
  BY ChatTyped DEF WInv
<1>4. Silent' /\ wire' \subseteq Requests
  BY <1>1, AbortedSilent
<1>5. RestTyped'
  BY <1>1, <1>4 DEF WInv, TypeOK, RestTyped
<1>6. v = None => query' # "success"
  BY <1>1, <1>3 DEF WInv, ArchiveKnown
<1>7. chat' = Empty(g, v)
  BY <1>1, <1>2, <1>3 DEF Fresh, Empty
<1>8. replies' \subseteq replies /\ \A x \in replies' : x.request.generation # g
  BY <1>1, <1>2
<1> QED BY <1>1, <1>4, <1>5, <1>6, <1>7, <1>8, EmptyChat

LEMMA ReloadStep ==
  ASSUME WInv, Reload PROVE WInv'
<1>1. /\ query' = "empty" /\ fetching' = None /\ superseded' = {} /\ replies' = {}
      /\ wire' = Aborted /\ drawn' = drawn /\ archive' = archive
      /\ sessions' = sessions /\ lost' = lost
  BY DEF Reload, server
<1>2. Silent' /\ wire' \subseteq Requests
  BY <1>1, AbortedSilent
<1>3. ASSUME stored' \in BOOLEAN PROVE RestTyped'
  BY <1>1, <1>2, <1>3 DEF WInv, TypeOK, RestTyped
<1>4. chat \in Chats /\ stored \in BOOLEAN
  BY DEF WInv, TypeOK
<1>5. drawn \in Nat /\ drawn <= drawn' /\ replies' \subseteq replies
      /\ \A r \in wire' : r.turn.turn <= drawn'
  BY <1>1, <1>2, RetryTyped DEF Silent
<1>6. CASE chat' = Fresh /\ stored' = stored
  <2>1. chat' = Empty(0, None)
    BY <1>6 DEF Fresh, Empty
  <2>2. RestTyped'
    BY <1>3, <1>4, <1>6
  <2> QED BY <1>1, <1>2, <1>5, <2>1, <2>2, EmptyChat
<1>7. CASE chat' = [chat EXCEPT !.pending = FALSE] /\ stored' = stored
  <2>1. /\ chat' \in Chats /\ chat'.version = chat.version /\ chat'.messages = chat.messages
        /\ chat'.activeStart = chat.activeStart /\ chat'.token = chat.token
        /\ chat'.revision = chat.revision /\ chat'.retry = chat.retry
        /\ chat'.pending = FALSE /\ chat'.generation = chat.generation
        /\ chat'.expiring = chat.expiring
    BY <1>4, <1>7 DEF Chats
  <2>2. TypeOK'
    BY <1>3, <1>4, <1>7, <2>1, TypePartsAfter DEF WInv, TypeOK
  <2>3. chat.token \in TurnIds \ lost => \A n \in ShownRevisions : n <= chat.revision
    BY DEF WInv, TranscriptIsTheSession, ShownRevisions
  <2>4. Unsaid
    BY <1>1, <1>5, <2>1, <2>3 DEF Unsaid
  <2>5. IdsDrawn' /\ TurnsOnce' /\ RepliesCommitted'
    BY <1>1, <1>5, <2>1, PageIds, RetryTyped
  <2>6. OneReplyDue'
    <3>1. IsFiniteSet(replies')
      BY <1>1, FS_EmptySet
    <3> QED BY <1>1, <1>2, <3>1, NothingDue DEF Silent
  <2>7. ArchiveKnown' /\ RetryInSession'
    BY <1>1, <2>1 DEF WInv, ArchiveKnown, RetryInSession
  <2> QED BY <2>2, <2>4, <2>5, <2>6, <2>7, UnsaidStep DEF WInv
<1>8. CASE /\ chat.expiring /\ stored' = TRUE
           /\ chat' = Bounded([chat EXCEPT !.pending = FALSE], Anew(chat.retry))
  <2>1. PICK c : c = [chat EXCEPT !.pending = FALSE]
    OBVIOUS
  <2>2. c \in Chats /\ c.messages = chat.messages /\ c.version = chat.version
    BY <1>4, <2>1 DEF Chats
  <2>3. PICK v \in Versions : v = chat.version
    BY <1>8, ChatTyped DEF WInv, ArchiveKnown
  <2>4. PICK t \in Turns \union {None} : t = Anew(chat.retry) /\ Dividable(c, t)
    BY <2>2, RetryAnew
  <2>5. chat' = Reopened(c, t, NextGeneration, v)
    BY <1>8, <2>1, <2>2, <2>3, <2>4, BoundedReopened
  <2>6. RestTyped'
    BY <1>3, <1>8
  <2> QED BY <1>1, <1>2, <1>5, <2>2, <2>4, <2>5, <2>6, BoundaryStep
<1> QED BY <1>6, <1>7, <1>8 DEF Reload, Change

\* What is said is a context of a request.
LEMMA ContextTyped ==
  ASSUME NEW c \in Chats
  PROVE  Context(c) \in Contexts
<1>1. c.messages \in Seq(Messages) /\ c.activeStart \in Nat
  BY DEF Chats
<1>2. PICK active \in Seq(Messages) : active = Active(c)
  <2>1. \A i \in (c.activeStart + 1)..Len(c.messages) : c.messages[i] \in Messages
    BY <1>1
  <2>2. Active(c) \in Seq(Messages)
    BY <1>1, <2>1 DEF Active
  <2> QED BY <2>2
<1>3. PICK S : S = { m \in ToSet(active) : m.kind # "boundary" }
  OBVIOUS
<1>4. PICK said \in Seq(Messages) : said = Kept(active, S)
  BY KeptPlaced
<1>5. PICK f : Placed(f, said, active, Len(active), S)
  BY <1>4, KeptPlaced
<1>6. \A i \in 1..Len(said) : said[i] \in Messages /\ said[i].kind # "boundary"
  BY <1>3, <1>4, <1>5 DEF Placed
<1>7. \A i \in 1..Len(said) : <<said[i].kind, said[i].turn>> \in {"question", "answer"} \X TurnIds
  BY <1>6, MessageKinds
<1>8. Context(c) = [i \in 1..Len(said) |-> <<said[i].kind, said[i].turn>>]
  BY <1>2, <1>3, <1>4 DEF Context
<1> QED BY <1>7, <1>8 DEF Contexts

\* The conversation a new question is asked in: the chat's, or an empty one.
LEMMA CurrentIs ==
  ASSUME WInv, ~ chat.pending, chat.version # None, NEW c \in Current
  PROVE  /\ c \in Chats /\ c.activeStart <= Len(c.messages) /\ c.version = chat.version
         /\ Tidy(c.messages, drawn, None)
         /\ \A x \in replies : x.request.generation # c.generation
         /\ c = chat \/ c.activeStart = Len(c.messages)
<1>1. chat \in Chats /\ chat.activeStart <= Len(chat.messages)
  BY DEF WInv, TypeOK
<1>2. Tidy(chat.messages, drawn, None)
  BY DEF WInv, MessagesInv, Tidy, Repeats
<1>3. CASE c = chat
  BY <1>1, <1>2, <1>3 DEF WInv, OneReplyDue, Awaited
<1>4. CASE c = Bounded(chat, None)
  <2>1. PICK v \in Versions \union {None} : v = chat.version
    BY ChatTyped DEF WInv
  <2>2. PICK g \in Nat : g = NextGeneration /\ \A x \in replies : g # x.request.generation
    BY NextGenerationFree DEF WInv, OneReplyDue
  <2>3. c = Reopened(chat, None, g, v)
    BY <1>1, <1>4, <2>1, <2>2, BoundedReopened
  <2>4. None \in Turns \union {None}
    OBVIOUS
  <2>5. Behind(c, chat, None, g, v)
    BY <1>1, <2>3, <2>4, BoundedIs, Zenon
  <2>6. /\ c \in Chats /\ c.activeStart <= Len(c.messages) /\ c.version = v /\ c.generation = g
        /\ Divided(chat.messages, c.messages, c.activeStart, None)
    BY <2>5 DEF Behind
  <2>7. Tidy(c.messages, drawn, None)
    BY <1>2, <2>6 DEF Divided
  <2>8. c.activeStart = Len(c.messages)
    <3>1. c.activeStart \in Nat /\ Len(c.messages) \in Nat
      BY <2>6 DEF Chats
    <3>2. ASSUME c.activeStart < Len(c.messages) PROVE FALSE
      <4>1. Len(c.messages) \in (c.activeStart + 1)..Len(c.messages)
        BY <3>1, <3>2
      <4> QED BY <2>6, <4>1 DEF Divided
    <3> QED BY <2>6, <3>1, <3>2
  <2> QED BY <2>1, <2>2, <2>6, <2>7, <2>8
<1> QED BY <1>3, <1>4 DEF Current

LEMMA AskStep ==
  ASSUME WInv, Ask PROVE WInv'
<1>1. /\ query' = query /\ fetching' = fetching /\ superseded' = superseded
      /\ replies' = replies /\ archive' = archive
      /\ sessions' = sessions /\ lost' = lost
      /\ query = "success" /\ ~ chat.pending /\ drawn < MaxTurns /\ drawn' = drawn + 1
  BY DEF Ask, MaySubmit, server
<1>2. PICK d : d = drawn + 1
  OBVIOUS
<1>3. drawn \in Nat /\ MaxTurns \in Nat /\ d \in Nat /\ drawn < d /\ d \in 0..MaxTurns
      /\ d \in TurnIds /\ drawn' = d
  BY <1>1, <1>2, RetryTyped, ConversationAssumption DEF TurnIds
<1>4. chat.version # None
  BY <1>1 DEF WInv, ArchiveKnown
<1> DEFINE turnIn(c) == [turn |-> d, question |-> d, context |-> Context(c),
                         expected |-> c.revision, token |-> c.token]
           asked == Message("question", d, d, None, None)
<1>5. PICK c \in Current : Send([c EXCEPT !.messages = Append(@, asked)], turnIn(c))
  BY <1>1, <1>2 DEF Ask
<1>6. /\ c \in Chats /\ c.activeStart <= Len(c.messages) /\ c.version = chat.version
      /\ Tidy(c.messages, drawn, None)
      /\ \A x \in replies : x.request.generation # c.generation
      /\ c = chat \/ c.activeStart = Len(c.messages)
  BY <1>1, <1>4, CurrentIs
<1>7. PICK turn : turn = turnIn(c)
  OBVIOUS
<1>8. /\ turn \in Turns /\ turn.turn = d /\ turn.question = d /\ turn.token = c.token
      /\ turn # None
  <2>1. c.revision \in 0..MaxTurns /\ c.token \in TurnIds \union {None} /\ Context(c) \in Contexts
    BY <1>6, ContextTyped DEF Chats
  <2> QED BY <1>3, <1>7, <2>1, UndefinedAssumption DEF Turns
<1>9. PICK q : q = asked
  OBVIOUS
<1>10. /\ q \in Messages /\ q.kind = "question" /\ q.turn = d /\ q.question = d
  BY <1>3, <1>9 DEF Messages, Message
<1>11. PICK n \in Nat : n = Len(c.messages)
  BY <1>6 DEF Chats
<1>12. PICK b : b = Append(c.messages, q)
  OBVIOUS
<1>13. /\ b \in Seq(Messages) /\ Len(b) = n + 1 /\ b[n + 1] = q /\ DOMAIN b = 1..(n + 1)
       /\ DOMAIN c.messages = 1..n /\ \A i \in 1..n : b[i] = c.messages[i]
  BY <1>6, <1>10, <1>11, <1>12 DEF Chats
<1>14. /\ chat' = [c EXCEPT !.messages = b, !.retry = turn, !.pending = TRUE]
       /\ stored' = TRUE
       /\ wire' = Aborted \union {[turn |-> turn, generation |-> c.generation, awaited |-> TRUE]}
  <2>1. /\ Send([c EXCEPT !.messages = b], turn)
    BY <1>5, <1>7, <1>9, <1>12
  <2> QED BY <1>6, <2>1 DEF Send, Change, Chats
<1>15. /\ chat' \in Chats /\ chat'.messages = b /\ chat'.activeStart = c.activeStart
       /\ chat'.version = chat.version /\ chat'.token = c.token /\ chat'.revision = c.revision
       /\ chat'.retry = turn /\ chat'.pending = TRUE /\ chat'.generation = c.generation
  BY <1>6, <1>8, <1>13, <1>14 DEF Chats
<1>16. c.generation \in Nat /\ c.activeStart \in Nat
  BY <1>6 DEF Chats
<1>17. OneReplyDue' /\ wire' \subseteq Requests /\ \A r \in wire' : r.turn.turn <= drawn'
  BY <1>1, <1>3, <1>6, <1>8, <1>14, <1>15, <1>16, RequestSent
<1>18. TypeOK'
  <2>1. RestTyped'
    BY <1>1, <1>3, <1>14, <1>17 DEF WInv, TypeOK, RestTyped
  <2>2. chat'.activeStart <= Len(chat'.messages)
    BY <1>6, <1>11, <1>13, <1>15, <1>16
  <2> QED BY <1>8, <1>15, <2>1, <2>2, TypePartsAfter
<1>19. IdsDrawn' /\ TurnsOnce' /\ RepliesCommitted'
  BY <1>1, <1>3, <1>8, <1>15, <1>17, PageIds
<1>20. ArchiveKnown' /\ RetryInSession'
  BY <1>4, <1>8, <1>15 DEF ArchiveKnown, RetryInSession
<1>21. \A i \in 1..(n + 1) : i = n + 1 \/ i \in 1..n
  OBVIOUS
<1>22. MessagesInv'
  <2>1. AnswersShaped(b)
    BY <1>6, <1>10, <1>13, <1>21 DEF Tidy, AnswersShaped
  <2>2. OneAnswerPerTurn(b)
    BY <1>6, <1>10, <1>13, <1>21 DEF Tidy, OneAnswerPerTurn
  <2>3. ASSUME NEW i \in 1..(n + 1), b[i].kind = "question"
        PROVE  b[i].turn <= d /\ (b[i].turn = d => b[i].question = d)
    <3>1. CASE i = n + 1
      BY <1>3, <1>10, <1>13, <3>1
    <3>2. CASE i \in 1..n
      <4>1. b[i] \in Messages /\ b[i].turn <= drawn
        BY <1>6, <1>13, <2>3, <3>2 DEF Tidy, QuestionsDrawn
      <4>2. b[i].turn \in Nat
        BY <2>3, <4>1, MessageKinds, ConversationAssumption DEF TurnIds
      <4> QED BY <1>3, <4>1, <4>2
    <3> QED BY <1>21, <3>1, <3>2
  <2>4. QuestionsDrawn(b, d)
    BY <1>13, <2>3 DEF QuestionsDrawn
  <2>5. Repeats(b, turn)
    BY <1>8, <1>13, <2>3 DEF Repeats
  <2> QED BY <1>3, <1>15, <2>1, <2>2, <2>4, <2>5 DEF MessagesInv
<1>23. UnansweredIsRetryable'
  <2>1. ASSUME NEW i \in 1..(n + 1), Unanswered(b, i)
        PROVE  turn # None /\ turn.question = b[i].question
    <3>1. CASE i = n + 1
      BY <1>8, <1>10, <1>13, <3>1
    <3>2. CASE i \in 1..n
      <4>1. n + 1 \in (i + 1)..Len(b)
        BY <1>13, <3>2
      <4> QED BY <1>10, <1>13, <2>1, <4>1 DEF Unanswered
    <3> QED BY <1>21, <3>1, <3>2
  <2> QED BY <1>13, <1>15, <2>1, RetryableAfter
<1>24. \A x \in replies' : Awaited(x)' => FALSE
  BY <1>1, <1>6, <1>15 DEF Awaited
<1>25. CASE c = chat
  <2>1. ActiveAnswers' = ActiveAnswers
    <3>1. \A i \in (c.activeStart + 1)..(n + 1) : i = n + 1 \/ i \in (c.activeStart + 1)..n
      BY <1>16
    <3>2. \A i \in (c.activeStart + 1)..n : i \in 1..n /\ i \in (c.activeStart + 1)..(n + 1)
      BY <1>16
    <3> QED BY <1>10, <1>11, <1>13, <1>15, <1>25, <3>1, <3>2 DEF ActiveAnswers
  <2>2. \A i \in ActiveAnswers : chat'.messages[i] = chat.messages[i]
    <3>1. \A i \in ActiveAnswers : i \in 1..n
      BY <1>11, <1>16, <1>25 DEF ActiveAnswers
    <3> QED BY <1>13, <1>15, <1>25, <3>1
  <2>3. ActiveAnswersWereAskedHere' /\ OneArchivePerConversation'
    BY <1>15, <1>25, <2>1, <2>2 DEF WInv, ActiveAnswersWereAskedHere, OneArchivePerConversation
  <2>4. TranscriptIsTheSession'
    BY <1>1, <1>15, <1>25, <2>1, <2>2 DEF WInv, TranscriptIsTheSession, Revision
  <2>5. NothingShownAhead'
    <3> SUFFICES ASSUME chat.token \in TurnIds \ lost, NEW k \in 1..Revision(chat.token),
                        sessions[chat.token][k].turn = d
                 PROVE  FALSE
      BY <1>1, <1>8, <1>15, <1>24, <1>25 DEF NothingShownAhead, Revision
    <3>1. d <= drawn
      BY DEF WInv, IdsDrawn
    <3> QED BY <1>3, <3>1
  <2> QED BY <1>17, <1>18, <1>19, <1>20, <1>22, <1>23, <2>3, <2>4, <2>5 DEF WInv
<1>26. CASE c.activeStart = Len(c.messages)
  <2>1. ActiveAnswers' = {}
    <3>1. \A i \in (c.activeStart + 1)..(n + 1) : i = n + 1
      BY <1>11, <1>26
    <3> QED BY <1>10, <1>13, <1>15, <3>1 DEF ActiveAnswers
  <2>2. /\ ActiveAnswersWereAskedHere' /\ OneArchivePerConversation'
        /\ TranscriptIsTheSession' /\ NothingShownAhead'
    BY <1>18, <1>24, <2>1, NothingShown
  <2> QED BY <1>17, <1>18, <1>19, <1>20, <1>22, <1>23, <2>2 DEF WInv
<1> QED BY <1>6, <1>25, <1>26

--------------------------------------------------------------------------------
(* A reply is delivered.                                                      *)

\* What is known of the one reply that is awaited.
Due(x) ==
  /\ x \in replies /\ x.request.generation = chat.generation
  /\ chat.pending /\ x.request.turn = chat.retry /\ chat.retry \in Turns
  /\ chat.version \in Versions /\ chat.version # None
  /\ x.reply \in Replies /\ Shaped(x.reply)
  /\ Awaiting = {} /\ \A y \in replies : Awaited(y) => y = x

LEMMA AwaitedIsDue ==
  ASSUME WInv, NEW x \in replies, Awaited(x)
  PROVE  Due(x)
<1>1. /\ chat.pending /\ x.request.turn = chat.retry /\ Awaiting = {}
      /\ \A y \in replies : Awaited(y) => y = x
  BY DEF WInv, OneReplyDue
<1>2. chat.version # None /\ chat.version \in Versions
  BY <1>1, ChatTyped DEF WInv, ArchiveKnown
<1>3. chat.retry \in Turns
  BY <1>1, ChatTyped DEF WInv, TypeOK
<1>4. x.reply \in Replies /\ Shaped(x.reply)
  BY DEF WInv, TypeOK, RepliesCommitted
<1> QED BY <1>1, <1>2, <1>3, <1>4 DEF Due, Awaited

\* What a delivery leaves alone.
Delivering(x) ==
  /\ replies' = replies \ {x} /\ wire' = wire /\ archive' = archive
  /\ sessions' = sessions /\ lost' = lost

LEMMA DeliveredRest ==
  ASSUME WInv, NEW x, Delivering(x), stored' \in BOOLEAN,
         query' \in {"empty", "success", "failed"}, fetching' \in Versions \union {None}, superseded' \subseteq Versions,
         drawn' \in 0..MaxTurns
  PROVE  RestTyped'
BY DEF WInv, TypeOK, RestTyped, Delivering

LEMMA DueSilent ==
  ASSUME WInv, NEW x, Due(x), Delivering(x), drawn' = drawn
  PROVE  Silent'
BY DEF WInv, OneReplyDue, IdsDrawn, Due, Delivering, Silent, Awaiting

\* Nothing is due after it.
LEMMA DueDelivered ==
  ASSUME WInv, NEW x, Due(x), Delivering(x), chat'.generation = chat.generation
  PROVE  OneReplyDue'
<1>1. IsFiniteSet(wire') /\ IsFiniteSet(replies)
  BY DEF WInv, OneReplyDue, Delivering
<1>2. IsFiniteSet(replies')
  BY <1>1, FS_Subset DEF Delivering
<1>3. Awaiting' = {}
  BY DEF Due, Delivering, Awaiting
<1>4. \A y \in replies' : Awaited(y)' => FALSE
  BY DEF Due, Delivering, Awaited
<1> QED BY <1>1, <1>2, <1>3, <1>4, NothingDue

\* The chat c with the answer x.
AnswerOf(x) ==
  Message("answer", x.request.turn.turn, x.request.turn.question, x.reply, chat.generation)
Told(c, x) ==
  /\ c \in Chats /\ c.activeStart = chat.activeStart
  /\ Replaced(chat.messages, c.messages, AnswerOf(x))
  /\ c.version = chat.version /\ c.generation = chat.generation /\ c.pending = FALSE
  /\ c.retry = IF x.reply.kind = "uncommitted" THEN chat.retry ELSE None
  /\ c.token = IF x.reply.kind = "committed" THEN x.reply.token ELSE chat.token
  /\ c.revision = IF x.reply.kind = "committed" THEN x.reply.revision ELSE chat.revision
  /\ Tidy(c.messages, drawn, chat.retry) /\ Tidy(c.messages, drawn, None)

LEMMA AnsweredIsTold ==
  ASSUME WInv, NEW x, Due(x),
         NEW c, c = Answered(x.request.turn, x.reply, x.request.generation)
  PROVE  Told(c, x)
<1>1. PICK t \in Turns, g \in Nat, r \in Replies :
        t = x.request.turn /\ g = x.request.generation /\ r = x.reply
  BY ChatTyped DEF WInv, Due
<1>2. PICK answer : answer = Message("answer", t.turn, t.question, r, g)
  OBVIOUS
<1>3. /\ answer \in Messages /\ answer.kind = "answer" /\ answer.turn = t.turn
      /\ answer.reply = r
  BY <1>1, <1>2 DEF Messages, Message, Turns
<1>4. PICK ms \in Seq(Messages) : ms = chat.messages
  BY ChatTyped DEF WInv
<1>5. PICK b : b = Append(Kept(ms, ToSet(ms) \ Bearing(ms, "answer", t)), answer)
  OBVIOUS
<1>6. OneAnswerPerTurn(ms) /\ Tidy(ms, drawn, chat.retry) /\ Tidy(ms, drawn, None)
      /\ Shaped(r)
  BY <1>1, <1>4 DEF WInv, MessagesInv, Tidy, Repeats, Due
<1>7. /\ b \in Seq(Messages) /\ Replaced(ms, b, answer)
      /\ \A n, u : Tidy(ms, n, u) /\ Shaped(answer.reply) => Tidy(b, n, u)
  BY <1>3, <1>5, <1>6, AnsweredMessages
<1>8. Tidy(b, drawn, chat.retry) /\ Tidy(b, drawn, None)
  BY <1>3, <1>6, <1>7
<1>9. c = [chat EXCEPT
             !.messages = b, !.pending = FALSE,
             !.retry = IF r.kind = "uncommitted" THEN t ELSE None,
             !.token = IF r.kind = "committed" THEN r.token ELSE chat.token,
             !.revision = IF r.kind = "committed" THEN r.revision ELSE @,
             !.expiring = (r.kind = "committed") \/ @]
  BY <1>1, <1>2, <1>4, <1>5 DEF Answered, TokenAfter
<1>10. PICK retry, token, n, expiring :
         /\ retry = (IF r.kind = "uncommitted" THEN t ELSE None)
         /\ token = (IF r.kind = "committed" THEN r.token ELSE chat.token)
         /\ n = (IF r.kind = "committed" THEN r.revision ELSE chat.revision)
         /\ expiring = ((r.kind = "committed") \/ chat.expiring)
  OBVIOUS
<1>11. c = [chat EXCEPT !.messages = b, !.pending = FALSE, !.retry = retry, !.token = token,
                        !.revision = n, !.expiring = expiring]
  BY <1>9, <1>10
<1>12. /\ retry \in Turns \union {None} /\ token \in TurnIds \union {None}
       /\ n \in 0..MaxTurns /\ expiring \in BOOLEAN
  BY <1>1, <1>6, <1>10, ChatTyped, ConversationAssumption DEF WInv, Shaped
<1>13. chat \in Chats
  BY DEF WInv, TypeOK
<1>14. /\ c \in Chats /\ c.messages = b /\ c.activeStart = chat.activeStart
       /\ c.version = chat.version /\ c.generation = chat.generation /\ c.pending = FALSE
       /\ c.retry = retry /\ c.token = token /\ c.revision = n
  BY <1>7, <1>11, <1>12, <1>13 DEF Chats
<1>15. chat.retry = t /\ answer = AnswerOf(x)
  BY <1>1, <1>2 DEF Due, AnswerOf
<1> QED BY <1>1, <1>4, <1>7, <1>8, <1>10, <1>14, <1>15 DEF Told

\* A reply of another release, or of a session that has expired: the question is
\* kept for a conversation of its own.
LEMMA AnewStep ==
  ASSUME WInv, NEW x, Due(x), Delivering(x), NEW v \in Versions,
         chat' = Reopened(chat, Anew(chat.retry), NextGeneration, v),
         drawn' = drawn, RestTyped'
  PROVE  WInv'
<1>1. chat \in Chats
  BY DEF WInv, TypeOK
<1>2. Anew(chat.retry) \in Turns \union {None} /\ Dividable(chat, Anew(chat.retry))
  BY RetryAnew
<1>3. Silent'
  BY DueSilent
<1>4. sessions' = sessions /\ lost' = lost /\ replies' \subseteq replies
  BY DEF Delivering
<1> QED BY <1>1, <1>2, <1>3, <1>4, BoundaryStep

\* Where the last message is an answer, no question waits for one.
LEMMA AnsweredLast ==
  ASSUME NEW ms \in Seq(Messages), Len(ms) \in Nat \ {0}, ms[Len(ms)].kind = "answer",
         NEW i \in 1..Len(ms)
  PROVE  ~ Unanswered(ms, i)
<1> PICK n \in Nat \ {0} : n = Len(ms)
  OBVIOUS
<1>1. CASE i = n
  BY <1>1 DEF Unanswered
<1>2. CASE i # n
  <2>1. n \in (i + 1)..n
    BY <1>2
  <2> QED BY <2>1 DEF Unanswered
<1> QED BY <1>1, <1>2

LEMMA ToldIs ==
  ASSUME WInv, NEW x, Due(x), NEW c, Told(c, x)
  PROVE  /\ c.messages \in Seq(Messages) /\ Len(c.messages) \in Nat \ {0}
         /\ c.messages[Len(c.messages)] = AnswerOf(x)
         /\ AnswerOf(x).kind = "answer" /\ AnswerOf(x).turn = chat.retry.turn
         /\ AnswerOf(x).reply = x.reply /\ AnswerOf(x).asked = chat.generation
         /\ \A i \in 1..Len(c.messages) : ~ Unanswered(c.messages, i)
<1>1. c.messages \in Seq(Messages) /\ Replaced(chat.messages, c.messages, AnswerOf(x))
  BY DEF Told, Chats
<1>2. /\ Len(c.messages) \in Nat \ {0} /\ c.messages[Len(c.messages)] = AnswerOf(x)
  BY <1>1, ChatTyped DEF Replaced, WInv
<1>3. /\ AnswerOf(x).kind = "answer" /\ AnswerOf(x).turn = chat.retry.turn
      /\ AnswerOf(x).reply = x.reply /\ AnswerOf(x).asked = chat.generation
  BY DEF AnswerOf, Message, Due
<1> QED BY <1>1, <1>2, <1>3, AnsweredLast

\* A reply without a session: its answer is shown, and the conversation ends.
LEMMA StatelessStep ==
  ASSUME WInv, NEW x, Due(x), Delivering(x), NEW c, Told(c, x),
         chat' = Bounded(c, None), drawn' = drawn, RestTyped'
  PROVE  WInv'
<1>1. c \in Chats /\ c.version = chat.version /\ Tidy(c.messages, drawn, None)
  BY DEF Told
<1>2. \A i \in 1..Len(c.messages) : ~ Unanswered(c.messages, i)
  BY ToldIs
<1>3. PICK v \in Versions : v = c.version
  BY <1>1 DEF Due
<1>4. None \in Turns \union {None} /\ Dividable(c, None)
  BY <1>1, <1>2 DEF Dividable
<1>5. chat' = Reopened(c, None, NextGeneration, v)
  BY <1>1, <1>3, BoundedReopened
<1>6. Silent'
  BY DueSilent
<1>7. sessions' = sessions /\ lost' = lost /\ replies' \subseteq replies
  BY DEF Delivering
<1> QED BY <1>1, <1>4, <1>5, <1>6, <1>7, BoundaryStep

\* The active answers of a chat that was told one: it, and earlier ones that kept
\* their order.
LEMMA ToldAnswers ==
  ASSUME WInv, NEW x, Due(x), Told(chat', x)
  PROVE  \E f, n :
           /\ n = Len(chat'.messages) /\ n \in Nat
           /\ \A i \in ActiveAnswers' : i = n \/
                (i \in 1..(n - 1) /\ f[i] \in ActiveAnswers
                  /\ chat'.messages[i] = chat.messages[f[i]])
           /\ \A i, j \in 1..(n - 1) : i < j => f[i] < f[j]
<1>1. PICK n \in Nat \ {0} : n = Len(chat'.messages)
  BY ToldIs
<1>2. Replaced(chat.messages, chat'.messages, AnswerOf(x)) /\ chat'.activeStart = chat.activeStart
  BY DEF Told
<1>3. PICK f \in [1..(n - 1) -> 1..Len(chat.messages)] :
        /\ \A i, j \in 1..(n - 1) : i < j => f[i] < f[j]
        /\ \A i \in 1..(n - 1) : f[i] >= i /\ chat'.messages[i] = chat.messages[f[i]]
  BY <1>1, <1>2 DEF Replaced
<1>4. chat.activeStart \in Nat /\ Len(chat.messages) \in Nat
  BY ChatTyped DEF WInv
<1>5. ASSUME NEW i \in ActiveAnswers', i # n
      PROVE  /\ i \in 1..(n - 1) /\ f[i] \in ActiveAnswers
             /\ chat'.messages[i] = chat.messages[f[i]]
  <2>1. i \in (chat.activeStart + 1)..n /\ chat'.messages[i].kind = "answer"
    BY <1>1, <1>2 DEF ActiveAnswers
  <2>2. i \in 1..(n - 1)
    BY <1>4, <1>5, <2>1
  <2>3. f[i] \in 1..Len(chat.messages) /\ f[i] >= i /\ chat'.messages[i] = chat.messages[f[i]]
    BY <1>3, <2>2
  <2>4. f[i] \in (chat.activeStart + 1)..Len(chat.messages)
    BY <1>4, <2>1, <2>2, <2>3
  <2> QED BY <2>1, <2>2, <2>3, <2>4 DEF ActiveAnswers
<1> QED BY <1>1, <1>3, <1>5

\* An answer is shown in the conversation that asked.
LEMMA AnsweredStep ==
  ASSUME WInv, NEW x, Due(x), Delivering(x), Told(chat', x), x.reply.version \in {None, chat.version},
         drawn' = drawn, RestTyped'
  PROVE  WInv'
<1>1. /\ chat' \in Chats /\ chat'.activeStart = chat.activeStart
      /\ chat'.version = chat.version /\ chat'.generation = chat.generation
      /\ chat'.pending = FALSE
      /\ chat'.retry = IF x.reply.kind = "uncommitted" THEN chat.retry ELSE None
      /\ chat'.token = IF x.reply.kind = "committed" THEN x.reply.token ELSE chat.token
      /\ chat'.revision = IF x.reply.kind = "committed" THEN x.reply.revision ELSE chat.revision
      /\ Tidy(chat'.messages, drawn, chat.retry) /\ Tidy(chat'.messages, drawn, None)
  BY DEF Told
<1>2. /\ replies' \subseteq replies /\ wire' = wire /\ sessions' = sessions /\ lost' = lost
  BY DEF Delivering
<1>3. PICK f, n :
        /\ n = Len(chat'.messages) /\ n \in Nat
        /\ \A i \in ActiveAnswers' : i = n \/
             (i \in 1..(n - 1) /\ f[i] \in ActiveAnswers
               /\ chat'.messages[i] = chat.messages[f[i]])
        /\ \A i, j \in 1..(n - 1) : i < j => f[i] < f[j]
  BY ToldAnswers
<1>4. /\ chat'.messages[n] = AnswerOf(x)
      /\ AnswerOf(x).turn = chat.retry.turn
      /\ AnswerOf(x).reply = x.reply /\ AnswerOf(x).asked = chat.generation
      /\ \A i \in 1..n : ~ Unanswered(chat'.messages, i)
  BY <1>3, ToldIs
<1>5. /\ chat.retry \in Turns /\ chat.retry # None /\ x.request.turn = chat.retry
      /\ chat.version # None /\ x \in replies /\ Shaped(x.reply)
  BY UndefinedAssumption DEF Due
<1>6. TypeOK'
  <2>1. chat'.activeStart <= Len(chat'.messages)
    <3>1. Len(chat.messages) <= Len(chat'.messages)
      BY DEF Told, Replaced
    <3> QED BY <1>1, <1>3, <3>1, ChatTyped DEF WInv
  <2> QED BY <1>1, <2>1, TypePartsAfter
<1>7. MessagesInv'
  BY <1>1, MessagesAfter
<1>8. UnansweredIsRetryable'
  BY <1>1, <1>3, <1>4, RetryableAfter
<1>9. OneReplyDue'
  BY <1>1, DueDelivered
<1>10. IdsDrawn' /\ TurnsOnce' /\ RepliesCommitted'
  <2>1. drawn \in Nat /\ drawn <= drawn' /\ (chat'.retry # None => chat'.retry.turn <= drawn')
    BY <1>1, RetryTyped
  <2>2. \A r \in wire' : r.turn.turn <= drawn'
    BY <1>2 DEF WInv, IdsDrawn
  <2> QED BY <1>2, <2>1, <2>2, PageIds
<1>11. ArchiveKnown' /\ RetryInSession'
  BY <1>1, <1>5 DEF WInv, ArchiveKnown, RetryInSession
<1>12. ActiveAnswersWereAskedHere'
  BY <1>1, <1>3, <1>4 DEF WInv, ActiveAnswersWereAskedHere
<1>13. OneArchivePerConversation'
  <2>1. ASSUME NEW i \in ActiveAnswers'
        PROVE  chat'.messages[i].reply.version \in {None, chat'.version}
    <3>1. CASE i = n
      BY <1>1, <1>4, <3>1
    <3>2. CASE f[i] \in ActiveAnswers /\ chat'.messages[i] = chat.messages[f[i]]
      BY <1>1, <3>2 DEF WInv, OneArchivePerConversation
    <3> QED BY <1>3, <3>1, <3>2
  <2> QED BY <2>1 DEF OneArchivePerConversation
\* Committed, the answer is its session's, past all that was shown.
<1>14. ASSUME x.reply.kind = "committed"
       PROVE  /\ chat'.token = SessionOf(chat.retry) /\ chat'.token \in TurnIds
              /\ chat.token \in {None, chat'.token}
              /\ chat'.revision = x.reply.revision
              /\ chat'.token \notin lost =>
                   /\ x.reply.revision \in 1..Revision(chat'.token)
                   /\ sessions[chat'.token][x.reply.revision].turn = chat.retry.turn
                   /\ chat.token = chat'.token =>
                        \A m \in ShownRevisions : m < x.reply.revision
  <2>1. /\ chat'.token = x.reply.token /\ chat'.revision = x.reply.revision
        /\ x.reply.token = SessionOf(chat.retry) /\ x.reply.token \in TurnIds
    BY <1>1, <1>5, <1>14 DEF WInv, RepliesCommitted, Shaped
  <2>2. chat.token \in {None, chat'.token}
    BY <1>5, <2>1 DEF WInv, RetryInSession, SessionOf
  <2>3. ASSUME chat'.token \notin lost
        PROVE  /\ x.reply.revision \in 1..Revision(chat'.token)
               /\ sessions[chat'.token][x.reply.revision].turn = chat.retry.turn
               /\ chat.token = chat'.token => \A m \in ShownRevisions : m < x.reply.revision
    <3>1. /\ x.reply.revision \in 1..Revision(x.reply.token)
          /\ sessions[x.reply.token][x.reply.revision].turn = chat.retry.turn
      BY <1>5, <1>14, <2>1, <2>3 DEF WInv, RepliesCommitted
    <3>2. ASSUME chat.token = x.reply.token, NEW m \in ShownRevisions
          PROVE  m < x.reply.revision
      BY <1>5, <2>1, <2>3, <3>1, <3>2 DEF WInv, NothingShownAhead
    <3> QED BY <2>1, <3>1, <3>2
  <2> QED BY <2>1, <2>2, <2>3
\* What was shown is of the session the chat had.
<1>15. ASSUME NEW i \in ActiveAnswers', chat'.messages[i].reply.kind = "committed", i # n
       PROVE  /\ i \in 1..(n - 1) /\ f[i] \in ActiveAnswers
              /\ chat'.messages[i] = chat.messages[f[i]]
              /\ chat.messages[f[i]].reply.kind = "committed"
              /\ chat.messages[f[i]].reply.token = chat.token /\ chat.token \in TurnIds
              /\ chat.messages[f[i]].reply.revision \in ShownRevisions
              /\ chat.messages[f[i]].reply.revision \in Nat
              /\ chat'.token = chat.token
  <2>1. /\ i \in 1..(n - 1) /\ f[i] \in ActiveAnswers
        /\ chat'.messages[i] = chat.messages[f[i]]
        /\ chat.messages[f[i]].reply.kind = "committed"
    BY <1>3, <1>15
  <2>2. /\ chat.messages[f[i]].reply.token = chat.token /\ chat.token \in TurnIds
        /\ chat.messages[f[i]].reply.revision \in ShownRevisions
        /\ chat.messages[f[i]].reply.revision \in Nat
    BY <2>1, ShownIs
  <2>3. chat'.token = chat.token
    <3>1. chat.token # None
      BY <2>2, ConversationAssumption DEF TurnIds
    <3>2. CASE x.reply.kind = "committed"
      BY <1>14, <3>1, <3>2
    <3>3. CASE x.reply.kind # "committed"
      BY <1>1, <3>3
    <3> QED BY <3>2, <3>3
  <2> QED BY <2>1, <2>2, <2>3
<1> DEFINE Kind(i) == chat'.messages[i].reply.kind = "committed"
           shown(i) == chat'.messages[i].reply.revision
<1>16. ASSUME NEW i \in ActiveAnswers', Kind(i)
       PROVE  /\ chat'.messages[i].reply.token = chat'.token
              /\ chat'.token \notin lost =>
                   /\ shown(i) <= chat'.revision
                   /\ shown(i) \in 1..Revision(chat'.token)
                   /\ sessions[chat'.token][shown(i)].turn = chat'.messages[i].turn
                   /\ \A j \in ActiveAnswers' : Kind(j) /\ j < i => shown(j) < shown(i)
  <2>1. CASE i = n
    <3>1. x.reply.kind = "committed" /\ chat'.messages[i] = AnswerOf(x)
      BY <1>4, <1>16, <2>1
    <3>2. chat'.messages[i].reply.token = chat'.token
      BY <1>1, <1>4, <3>1
    <3>3. ASSUME chat'.token \notin lost
          PROVE  /\ shown(i) <= chat'.revision /\ shown(i) \in 1..Revision(chat'.token)
                 /\ sessions[chat'.token][shown(i)].turn = chat'.messages[i].turn
      <4>1. shown(i) = x.reply.revision /\ shown(i) \in 1..MaxTurns /\ MaxTurns \in Nat
        BY <1>4, <1>5, <3>1, ConversationAssumption DEF Shaped
      <4> QED BY <1>4, <1>14, <3>1, <3>3, <4>1
    <3>4. ASSUME chat'.token \notin lost, NEW j \in ActiveAnswers', Kind(j), j < i
          PROVE  shown(j) < shown(i)
      <4>1. j # n
        BY <1>3, <2>1, <3>4
      <4>2. /\ shown(j) \in ShownRevisions /\ chat'.token = chat.token
        BY <1>15, <3>4, <4>1
      <4> QED BY <1>4, <1>14, <3>1, <3>4, <4>2
    <3> QED BY <3>2, <3>3, <3>4
  <2>2. CASE i # n
    <3>1. /\ i \in 1..(n - 1) /\ f[i] \in ActiveAnswers /\ chat'.messages[i] = chat.messages[f[i]]
          /\ chat.messages[f[i]].reply.kind = "committed"
          /\ chat'.token = chat.token /\ chat.token \in TurnIds
          /\ shown(i) \in ShownRevisions /\ shown(i) \in Nat
      BY <1>15, <1>16, <2>2
    <3>2. /\ chat'.messages[i].reply.token = chat'.token
          /\ chat'.token \notin lost =>
               /\ shown(i) <= chat.revision
               /\ shown(i) \in 1..Revision(chat.token)
               /\ sessions[chat.token][shown(i)].turn = chat'.messages[i].turn
      BY <3>1 DEF WInv, TranscriptIsTheSession
    <3>3. chat'.token \notin lost => shown(i) <= chat'.revision
      <4>1. CASE x.reply.kind = "committed"
        <5>1. x.reply.revision \in 1..MaxTurns /\ MaxTurns \in Nat
          BY <1>5, <4>1, ConversationAssumption DEF Shaped
        <5> QED BY <1>14, <3>1, <4>1, <5>1
      <4>2. CASE x.reply.kind # "committed"
        BY <1>1, <3>2, <4>2
      <4> QED BY <4>1, <4>2
    <3>4. ASSUME chat'.token \notin lost, NEW j \in ActiveAnswers', Kind(j), j < i
          PROVE  shown(j) < shown(i)
      <4>1. j # n
        BY <3>1, <3>4, <1>3
      <4>2. /\ j \in 1..(n - 1) /\ f[j] \in ActiveAnswers
            /\ chat'.messages[j] = chat.messages[f[j]]
            /\ chat.messages[f[j]].reply.kind = "committed"
        BY <1>15, <3>4, <4>1
      <4>3. f[j] < f[i]
        BY <1>3, <3>1, <3>4, <4>2
      <4> QED BY <3>1, <3>4, <4>2, <4>3 DEF WInv, TranscriptIsTheSession
    <3> QED BY <3>1, <3>2, <3>3, <3>4
  <2> QED BY <2>1, <2>2
<1>17. TranscriptIsTheSession'
  <2>1. PICK token : token = chat'.token
    OBVIOUS
  <2>2. Revision(token)' = Revision(token)
    BY <1>2 DEF Revision
  <2> QED BY <1>2, <1>16, <2>1, <2>2 DEF TranscriptIsTheSession, Revision
<1>18. NothingShownAhead'
  <2>1. \A y \in replies' : Awaited(y)' => FALSE
    BY <1>1 DEF Due, Delivering, Awaited
  <2> SUFFICES ASSUME chat'.token \in TurnIds \ lost, chat'.retry # None,
                      NEW k \in 1..Revision(chat'.token),
                      sessions[chat'.token][k].turn = chat'.retry.turn,
                      NEW m \in ShownRevisions'
               PROVE  m < k
    BY <1>2, <2>1 DEF NothingShownAhead, Revision
  <2>2. x.reply.kind = "uncommitted" /\ chat'.retry = chat.retry /\ chat'.token = chat.token
    BY <1>1
  <2>3. m \in ShownRevisions
    <3>1. PICK i \in ActiveAnswers' : Kind(i) /\ m = shown(i)
      BY DEF ShownRevisions
    <3>2. i # n
      BY <1>4, <2>2, <3>1
    <3> QED BY <1>15, <3>1, <3>2
  <2> QED BY <1>5, <2>2, <2>3 DEF WInv, NothingShownAhead
<1> QED BY <1>6, <1>7, <1>8, <1>9, <1>10, <1>11, <1>12, <1>13, <1>17, <1>18 DEF WInv

\* d is the chat, settled, with another revision and turn to repeat.
Settled(d, n, turn) ==
  /\ d \in Chats /\ d.messages = chat.messages /\ d.activeStart = chat.activeStart
  /\ d.version = chat.version /\ d.token = chat.token /\ d.expiring = chat.expiring
  /\ d.generation = chat.generation /\ d.pending = FALSE
  /\ d.revision = n /\ d.retry = turn

LEMMA SettledIs ==
  ASSUME WInv, NEW n \in 0..MaxTurns, NEW turn \in Turns,
         NEW d, d = [[chat EXCEPT !.pending = FALSE] EXCEPT !.revision = n, !.retry = turn]
  PROVE  Settled(d, n, turn)
BY DEF WInv, TypeOK, Chats, Settled

\* A conflict or a failure: the question stays to be repeated, perhaps at another
\* revision or under an id of its own.
LEMMA SettledStep ==
  ASSUME WInv, NEW x, Due(x), Delivering(x), NEW n \in 0..MaxTurns, NEW turn \in Turns,
         Settled(chat', n, turn),
         turn.question = chat.retry.question, turn.token = chat.token,
         turn.turn = chat.retry.turn \/ turn.turn > drawn,
         turn.turn <= drawn', drawn' \in Nat, drawn <= drawn',
         chat.token \in TurnIds \ lost => \A m \in ShownRevisions : m <= n,
         RestTyped'
  PROVE  WInv'
<1>1. /\ chat' \in Chats /\ chat'.messages = chat.messages
      /\ chat'.activeStart = chat.activeStart /\ chat'.version = chat.version
      /\ chat'.token = chat.token /\ chat'.expiring = chat.expiring
      /\ chat'.generation = chat.generation /\ chat'.pending = FALSE
      /\ chat'.revision = n /\ chat'.retry = turn
  BY DEF Settled
<1>2. /\ replies' \subseteq replies /\ wire' = wire /\ sessions' = sessions /\ lost' = lost
  BY DEF Delivering
<1>3. turn # None /\ turn.turn \in Nat /\ chat.retry # None /\ chat.version # None
  BY UndefinedAssumption, TurnTyped DEF Due
<1>4. TypeOK'
  BY <1>1, TypePartsAfter DEF WInv, TypeOK
<1>5. Unsaid
  BY <1>1, <1>2, <1>3 DEF Unsaid
<1>6. IdsDrawn' /\ TurnsOnce' /\ RepliesCommitted'
  <2>1. \A r \in wire' : r.turn.turn <= drawn'
    <3>1. ASSUME NEW r \in wire PROVE r.turn.turn <= drawn /\ r.turn.turn \in Nat
      BY TurnTyped DEF WInv, IdsDrawn, TypeOK, Requests
    <3> QED BY <1>2, <3>1, RetryTyped
  <2> QED BY <1>1, <1>2, <2>1, PageIds
<1>7. OneReplyDue'
  BY <1>1, DueDelivered
<1>8. ArchiveKnown' /\ RetryInSession'
  BY <1>1, <1>3 DEF ArchiveKnown, RetryInSession
<1> QED BY <1>4, <1>5, <1>6, <1>7, <1>8, UnsaidStep DEF WInv

LEMMA TakeConflictStep ==
  ASSUME WInv, NEW x, Due(x), Delivering(x),
         TakeConflict(x.request.turn, x.reply)
  PROVE  WInv'
<1>1. /\ x.request.turn = chat.retry /\ chat.retry \in Turns /\ chat.retry # None
      /\ chat.version \in Versions /\ Shaped(x.reply) /\ x \in replies /\ Awaited(x)
  BY UndefinedAssumption DEF Due, Awaited
<1>2. PICK t \in Turns : t = chat.retry
  BY <1>1
<1>3. /\ t.turn <= drawn /\ t.turn \in Nat /\ drawn \in Nat /\ t.token = chat.token
      /\ chat.token \in TurnIds \union {None}
  BY <1>1, <1>2, RetryTyped, ChatTyped DEF WInv, RetryInSession
<1>4. /\ chat.revision \in 0..MaxTurns
      /\ chat.token \in TurnIds \ lost => \A m \in ShownRevisions : m <= chat.revision
  BY ChatTyped DEF WInv, TranscriptIsTheSession, ShownRevisions
<1>5. query' = query /\ fetching' = fetching /\ superseded' = superseded
  BY DEF TakeConflict
<1>6. ASSUME stored' = TRUE, drawn' \in 0..MaxTurns PROVE RestTyped'
  BY <1>5, <1>6, DeliveredRest DEF WInv, TypeOK
<1>7. drawn \in 0..MaxTurns
  BY DEF WInv, TypeOK
<1>8. CASE /\ x.reply.kind = "session_expired"
           /\ Change(Bounded(chat, ExpiredRetry(t))) /\ UNCHANGED drawn
  <2>1. PICK v \in Versions : v = chat.version
    BY <1>1
  <2>2. chat \in Chats
    BY DEF WInv, TypeOK
  <2>3. stored' = TRUE /\ chat' = Bounded(chat, Anew(chat.retry))
    BY <1>2, <1>8 DEF Change, ExpiredRetry
  <2>4. chat' = Reopened(chat, Anew(chat.retry), NextGeneration, v)
    BY <2>1, <2>2, <2>3, BoundedReopened
  <2> QED BY <1>6, <1>7, <1>8, <2>3, <2>4, AnewStep
<1>9. CASE /\ RevisionConflict(x.reply)
           /\ Change([[chat EXCEPT !.pending = FALSE] EXCEPT
                        !.revision = x.reply.revision,
                        !.retry = [t EXCEPT !.expected = x.reply.revision]])
           /\ UNCHANGED drawn
  <2>1. PICK n \in 0..MaxTurns : n = x.reply.revision
    BY <1>1, <1>9 DEF RevisionConflict, Shaped
  <2>2. PICK u : u = [t EXCEPT !.expected = n]
    OBVIOUS
  <2>3. u \in Turns /\ u.turn = t.turn /\ u.question = t.question /\ u.token = t.token
    BY <2>2 DEF Turns
  <2>4. stored' = TRUE
        /\ chat' = [[chat EXCEPT !.pending = FALSE] EXCEPT !.revision = n, !.retry = u]
    BY <1>9, <2>1, <2>2 DEF Change
  <2>5. Settled(chat', n, u)
    BY <2>3, <2>4, SettledIs
  <2>6. chat.token \in TurnIds \ lost => \A m \in ShownRevisions : m <= n
    BY <1>1, <1>9, <2>1 DEF WInv, NothingShownAhead, RevisionConflict
  <2> QED BY <1>2, <1>3, <1>6, <1>7, <1>9, <2>3, <2>4, <2>5, <2>6, SettledStep
<1>10. CASE /\ drawn < MaxTurns /\ drawn' = drawn + 1
            /\ Change([[chat EXCEPT !.pending = FALSE] EXCEPT
                 !.retry = [t EXCEPT !.turn = drawn + 1, !.expected = chat.revision,
                                     !.token = chat.token]])
  <2>1. PICK u : u = [t EXCEPT !.turn = drawn + 1, !.expected = chat.revision,
                               !.token = chat.token]
    OBVIOUS
  <2>2. drawn + 1 \in TurnIds /\ drawn' \in 0..MaxTurns
    BY <1>3, <1>7, <1>10, ConversationAssumption DEF TurnIds
  <2>3. u \in Turns /\ u.turn = drawn + 1 /\ u.question = t.question /\ u.token = chat.token
    BY <1>3, <1>4, <2>1, <2>2 DEF Turns
  <2>4. stored' = TRUE /\ chat' = [[chat EXCEPT !.pending = FALSE] EXCEPT !.retry = u]
    BY <1>10, <2>1 DEF Change
  <2>5. Settled(chat', chat.revision, u)
    BY <2>3, <2>4 DEF WInv, TypeOK, Chats, Settled
  <2>6. u.turn > drawn /\ u.turn <= drawn' /\ drawn' \in Nat /\ drawn <= drawn'
    BY <1>3, <1>10, <2>3
  <2> QED BY <1>2, <1>4, <1>6, <2>2, <2>3, <2>4, <2>5, <2>6, SettledStep
<1>11. CASE Change([chat EXCEPT !.pending = FALSE]) /\ UNCHANGED drawn
  <2>1. stored' = TRUE /\ chat' = [chat EXCEPT !.pending = FALSE]
    BY <1>11 DEF Change
  <2>2. PICK n \in 0..MaxTurns : n = chat.revision
    BY <1>4
  <2>3. Settled(chat', n, t)
    BY <1>2, <2>1, <2>2 DEF WInv, TypeOK, Chats, Settled
  <2>4. RestTyped' /\ t.turn <= drawn' /\ drawn' \in Nat /\ drawn <= drawn'
    BY <1>3, <1>6, <1>7, <1>11, <2>1
  <2>5. chat.token \in TurnIds \ lost => \A m \in ShownRevisions : m <= n
    BY <1>4, <2>2
  <2> QED BY <1>2, <1>3, <2>3, <2>4, <2>5, SettledStep
<1> QED BY <1>1, <1>2, <1>8, <1>9, <1>10, <1>11 DEF TakeConflict

LEMMA TakeAnswerStep ==
  ASSUME WInv, NEW x, Due(x), Delivering(x),
         TakeAnswer(x.request.turn, x.reply, x.request.generation)
  PROVE  WInv'
<1>1. /\ x.request.turn = chat.retry /\ chat.version \in Versions /\ chat.version # None
      /\ x.reply.version \in Versions \union {None}
  BY DEF Due, Replies
<1>2. drawn' = drawn /\ drawn \in 0..MaxTurns /\ chat \in Chats
  BY DEF TakeAnswer, WInv, TypeOK
<1>3. CASE /\ Outdated(x.reply) /\ Refetch
           /\ Change([Bounded(chat, Anew(x.request.turn)) EXCEPT !.version = x.reply.version])
  <2>1. PICK v \in Versions : v = x.reply.version
    BY <1>1, <1>3 DEF Outdated
  <2>2. stored' = TRUE /\ chat' = Reopened(chat, Anew(chat.retry), NextGeneration, v)
    BY <1>1, <1>3, <2>1 DEF Change, Bounded, Reopened
  <2>3. /\ query' \in {"empty", "success", "failed"} /\ fetching' \in Versions \union {None}
        /\ superseded' \subseteq Versions
    BY <1>3 DEF Refetch, Supersede, WInv, TypeOK
  <2>4. RestTyped'
    BY <1>2, <2>2, <2>3, DeliveredRest
  <2> QED BY <1>2, <2>2, <2>4, AnewStep
<1>4. CASE /\ ~ Outdated(x.reply) /\ UNCHANGED <<query, fetching, superseded>>
           /\ IF x.reply.kind = "stateless"
              THEN Change(Bounded(Answered(x.request.turn, x.reply, x.request.generation), None))
              ELSE Change(Answered(x.request.turn, x.reply, x.request.generation))
  <2>1. PICK c : c = Answered(x.request.turn, x.reply, x.request.generation)
    OBVIOUS
  <2>2. Told(c, x)
    BY <2>1, AnsweredIsTold
  <2>3. stored' = TRUE
    BY <1>4 DEF Change
  <2>4. RestTyped'
    BY <1>2, <1>4, <2>3, DeliveredRest DEF WInv, TypeOK
  <2>5. x.reply.version \in {None, chat.version}
    BY <1>1, <1>4 DEF Outdated
  <2>6. CASE x.reply.kind = "stateless"
    <3>1. chat' = Bounded(c, None)
      BY <1>4, <2>1, <2>6 DEF Change
    <3> QED BY <1>2, <2>2, <2>4, <3>1, StatelessStep
  <2>7. CASE x.reply.kind # "stateless"
    <3>1. chat' = c
      BY <1>4, <2>1, <2>7 DEF Change
    <3> QED BY <1>2, <2>2, <2>4, <2>5, <3>1, AnsweredStep
  <2> QED BY <2>6, <2>7
<1> QED BY <1>3, <1>4 DEF TakeAnswer

LEMMA DeliverStep ==
  ASSUME WInv, Deliver PROVE WInv'
<1>1. PICK r \in replies :
        /\ replies' = replies \ {r} /\ UNCHANGED <<wire, server>>
        /\ IF ~ Awaited(r) THEN UNCHANGED browser
           ELSE IF r.reply.kind \in Answers
           THEN TakeAnswer(r.request.turn, r.reply, r.request.generation)
           ELSE TakeConflict(r.request.turn, r.reply)
  BY DEF Deliver
<1>2. Delivering(r)
  BY <1>1 DEF Delivering, server
<1>3. CASE ~ Awaited(r)
  BY <1>1, <1>3, DroppedStep
<1>4. CASE Awaited(r)
  <2>1. Due(r)
    BY <1>4, AwaitedIsDue
  <2>2. CASE r.reply.kind \in Answers
    BY <1>1, <1>2, <1>4, <2>1, <2>2, TakeAnswerStep
  <2>3. CASE r.reply.kind \notin Answers
    BY <1>1, <1>2, <1>4, <2>1, <2>3, TakeConflictStep
  <2> QED BY <2>2, <2>3
<1> QED BY <1>3, <1>4

--------------------------------------------------------------------------------
(* The theorems.                                                              *)

LEMMA InitStep ==
  Init => WInv
<1> SUFFICES ASSUME Init PROVE WInv
  OBVIOUS
<1>1. /\ chat = Empty(0, None) /\ stored = FALSE /\ query = "empty" /\ fetching = None
      /\ superseded = {} /\ drawn = 0 /\ wire = {} /\ replies = {} /\ archive = 1
      /\ sessions = [t \in TurnIds |-> None] /\ lost = {}
  BY DEF Init, Fresh, Empty
<1>2. /\ chat.messages = <<>> /\ chat.activeStart = 0 /\ chat.version = None
      /\ chat.retry = None /\ chat.pending = FALSE /\ chat.expiring = FALSE
      /\ chat.generation = 0 /\ chat.token = None
  BY <1>1 DEF Empty
<1>3. <<>> \in Seq(Messages) /\ 0 \in Nat /\ None \in TurnIds \union {None}
      /\ 0 \in 0..MaxTurns /\ FALSE \in BOOLEAN /\ None \in Turns \union {None}
      /\ None \in Versions \union {None}
  BY ConversationAssumption
<1>4. chat \in Chats
  BY <1>1, <1>3, ChatOfFields, Zenon DEF Empty
<1>5. RestTyped
  <2>1. sessions \in [TurnIds -> Seq(Entries) \union {None}]
    BY <1>1
  <2>2. archive \in Versions /\ drawn \in 0..MaxTurns
    BY <1>1, ConversationAssumption DEF Versions
  <2> QED BY <1>1, <2>1, <2>2 DEF RestTyped
<1>6. TypeOK
  BY <1>2, <1>4, <1>5, TypeParts
<1>7. MessagesInv
  BY <1>2 DEF MessagesInv, AnswersShaped, OneAnswerPerTurn, QuestionsDrawn, Repeats
<1>8. \A s \in TurnIds : 1..Revision(s) = {}
  BY <1>1 DEF Revision
<1>9. IdsDrawn /\ TurnsOnce /\ RepliesCommitted
  BY <1>1, <1>2, <1>8 DEF IdsDrawn, TurnsOnce, RepliesCommitted
<1>10. OneReplyDue
  BY <1>1, FS_EmptySet DEF OneReplyDue, Awaiting
<1>11. ArchiveKnown /\ RetryInSession /\ NothingShownAhead
  BY <1>1, <1>2, ConversationAssumption DEF ArchiveKnown, RetryInSession, NothingShownAhead, TurnIds
<1>12. ActiveAnswers = {}
  BY <1>2 DEF ActiveAnswers
<1>13. /\ ActiveAnswersWereAskedHere /\ OneArchivePerConversation
       /\ TranscriptIsTheSession /\ UnansweredIsRetryable
  BY <1>2, <1>12 DEF ActiveAnswersWereAskedHere, OneArchivePerConversation,
                     TranscriptIsTheSession, UnansweredIsRetryable
<1> QED BY <1>6, <1>7, <1>9, <1>10, <1>11, <1>13 DEF WInv

LEMMA NextStep ==
  WInv /\ [Next]_vars => WInv'
<1> SUFFICES ASSUME WInv, [Next]_vars PROVE WInv'
  OBVIOUS
<1>1. CASE StartCheck
  BY <1>1, StartCheckStep
<1>2. CASE FinishCheck
  BY <1>2, FinishCheckStep
<1>3. CASE CheckFails
  BY <1>3, CheckFailsStep
<1>4. CASE Ask
  BY <1>4, AskStep
<1>5. CASE Retry
  BY <1>5, RetryStep
<1>6. CASE NewChat
  BY <1>6, NewChatStep
<1>7. CASE Reload
  BY <1>7, ReloadStep
<1>8. CASE Serve
  BY <1>8, ServeStep
<1>9. CASE ConnectionLost
  BY <1>9, ConnectionLostStep
<1>10. CASE Deliver
  BY <1>10, DeliverStep
<1>11. CASE SessionLost
  BY <1>11, SessionLostStep
<1>12. CASE ReleaseActivated
  BY <1>12, ReleaseActivatedStep
<1>13. CASE RetryReadiness
  BY <1>13, RetryReadinessStep
<1>14. CASE UNCHANGED vars
  BY <1>14, StutterStep
<1> QED
  BY <1>1, <1>2, <1>3, <1>4, <1>5, <1>6, <1>7, <1>8, <1>9, <1>10, <1>11, <1>12, <1>13,
     <1>14 DEF Next

LEMMA ConversationInvariant == Spec => []WInv
BY InitStep, NextStep, PTL DEF Spec

\* Types: the chat, the requests and replies under way and the sessions are what
\* the page and the API make of them, the active part of the chat begins within
\* its messages, and the chat waits only for a question it can repeat
\* (use-analyst.ts, analyst_sessions.py).
THEOREM ConversationTypeCorrect == Spec => []TypeOK
<1>1. WInv => TypeOK
  BY DEF WInv
<1> QED BY <1>1, ConversationInvariant, PTL

\* A reply that comes after a new chat, a boundary or a reload is never written
\* into a conversation that did not ask for it (the generation of use-analyst.ts).
THEOREM LateAnswersAreDropped == Spec => []ActiveAnswersWereAskedHere
<1>1. WInv => ActiveAnswersWereAskedHere
  BY DEF WInv
<1> QED BY <1>1, ConversationInvariant, PTL

\* The answers of the active conversation are about the release the chat is about,
\* whatever is activated while its requests and checks are under way.
THEOREM ConversationHasOneArchive == Spec => []OneArchivePerConversation
<1>1. WInv => OneArchivePerConversation
  BY DEF WInv
<1> QED BY <1>1, ConversationInvariant, PTL

\* The committed answers on the screen are the session's turns, at the revisions
\* it has them, in order and none past the revision the next request expects; for
\* any sequence of conflicts, retries, lost replies and lost sessions.
THEOREM ScreenShowsTheSession == Spec => []TranscriptIsTheSession
<1>1. WInv => TranscriptIsTheSession
  BY DEF WInv
<1> QED BY <1>1, ConversationInvariant, PTL

\* A question left without an answer is always the one a retry repeats.
THEOREM QuestionsStayRetryable == Spec => []UnansweredIsRetryable
<1>1. WInv => UnansweredIsRetryable
  BY DEF WInv
<1> QED BY <1>1, ConversationInvariant, PTL

--------------------------------------------------------------------------------
(* The sessions keep the conversation log.                                    *)

\* The view of one session.
Log(s) == [i \in 1..Revision(s) |-> EntryOf(sessions[s][i])]

LEMMA Views ==
  /\ LogView = [s \in TurnIds |-> Log(s)]
  /\ ToldView = [s \in TurnIds |-> ToSet(Log(s))]
  /\ LogView' = [s \in TurnIds |-> Log(s)']
  /\ ToldView' = [s \in TurnIds |-> ToSet(Log(s))']
<1>1. LogView = [s \in TurnIds |-> Log(s)] /\ LogView' = [s \in TurnIds |-> Log(s)']
  BY DEF LogView, Log
<1>2. \A s \in TurnIds : LogView[s] = Log(s) /\ LogView'[s] = Log(s)'
  BY <1>1
<1> QED BY <1>1, <1>2 DEF ToldView, ToSet

LEMMA LogTyped ==
  ASSUME WInv, NEW s \in TurnIds
  PROVE  /\ Log(s) \in Seq(Conversation!Entries) /\ Len(Log(s)) = Revision(s)
         /\ Revision(s) \in Nat
<1>1. PICK n \in Nat : n = Revision(s)
  <2>1. 0..MaxTurns \subseteq Nat
    BY ConversationAssumption
  <2> QED BY <2>1, SessionTyped
<1>2. \A i \in 1..n : EntryOf(sessions[s][i]) \in Conversation!Entries
  BY <1>1, SessionTyped DEF Entries, EntryOf, Conversation!Entries
<1>3. Log(s) \in [1..n -> Conversation!Entries]
  BY <1>1, <1>2 DEF Log
<1>4. Log(s) \in Seq(Conversation!Entries)
  BY <1>3, SeqDef
<1> QED BY <1>1, <1>3, <1>4

\* A sequence that has grown by one element is the old one with it appended.
GrownBy(p, q, n, e) ==
  /\ DOMAIN p = 1..(n + 1) /\ p = [i \in 1..(n + 1) |-> p[i]]
  /\ \A i \in 1..n : p[i] = q[i]
  /\ p[n + 1] = e
Extended(p, q, e) == p = Append(q, e) /\ ToSet(p) = ToSet(q) \union {e}

LEMMA GrownSequence ==
  ASSUME NEW M, NEW q \in Seq(M), NEW n \in Nat, n = Len(q), NEW e \in M,
         NEW p, GrownBy(p, q, n, e)
  PROVE  Extended(p, q, e)
<1>0. /\ DOMAIN p = 1..(n + 1) /\ p = [i \in 1..(n + 1) |-> p[i]]
      /\ \A i \in 1..n : p[i] = q[i]
      /\ p[n + 1] = e
  BY DEF GrownBy
<1>1. /\ Append(q, e) \in Seq(M) /\ Len(Append(q, e)) = n + 1
      /\ \A i \in 1..(n + 1) : Append(q, e)[i] = p[i]
  <2>1. /\ Append(q, e) \in Seq(M) /\ Len(Append(q, e)) = n + 1
        /\ Append(q, e)[n + 1] = e /\ \A i \in 1..n : Append(q, e)[i] = q[i]
    BY AppendIs
  <2>2. \A i \in 1..(n + 1) : i \in 1..n \/ i = n + 1
    OBVIOUS
  <2> QED BY <1>0, <2>1, <2>2, Zenon
<1>2. Append(q, e) \in [1..(n + 1) -> M]
  BY <1>1, LenProperties
<1>3. p = Append(q, e)
  BY <1>0, <1>1, <1>2
<1>4. ToSet(p) = ToSet(q) \union {e}
  <2>1. DOMAIN q = 1..n
    OBVIOUS
  <2>2. \A i \in 1..(n + 1) : i \in 1..n \/ i = n + 1
    OBVIOUS
  <2>3. 1..n \subseteq 1..(n + 1) /\ n + 1 \in 1..(n + 1)
    OBVIOUS
  <2> QED BY <1>0, <2>1, <2>2, <2>3 DEF ToSet
<1> QED BY <1>3, <1>4 DEF Extended

\* Serving a request extends the log of its session, or leaves all logs.
LEMMA ServeExtends ==
  ASSUME WInv, Serve
  PROVE  Conversation!Next \/ UNCHANGED <<LogView, ToldView>>
<1>1. PICK r \in wire : \E o \in Served(r.turn) \union Faulty(r.turn) :
        sessions' = [sessions EXCEPT ![SessionOf(r.turn)] = o.session]
  BY DEF Serve
<1>2. PICK o \in Served(r.turn) \union Faulty(r.turn) :
        sessions' = [sessions EXCEPT ![SessionOf(r.turn)] = o.session]
  BY <1>1
<1>3. PICK turn \in Turns : turn = r.turn /\ turn.turn <= drawn
  BY DEF WInv, TypeOK, Requests, IdsDrawn
<1>4. PICK s \in TurnIds : s = SessionOf(turn)
  BY TurnTyped
<1>5. PICK e : e = o.session
  OBVIOUS
<1>6. /\ sessions' = [sessions EXCEPT ![s] = e]
      /\ sessions \in [TurnIds -> Seq(Entries) \union {None}]
  BY <1>2, <1>3, <1>4, <1>5 DEF WInv, TypeOK
<1>7. e = sessions[s] \/ Recording(e, turn)
  BY <1>2, <1>3, <1>4, <1>5, Endings DEF Ending
<1>8. CASE e = sessions[s]
  <2>1. sessions' = sessions
    BY <1>6, <1>8
  <2> QED BY <2>1 DEF LogView, ToldView, Revision
<1>9. CASE Recording(e, turn)
  <2>1. PICK n \in Nat : n = Revision(s) /\ n = Len(Log(s))
    BY LogTyped
  <2>2. /\ e \in Seq(Entries) /\ Len(e) = n + 1 /\ e # None
        /\ \A i \in 1..n : e[i] = sessions[s][i] /\ e[i].turn # turn.turn
        /\ e[n + 1].turn = turn.turn
    BY <1>4, <1>9, <2>1, UndefinedAssumption DEF Recording
  <2>3. sessions'[s] = e /\ \A t \in TurnIds : t # s => sessions'[t] = sessions[t]
    BY <1>6
  <2>4. \A t \in TurnIds : t # s => Log(t)' = Log(t)
    BY <2>3 DEF Log, Revision
  <2>5. PICK new : new = EntryOf(e[n + 1])
    OBVIOUS
  <2>6. new \in Conversation!Entries /\ new.turn = turn.turn
    <3>1. e[n + 1] \in Entries
      BY <2>2
    <3> QED BY <2>2, <2>5, <3>1 DEF EntryOf, Entries, Conversation!Entries
  <2>7. Log(s)' = [i \in 1..(n + 1) |-> EntryOf(e[i])]
    <3>1. Revision(s)' = n + 1
      BY <2>2, <2>3 DEF Revision
    <3> QED BY <2>3, <3>1 DEF Log, EntryOf
  <2>8. Log(s) = [i \in 1..n |-> EntryOf(sessions[s][i])]
    BY <2>1 DEF Log
  <2>9. \A i \in 1..n : Log(s)[i] = EntryOf(e[i]) /\ Log(s)[i].turn # turn.turn
    BY <2>2, <2>8 DEF EntryOf
  <2>10. Log(s)' = Append(Log(s), new) /\ ToSet(Log(s))' = ToSet(Log(s)) \union {new}
    <3>1. PICK p : p = Log(s)'
      OBVIOUS
    <3>2. /\ DOMAIN p = 1..(n + 1) /\ p = [i \in 1..(n + 1) |-> p[i]]
          /\ \A i \in 1..n : p[i] = Log(s)[i]
          /\ p[n + 1] = new
      BY <2>5, <2>7, <2>9, <3>1
    <3>3. PICK q \in Seq(Conversation!Entries) : q = Log(s) /\ n = Len(q)
      BY <2>1, LogTyped
    <3>4. \A i \in 1..n : p[i] = q[i]
      BY <3>2, <3>3
    <3>5. GrownBy(p, q, n, new)
      BY <3>2, <3>4 DEF GrownBy
    <3>6. Extended(p, q, new)
      BY <2>6, <3>3, <3>5, GrownSequence, Zenon
    <3>7. ToSet(Log(s))' = ToSet(p)
      BY <3>1 DEF ToSet
    <3> QED BY <3>1, <3>3, <3>6, <3>7 DEF Extended
  <2>11. \A t \in TurnIds : t # s => ToSet(Log(t))' = ToSet(Log(t))
    BY <2>4 DEF ToSet
  <2>12. /\ LogView' = [LogView EXCEPT ![s] = Append(@, new)]
         /\ ToldView' = [ToldView EXCEPT ![s] = @ \union {new}]
    BY <2>4, <2>10, <2>11, Views
  <2>13. \A i \in DOMAIN LogView[s] : LogView[s][i].turn # new.turn
    BY <2>6, <2>8, <2>9, Views
  <2>14. Conversation!Extend(s, new)
    BY <2>12, <2>13 DEF Conversation!Extend
  <2> QED BY <2>6, <2>14 DEF Conversation!Next
<1> QED BY <1>7, <1>8, <1>9

LEMMA LossForgets ==
  ASSUME WInv, SessionLost
  PROVE  Conversation!Next
<1>1. PICK s \in TurnIds : sessions' = [sessions EXCEPT ![s] = None]
  BY DEF SessionLost
<1>2. sessions'[s] = None /\ \A t \in TurnIds : t # s => sessions'[t] = sessions[t]
  BY <1>1 DEF WInv, TypeOK
<1>3. \A t \in TurnIds : t # s => Log(t)' = Log(t) /\ ToSet(Log(t))' = ToSet(Log(t))
  BY <1>2 DEF Log, Revision, ToSet
<1>4. Log(s)' = <<>>
  <2>1. Revision(s)' = 0
    BY <1>2 DEF Revision
  <2>2. Log(s)' = [i \in {} |-> EntryOf(sessions'[s][i])]
    BY <2>1 DEF Log, EntryOf
  <2> QED BY <2>2
<1>5. ToSet(Log(s))' = {}
  BY <1>4 DEF ToSet
<1>6. LogView' = [LogView EXCEPT ![s] = <<>>] /\ ToldView' = [ToldView EXCEPT ![s] = {}]
  BY <1>3, <1>4, <1>5, Views
<1> QED BY <1>6 DEF Conversation!Next, Conversation!Forget

LEMMA InitMaps == Init => Conversation!Init
<1> SUFFICES ASSUME Init PROVE Conversation!Init
  OBVIOUS
<1>1. \A s \in TurnIds : Revision(s) = 0
  BY DEF Init, Revision
<1>2. \A s \in TurnIds : Log(s) = <<>>
  <2> TAKE s \in TurnIds
  <2>1. Log(s) = [i \in {} |-> EntryOf(sessions[s][i])]
    BY <1>1 DEF Log
  <2> QED BY <2>1
<1>3. \A s \in TurnIds : ToSet(Log(s)) = {}
  BY <1>2 DEF ToSet
<1> QED BY <1>2, <1>3, Views DEF Conversation!Init

LEMMA StepMaps ==
  WInv /\ [Next]_vars => [Conversation!Next]_<<LogView, ToldView>>
<1> SUFFICES ASSUME WInv, [Next]_vars
             PROVE  Conversation!Next \/ UNCHANGED <<LogView, ToldView>>
  OBVIOUS
<1>1. ASSUME sessions' = sessions PROVE UNCHANGED <<LogView, ToldView>>
  BY <1>1 DEF LogView, ToldView, Revision
<1>2. CASE Serve
  BY <1>2, ServeExtends
<1>3. CASE SessionLost
  BY <1>3, LossForgets
<1>4. CASE StartCheck \/ RetryReadiness \/ FinishCheck \/ CheckFails \/ Ask \/ Retry \/ NewChat \/ Reload
  BY <1>1, <1>4 DEF StartCheck, RetryReadiness, FinishCheck, CheckFails, Ask, Retry,
                    NewChat, Reload, server
<1>5. CASE ConnectionLost \/ Deliver \/ ReleaseActivated \/ UNCHANGED vars
  BY <1>1, <1>5 DEF ConnectionLost, Deliver, ReleaseActivated, vars, server
<1> QED BY <1>2, <1>3, <1>4, <1>5 DEF Next

\* The coarser server of this module keeps the promise that AnalystSession keeps: a
\* session grows at its end by turns it does not have, or is lost whole, whatever
\* the page sends, repeats and gives up (analyst_sessions.py).
THEOREM SessionsKeepTheLog == Spec => KeepsConversationLog
BY InitMaps, StepMaps, ConversationInvariant, PTL
   DEF Spec, KeepsConversationLog, Conversation!Spec

\* One submission at a time: the page waits for one reply at most, and that reply
\* is to the turn that it would repeat (use-analyst.ts; docs/analyst-evidence-loop.md,
\* "prevents synchronous duplicate submission").
THEOREM OneSubmissionAtATime == Spec => []OneReplyDue
<1>1. WInv => OneReplyDue
  BY DEF WInv
<1> QED BY <1>1, ConversationInvariant, PTL

\* However often a question is repeated, the chat has one answer to its turn.
THEOREM OneAnswerOnScreen == Spec => []OneAnswerPerTurn(chat.messages)
<1>1. WInv => OneAnswerPerTurn(chat.messages)
  BY DEF WInv, MessagesInv
<1> QED BY <1>1, ConversationInvariant, PTL
================================================================================
