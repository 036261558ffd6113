------------------------- MODULE AnalystSessionProofs -------------------------
(******************************************************************************)
(* Theorems about AnalystSession for every number of attempts, turns and      *)
(* requests, and any number of losses.  The inductive invariant says what     *)
(* owner and revision check for a commit: an attempt that passes both started *)
(* from the state the session holds now, and its turn is not in it.  At the   *)
(* end, that AnalystSession implements ConversationLog.                       *)
(******************************************************************************)
EXTENDS AnalystSession, SequenceTheorems, TLAPS

Arrived(a) == phase[a] # "new"

\* The attempt's commit script may still run.
MayCommit(a) == phase[a] = "working" \/ "commit" \in pending[a]

\* A script waits for nobody only after its handler has gone on.
Scripts ==
  \A a \in Attempts :
    /\ phase[a] = "new" => request[a] = NoRequest
    /\ Arrived(a) => request[a] \in Requests
    /\ "begin" \in pending[a] => phase[a] = "done" /\ "commit" \notin pending[a]
    /\ "commit" \in pending[a] => phase[a] \in {"ending", "done"}

\* An attempt started from the state its request expects.
Started ==
  \A a \in Attempts : MayCommit(a) => Len(base[a]) = request[a].expected

\* The two checks of _COMMIT exclude a lost update and a second reply.
CommitsAreFresh ==
  \A a \in Attempts : MayCommit(a) /\ Commits(a) =>
    base[a] = State(SessionOf(a)) /\ Recorded(a) = NoReply

Members ==
  \A s \in Sessions : \A i \in DOMAIN State(s) : Arrived(State(s)[i])

Acks ==
  \A a \in Attempts : ack[a] # NoReply =>
    /\ Arrived(a)
    /\ Arrived(ack[a].reply)
    /\ ack[a].loss <= losses[SessionOf(a)]

SInv ==
  /\ TypeOK
  /\ Scripts
  /\ Started
  /\ CommitsAreFresh
  /\ Members
  /\ RevisionCountsTurns
  /\ Acks
  /\ AcknowledgedStays

--------------------------------------------------------------------------------
\* What the scripts read of a session is typed, whether or not the key exists.
LEMMA Reads ==
  ASSUME TypeOK, NEW s \in Sessions
  PROVE  /\ Revision(s) \in Nat
         /\ State(s) \in Seq(Attempts)
         /\ StoredTurns(s) \in [TurnIds -> Attempts \union {NoReply}]
BY DEF TypeOK, SessionRecords, Revision, State, StoredTurns, NoTurns

\* An attempt that has arrived names a session and a turn.
LEMMA ArrivedRequest ==
  ASSUME TypeOK, Scripts, NEW a \in Attempts, Arrived(a)
  PROVE  /\ request[a] \in Requests
         /\ SessionOf(a) \in Sessions
         /\ request[a].turn \in TurnIds
         /\ request[a].expected \in Nat
BY RequestAssumption DEF Scripts, SessionOf

LEMMA InitSInv == Init => SInv
<1> SUFFICES ASSUME Init PROVE SInv
  OBVIOUS
<1>1. TypeOK
  BY RequestAssumption DEF Init, TypeOK
<1>2. \A s \in Sessions : Revision(s) = 0 /\ State(s) = << >> /\ StoredTurns(s) = NoTurns
  BY DEF Init, Revision, State, StoredTurns
<1>3. Scripts /\ Started /\ CommitsAreFresh
  BY DEF Init, Scripts, Started, CommitsAreFresh, MayCommit, Arrived
<1>4. Members
  BY <1>2 DEF Members
<1>5. RevisionCountsTurns
  BY <1>2 DEF RevisionCountsTurns, NoTurns
<1>6. Acks /\ AcknowledgedStays
  BY DEF Init, Acks, AcknowledgedStays
<1> QED
  BY <1>1, <1>3, <1>4, <1>5, <1>6 DEF SInv

--------------------------------------------------------------------------------
\* What a step keeps that changes no session and no request that has arrived.

Keeps ==
  /\ UNCHANGED session
  /\ \A a \in Attempts : Arrived(a) => Arrived(a)' /\ request'[a] = request[a]

LEMMA KeepsSessions ==
  ASSUME SInv, Keeps
  PROVE  RevisionCountsTurns' /\ Members'
<1>1. \A s \in Sessions : /\ Revision(s)' = Revision(s)
                          /\ State(s)' = State(s)
                          /\ StoredTurns(s)' = StoredTurns(s)
  BY DEF Keeps, Revision, State, StoredTurns
<1>2. \A s \in Sessions : \A i \in DOMAIN State(s) :
        State(s)[i] \in Attempts /\ Arrived(State(s)[i])
  BY Reads DEF SInv, Members
<1>3. \A s \in Sessions : \A i \in DOMAIN State(s) :
        request'[State(s)[i]] = request[State(s)[i]] /\ phase'[State(s)[i]] # "new"
  BY <1>2 DEF Keeps, Arrived
<1>4. Members'
  BY <1>1, <1>3 DEF Members, Arrived
<1>5. RevisionCountsTurns'
  <2> SUFFICES ASSUME NEW s \in Sessions
               PROVE  /\ Revision(s)' = Len(State(s)')
                      /\ \A i \in DOMAIN State(s)' :
                           /\ StoredTurns(s)'[request'[State(s)'[i]].turn] = State(s)'[i]
                           /\ request'[State(s)'[i]].expected + 1 = i
                      /\ \A t \in TurnIds : StoredTurns(s)'[t] # NoReply =>
                           \E i \in DOMAIN State(s)' :
                             /\ State(s)'[i] = StoredTurns(s)'[t]
                             /\ request'[State(s)'[i]].turn = t
    BY DEF RevisionCountsTurns
  <2>1. /\ Revision(s) = Len(State(s))
        /\ \A i \in DOMAIN State(s) :
             /\ StoredTurns(s)[request[State(s)[i]].turn] = State(s)[i]
             /\ request[State(s)[i]].expected + 1 = i
        /\ \A t \in TurnIds : StoredTurns(s)[t] # NoReply =>
             \E i \in DOMAIN State(s) :
               /\ State(s)[i] = StoredTurns(s)[t]
               /\ request[State(s)[i]].turn = t
    BY DEF SInv, RevisionCountsTurns
  <2> QED
    BY <1>1, <1>3, <2>1
<1> QED
  BY <1>4, <1>5

LEMMA KeepsCommits ==
  ASSUME SInv, Keeps,
         \A a \in Attempts : MayCommit(a)' =>
           /\ MayCommit(a)
           /\ base'[a] = base[a]
           /\ lease'[SessionOf(a)] = a => lease[SessionOf(a)] = a
  PROVE  Started' /\ CommitsAreFresh'
<1> SUFFICES ASSUME NEW a \in Attempts, MayCommit(a)'
             PROVE  /\ Len(base'[a]) = request'[a].expected
                    /\ Commits(a)' =>
                         base'[a] = State(SessionOf(a))' /\ Recorded(a)' = NoReply
  BY DEF Started, CommitsAreFresh
<1>1. MayCommit(a) /\ base'[a] = base[a]
  OBVIOUS
<1>2. Arrived(a)
  BY <1>1 DEF SInv, Scripts, MayCommit, Arrived
<1>3. request'[a] = request[a]
  BY <1>2 DEF Keeps
<1>4. Len(base'[a]) = request'[a].expected
  BY <1>1, <1>3 DEF SInv, Started
<1>5. /\ SessionOf(a)' = SessionOf(a)
      /\ Revision(SessionOf(a))' = Revision(SessionOf(a))
      /\ State(SessionOf(a))' = State(SessionOf(a))
      /\ Recorded(a)' = Recorded(a)
  BY <1>3 DEF Keeps, SessionOf, Revision, State, Recorded, StoredTurns
<1>6. Commits(a)' => Commits(a)
  BY <1>3, <1>5 DEF Commits
<1> QED
  BY <1>1, <1>4, <1>5, <1>6 DEF SInv, CommitsAreFresh

LEMMA KeepsAcks ==
  ASSUME SInv, Keeps, UNCHANGED <<losses, ack>>
  PROVE  Acks' /\ AcknowledgedStays'
<1> SUFFICES ASSUME NEW a \in Attempts, ack[a] # NoReply
             PROVE  /\ Arrived(a)' /\ Arrived(ack[a].reply)'
                    /\ ack[a].loss <= losses[SessionOf(a)']
                    /\ request'[ack[a].reply].turn = request'[a].turn
                    /\ request'[ack[a].reply].digest = request'[a].digest
                    /\ ack[a].loss = losses[SessionOf(a)'] =>
                         /\ request'[ack[a].reply].expected + 1 \in DOMAIN State(SessionOf(a))'
                         /\ State(SessionOf(a))'[request'[ack[a].reply].expected + 1] = ack[a].reply
  BY DEF Acks, AcknowledgedStays
<1>1. ack[a].reply \in Attempts /\ Arrived(a) /\ Arrived(ack[a].reply)
  BY DEF SInv, TypeOK, Acks
<1>2. request'[a] = request[a] /\ request'[ack[a].reply] = request[ack[a].reply]
  BY <1>1 DEF Keeps
<1>3. SessionOf(a)' = SessionOf(a) /\ State(SessionOf(a))' = State(SessionOf(a))
  BY <1>2 DEF SessionOf, State, Keeps
<1> QED
  BY <1>1, <1>2, <1>3 DEF SInv, Acks, AcknowledgedStays, Keeps

--------------------------------------------------------------------------------
\* What a commit does: it appends its attempt to the state the session has.
LEMMA CommitEffect ==
  ASSUME SInv, NEW a \in Attempts, MayCommit(a), Commits(a), StoreCommit(a)
  PROVE  /\ Arrived(a)
         /\ session' \in [Sessions -> SessionRecords \union {Absent}]
         /\ lease' \in [Sessions -> Attempts \union {Free}]
         /\ lease'[SessionOf(a)] = Free
         /\ \A s \in Sessions : s # SessionOf(a) =>
              /\ lease'[s] = lease[s]
              /\ Revision(s)' = Revision(s)
              /\ State(s)' = State(s)
              /\ StoredTurns(s)' = StoredTurns(s)
         /\ \A s \in Sessions : s = SessionOf(a) =>
              /\ Len(State(s)) = request[a].expected
              /\ StoredTurns(s)[request[a].turn] = NoReply
              /\ Revision(s)' = request[a].expected + 1
              /\ State(s)' = Append(State(s), a)
              /\ StoredTurns(s)' = [StoredTurns(s) EXCEPT ![request[a].turn] = a]
<1> DEFINE s == SessionOf(a)
<1>1. TypeOK /\ Arrived(a)
  BY DEF SInv, Scripts, MayCommit, Arrived
<1>2. s \in Sessions /\ request[a].turn \in TurnIds /\ request[a].expected \in Nat
  BY <1>1, ArrivedRequest DEF SInv
<1>3. /\ base[a] = State(s) /\ StoredTurns(s)[request[a].turn] = NoReply
      /\ Revision(s) = request[a].expected /\ Len(State(s)) = request[a].expected
  BY DEF SInv, CommitsAreFresh, Started, Recorded, Commits
<1>4. /\ State(s) \in Seq(Attempts)
      /\ StoredTurns(s) \in [TurnIds -> Attempts \union {NoReply}]
  BY <1>1, <1>2, Reads
<1>5. /\ session' = [session EXCEPT ![s] = Committed(a)]
      /\ lease' = [lease EXCEPT ![s] = Free]
  BY DEF StoreCommit
<1>6. Committed(a) \in SessionRecords
  <2>1. Append(base[a], a) \in Seq(Attempts)
    BY <1>3, <1>4
  <2>2. [StoredTurns(s) EXCEPT ![request[a].turn] = a] \in [TurnIds -> Attempts \union {NoReply}]
    BY <1>2, <1>4
  <2>3. Revision(s) + 1 \in Nat
    BY <1>2, <1>3
  <2> QED
    BY <2>1, <2>2, <2>3 DEF Committed, SessionRecords
<1>7. /\ session' \in [Sessions -> SessionRecords \union {Absent}]
      /\ lease' \in [Sessions -> Attempts \union {Free}]
      /\ session'[s] = Committed(a) /\ lease'[s] = Free
      /\ \A o \in Sessions : o # s => session'[o] = session[o] /\ lease'[o] = lease[o]
  BY <1>1, <1>2, <1>5, <1>6 DEF TypeOK
<1>8. Committed(a) # Absent
  BY <1>6, RequestAssumption
<1>9. ASSUME NEW o \in Sessions, o = s
      PROVE  /\ Revision(o)' = Revision(s) + 1
             /\ State(o)' = Append(base[a], a)
             /\ StoredTurns(o)' = [StoredTurns(s) EXCEPT ![request[a].turn] = a]
  BY <1>7, <1>8, <1>9 DEF Revision, State, StoredTurns, Committed
<1>10. ASSUME NEW o \in Sessions, o # s
       PROVE  /\ Revision(o)' = Revision(o)
              /\ State(o)' = State(o)
              /\ StoredTurns(o)' = StoredTurns(o)
  BY <1>7, <1>10 DEF Revision, State, StoredTurns
<1> HIDE DEF s
<1> QED
  BY <1>1, <1>3, <1>7, <1>9, <1>10 DEF s

LEMMA StoreKeeps ==
  ASSUME SInv, NEW a \in Attempts, MayCommit(a), Commits(a), StoreCommit(a),
         UNCHANGED <<request, base>>,
         \A b \in Attempts : Arrived(b) => Arrived(b)',
         \A b \in Attempts : MayCommit(b)' => MayCommit(b)
  PROVE  Members' /\ RevisionCountsTurns' /\ Started' /\ CommitsAreFresh'
<1>1. /\ Arrived(a) /\ SessionOf(a) \in Sessions
      /\ request[a].turn \in TurnIds /\ request[a].expected \in Nat
  BY CommitEffect, ArrivedRequest DEF SInv
<1>2. \A s \in Sessions : \A i \in DOMAIN State(s) :
        State(s)[i] \in Attempts /\ phase'[State(s)[i]] # "new"
  BY Reads DEF SInv, Members, Arrived
<1>3. Members'
  <2> SUFFICES ASSUME NEW s \in Sessions, NEW i \in DOMAIN State(s)'
               PROVE  phase'[State(s)'[i]] # "new"
    BY DEF Members, Arrived
  <2>1. CASE s # SessionOf(a)
    BY <2>1, <1>2, CommitEffect
  <2>2. CASE s = SessionOf(a)
    <3>1. State(s)' = Append(State(s), a) /\ State(s) \in Seq(Attempts)
      BY <2>2, CommitEffect, Reads DEF SInv
    <3>2. i \in 1..Len(State(s)) + 1
      BY <3>1
    <3>3. CASE i \in DOMAIN State(s)
      BY <3>1, <3>3, <1>2
    <3>4. CASE i = Len(State(s)) + 1
      BY <3>1, <3>4, <1>1 DEF Arrived
    <3> QED
      BY <3>1, <3>2, <3>3, <3>4
  <2> QED
    BY <2>1, <2>2
<1>4. RevisionCountsTurns'
  <2> SUFFICES ASSUME NEW s \in Sessions
               PROVE  /\ Revision(s)' = Len(State(s)')
                      /\ \A i \in DOMAIN State(s)' :
                           /\ StoredTurns(s)'[request[State(s)'[i]].turn] = State(s)'[i]
                           /\ request[State(s)'[i]].expected + 1 = i
                      /\ \A t \in TurnIds : StoredTurns(s)'[t] # NoReply =>
                           \E i \in DOMAIN State(s)' :
                             /\ State(s)'[i] = StoredTurns(s)'[t]
                             /\ request[State(s)'[i]].turn = t
    BY DEF RevisionCountsTurns
  <2>1. /\ Revision(s) = Len(State(s))
        /\ \A i \in DOMAIN State(s) :
             /\ StoredTurns(s)[request[State(s)[i]].turn] = State(s)[i]
             /\ request[State(s)[i]].expected + 1 = i
        /\ \A t \in TurnIds : StoredTurns(s)[t] # NoReply =>
             \E i \in DOMAIN State(s) :
               /\ State(s)[i] = StoredTurns(s)[t]
               /\ request[State(s)[i]].turn = t
    BY DEF SInv, RevisionCountsTurns
  <2>2. CASE s # SessionOf(a)
    BY <2>1, <2>2, CommitEffect
  <2>3. CASE s = SessionOf(a)
    <3> DEFINE n == Len(State(s))
    <3>1. /\ n = request[a].expected
          /\ StoredTurns(s)[request[a].turn] = NoReply
          /\ Revision(s)' = n + 1
          /\ State(s)' = Append(State(s), a)
          /\ StoredTurns(s)' = [StoredTurns(s) EXCEPT ![request[a].turn] = a]
      BY <2>3, CommitEffect
    <3>2. /\ State(s) \in Seq(Attempts)
          /\ StoredTurns(s) \in [TurnIds -> Attempts \union {NoReply}]
      BY Reads DEF SInv
    <3>3. /\ DOMAIN State(s) = 1..n /\ n \in Nat
          /\ DOMAIN State(s)' = 1..n + 1 /\ Len(State(s)') = n + 1
          /\ State(s)'[n + 1] = a
          /\ \A i \in 1..n : State(s)'[i] = State(s)[i] /\ State(s)[i] \in Attempts
      BY <3>1, <3>2
    <3>4. StoredTurns(s)'[request[a].turn] = a
      BY <3>1, <3>2, <1>1
    <3>5. \A t \in TurnIds : t # request[a].turn => StoredTurns(s)'[t] = StoredTurns(s)[t]
      BY <3>1, <3>2
    <3>6. ASSUME NEW i \in 1..n
          PROVE  /\ StoredTurns(s)'[request[State(s)'[i]].turn] = State(s)'[i]
                 /\ request[State(s)'[i]].expected + 1 = i
      <4>1. State(s)[i] \in Attempts /\ State(s)'[i] = State(s)[i] /\ i \in DOMAIN State(s)
        BY <3>3
      <4>2. request[State(s)[i]].turn \in TurnIds
        BY <4>1, ArrivedRequest DEF SInv, Members
      <4>3. request[State(s)[i]].turn # request[a].turn
        BY <2>1, <3>1, <4>1, RequestAssumption
      <4> QED
        BY <2>1, <3>5, <4>1, <4>2, <4>3
    <3>7. ASSUME NEW t \in TurnIds, StoredTurns(s)'[t] # NoReply
          PROVE  \E i \in 1..n + 1 : /\ State(s)'[i] = StoredTurns(s)'[t]
                                     /\ request[State(s)'[i]].turn = t
      <4>1. CASE t = request[a].turn
        BY <4>1, <3>3, <3>4
      <4>2. CASE t # request[a].turn
        <5>1. PICK i \in 1..n : /\ State(s)[i] = StoredTurns(s)[t]
                                /\ request[State(s)[i]].turn = t
          BY <4>2, <3>7, <3>5, <3>3, <2>1
        <5> QED
          BY <5>1, <4>2, <3>3, <3>5
      <4> QED
        BY <4>1, <4>2
    <3>8. \A i \in 1..n + 1 : i \in 1..n \/ i = n + 1
      BY <3>3
    <3> HIDE DEF n
    <3> QED
      BY <3>1, <3>3, <3>4, <3>6, <3>7, <3>8
  <2> QED
    BY <2>2, <2>3
<1>5. Started'
  BY DEF SInv, Started
<1>6. CommitsAreFresh'
  <2> SUFFICES ASSUME NEW b \in Attempts, MayCommit(b)', Commits(b)'
               PROVE  base[b] = State(SessionOf(b))' /\ Recorded(b)' = NoReply
    BY DEF CommitsAreFresh
  <2>1. Arrived(b) /\ MayCommit(b)
    BY DEF SInv, Scripts, MayCommit, Arrived
  <2>2. SessionOf(b) \in Sessions /\ SessionOf(b)' = SessionOf(b)
    BY <2>1, ArrivedRequest DEF SInv, SessionOf
  <2>3. SessionOf(b) # SessionOf(a)
    BY <2>2, CommitEffect, RequestAssumption DEF Commits
  <2>4. Commits(b) /\ State(SessionOf(b))' = State(SessionOf(b)) /\ Recorded(b)' = Recorded(b)
    BY <2>2, <2>3, CommitEffect DEF Commits, Recorded
  <2> QED
    BY <2>1, <2>4 DEF SInv, CommitsAreFresh
<1> QED
  BY <1>3, <1>4, <1>5, <1>6

LEMMA StoreKeepsAcks ==
  ASSUME SInv, NEW a \in Attempts, MayCommit(a), Commits(a), StoreCommit(a),
         UNCHANGED <<request, losses>>,
         \A b \in Attempts : Arrived(b) => Arrived(b)',
         \A b \in Attempts : \/ ack'[b] = ack[b]
           \/ /\ b = a
              /\ ack'[b] = [reply |-> a, loss |-> losses[SessionOf(a)]]
  PROVE  Acks' /\ AcknowledgedStays'
<1> SUFFICES ASSUME NEW b \in Attempts, ack'[b] # NoReply
             PROVE  /\ Arrived(b)' /\ phase'[ack'[b].reply] # "new"
                    /\ ack'[b].loss <= losses[SessionOf(b)]
                    /\ request[ack'[b].reply].turn = request[b].turn
                    /\ request[ack'[b].reply].digest = request[b].digest
                    /\ ack'[b].loss = losses[SessionOf(b)] =>
                         /\ request[ack'[b].reply].expected + 1 \in DOMAIN State(SessionOf(b))'
                         /\ State(SessionOf(b))'[request[ack'[b].reply].expected + 1] = ack'[b].reply
  BY DEF Acks, AcknowledgedStays, Arrived, SessionOf
<1>0. \A c \in Attempts : SessionOf(c)' = SessionOf(c)
  BY DEF SessionOf
<1>1. Arrived(a) /\ SessionOf(a) \in Sessions /\ request[a].expected \in Nat
  BY CommitEffect, ArrivedRequest DEF SInv
<1>2. /\ State(SessionOf(a)) \in Seq(Attempts)
      /\ State(SessionOf(a))' = Append(State(SessionOf(a)), a)
      /\ Len(State(SessionOf(a))) = request[a].expected
  <2>1. PICK s \in Sessions : s = SessionOf(a) /\ SessionOf(a)' = s
    BY <1>0, <1>1
  <2>2. /\ State(s) \in Seq(Attempts)
        /\ State(s)' = Append(State(s), a)
        /\ Len(State(s)) = request[a].expected
    BY <2>1, CommitEffect, Reads DEF SInv
  <2> QED
    BY <2>1, <2>2
<1>3. CASE ack'[b] = ack[b]
  <2>1. Arrived(b) /\ ack[b].reply \in Attempts /\ Arrived(ack[b].reply)
    BY <1>3 DEF SInv, Acks, TypeOK
  <2>2. SessionOf(b) \in Sessions /\ SessionOf(b) = request[b].session
    BY <2>1, ArrivedRequest DEF SInv, SessionOf
  <2>3. \A i \in DOMAIN State(SessionOf(b)) :
          i \in DOMAIN State(SessionOf(b))' /\ State(SessionOf(b))'[i] = State(SessionOf(b))[i]
    <3>1. PICK s \in Sessions : s = SessionOf(b) /\ SessionOf(b)' = s
      BY <1>0, <2>2
    <3>2. State(s) \in Seq(Attempts) /\ a \in Attempts
      BY Reads DEF SInv
    <3>3. State(s)' = State(s) \/ State(s)' = Append(State(s), a)
      BY CommitEffect
    <3>4. \A i \in DOMAIN State(s) : i \in DOMAIN State(s)' /\ State(s)'[i] = State(s)[i]
      BY <3>2, <3>3
    <3> QED
      BY <3>1, <3>4
  <2>4. phase'[ack[b].reply] # "new"
    BY <2>1 DEF Arrived
  <2> QED
    BY <1>3, <2>1, <2>3, <2>4 DEF SInv, Acks, AcknowledgedStays
<1>4. CASE b = a /\ ack'[b] = [reply |-> a, loss |-> losses[SessionOf(a)]]
  <2>1. losses[SessionOf(a)] <= losses[SessionOf(a)]
    BY <1>1, RequestAssumption DEF SInv, TypeOK
  <2>2. phase'[a] # "new" /\ Arrived(a)'
    BY <1>1 DEF Arrived
  <2> QED
    BY <1>1, <1>2, <1>4, <2>1, <2>2
<1> QED
  BY <1>3, <1>4

--------------------------------------------------------------------------------
\* What each action leaves of the invariant, and what it may change.

LEMMA AckTyped ==
  ASSUME TypeOK, NEW a \in Attempts, NEW r \in Attempts, SessionOf(a) \in Sessions,
         Acknowledge(a, r)
  PROVE  /\ ack' \in [Attempts -> [reply : Attempts, loss : 0..MaxLosses] \union {NoReply}]
         /\ ack'[a] = [reply |-> r, loss |-> losses[SessionOf(a)]]
         /\ \A b \in Attempts : b # a => ack'[b] = ack[b]
BY DEF TypeOK, Acknowledge

LEMMA ArriveStep ==
  ASSUME SInv, NEW a \in Attempts, NEW rq \in Requests, Arrive(a, rq)
  PROVE  SInv'
<1>1. TypeOK'
  BY DEF SInv, TypeOK, Arrive
<1>2. Keeps
  BY DEF SInv, TypeOK, Arrive, Keeps, Arrived
<1>3. Scripts'
  BY DEF SInv, TypeOK, Scripts, Arrive, Arrived
<1>4. ASSUME NEW b \in Attempts, MayCommit(b)'
      PROVE  MayCommit(b) /\ request'[b] = request[b]
  BY <1>4 DEF SInv, TypeOK, Scripts, Arrive, MayCommit
<1>5. Started' /\ CommitsAreFresh'
  BY <1>2, <1>4, KeepsCommits DEF Arrive, SessionOf
<1>6. Acks' /\ AcknowledgedStays'
  BY <1>2, KeepsAcks DEF Arrive
<1> QED
  BY <1>1, <1>2, <1>3, <1>5, <1>6, KeepsSessions DEF SInv

LEMMA BeginExecutesStep ==
  ASSUME SInv, NEW a \in Attempts, BeginExecutes(a)
  PROVE  SInv'
<1>1. Arrived(a) /\ SessionOf(a) \in Sessions /\ request[a].expected \in Nat
  BY ArrivedRequest DEF SInv, BeginExecutes, Arrived
<1>2. /\ State(SessionOf(a)) \in Seq(Attempts)
      /\ Len(State(SessionOf(a))) = request[a].expected
      /\ Recorded(a) = NoReply
  BY <1>1, Reads DEF SInv, RevisionCountsTurns, BeginExecutes, Executes
<1>3. TypeOK'
  BY <1>1, <1>2 DEF SInv, TypeOK, BeginExecutes
<1>4. Keeps
  BY DEF SInv, TypeOK, BeginExecutes, Keeps, Arrived
<1>5. Scripts'
  BY DEF SInv, TypeOK, Scripts, BeginExecutes, Arrived
<1>6. ASSUME NEW b \in Attempts, MayCommit(b)'
      PROVE  /\ Len(base'[b]) = request'[b].expected
             /\ Commits(b)' => base'[b] = State(SessionOf(b))' /\ Recorded(b)' = NoReply
  <2>1. /\ SessionOf(b)' = SessionOf(b)
        /\ State(SessionOf(b))' = State(SessionOf(b))
        /\ Revision(SessionOf(b))' = Revision(SessionOf(b))
        /\ Recorded(b)' = Recorded(b)
    BY DEF BeginExecutes, SessionOf, State, Revision, Recorded, StoredTurns
  <2>2. CASE b = a
    BY <2>1, <2>2, <1>2 DEF BeginExecutes, SInv, TypeOK
  <2>3. CASE b # a
    <3>1. MayCommit(b) /\ base'[b] = base[b] /\ request' = request
      BY <1>6, <2>3 DEF MayCommit, BeginExecutes, SInv, TypeOK
    <3>2. SessionOf(b) \in Sessions
      BY <3>1, ArrivedRequest DEF SInv, Scripts, MayCommit, Arrived
    <3>3. Commits(b)' => Commits(b)
      BY <2>1, <2>3, <3>1, <3>2 DEF Commits, BeginExecutes, SInv, TypeOK
    <3> QED
      BY <2>1, <3>1, <3>3 DEF SInv, Started, CommitsAreFresh
  <2> QED
    BY <2>2, <2>3
<1>7. Acks' /\ AcknowledgedStays'
  BY <1>4, KeepsAcks DEF BeginExecutes
<1> QED
  BY <1>3, <1>4, <1>5, <1>6, <1>7, KeepsSessions DEF SInv, Started, CommitsAreFresh

LEMMA BeginReplaysStep ==
  ASSUME SInv, NEW a \in Attempts, BeginReplays(a)
  PROVE  SInv'
<1>1. Arrived(a) /\ SessionOf(a) \in Sessions /\ request[a].turn \in TurnIds
  BY ArrivedRequest DEF SInv, BeginReplays, Arrived
<1>2. PICK i \in DOMAIN State(SessionOf(a)) : /\ State(SessionOf(a))[i] = Recorded(a)
                                             /\ request[State(SessionOf(a))[i]].turn = request[a].turn
  BY <1>1 DEF SInv, RevisionCountsTurns, Recorded, BeginReplays, Replays
<1>3. Recorded(a) \in Attempts /\ Arrived(Recorded(a)) /\ request[Recorded(a)].expected + 1 = i
  BY <1>1, <1>2, Reads DEF SInv, Members, RevisionCountsTurns
<1>4. /\ ack' \in [Attempts -> [reply : Attempts, loss : 0..MaxLosses] \union {NoReply}]
      /\ ack'[a] = [reply |-> Recorded(a), loss |-> losses[SessionOf(a)]]
      /\ \A b \in Attempts : b # a => ack'[b] = ack[b]
  BY <1>1, <1>3, AckTyped DEF SInv, BeginReplays
<1>5. TypeOK'
  BY <1>4 DEF SInv, TypeOK, BeginReplays
<1>6. Keeps
  BY DEF SInv, TypeOK, BeginReplays, Keeps, Arrived
<1>7. Scripts'
  BY DEF SInv, TypeOK, Scripts, BeginReplays, Arrived
<1>8. Started' /\ CommitsAreFresh'
  BY <1>6, KeepsCommits DEF BeginReplays, MayCommit, SInv, TypeOK
<1>9. ASSUME NEW b \in Attempts, ack'[b] # NoReply
      PROVE  /\ Arrived(b)' /\ phase'[ack'[b].reply] # "new"
             /\ ack'[b].loss <= losses[SessionOf(b)]
             /\ request[ack'[b].reply].turn = request[b].turn
             /\ request[ack'[b].reply].digest = request[b].digest
             /\ ack'[b].loss = losses[SessionOf(b)] =>
                  /\ request[ack'[b].reply].expected + 1 \in DOMAIN State(SessionOf(b))
                  /\ State(SessionOf(b))[request[ack'[b].reply].expected + 1] = ack'[b].reply
  <2>1. CASE b = a
    <3>1. request[Recorded(a)].digest = request[a].digest
      BY DEF BeginReplays, Replays
    <3>2. losses[SessionOf(a)] <= losses[SessionOf(a)]
      BY <1>1, RequestAssumption DEF SInv, TypeOK
    <3>3. phase'[Recorded(a)] # "new" /\ Arrived(a)'
      BY <1>1, <1>3, <1>6 DEF Keeps, Arrived
    <3> QED
      BY <2>1, <1>2, <1>3, <1>4, <3>1, <3>2, <3>3
  <2>2. CASE b # a
    <3>1. ack'[b] = ack[b] /\ ack[b].reply \in Attempts /\ Arrived(ack[b].reply) /\ Arrived(b)
      BY <1>4, <1>9, <2>2 DEF SInv, TypeOK, Acks
    <3>2. Arrived(b)' /\ phase'[ack[b].reply] # "new"
      BY <1>6, <3>1 DEF Keeps, Arrived
    <3> QED
      BY <1>9, <3>1, <3>2 DEF SInv, Acks, AcknowledgedStays
  <2> QED
    BY <2>1, <2>2
<1>10. Acks' /\ AcknowledgedStays'
  <2>1. UNCHANGED <<session, losses, request>>
    BY DEF BeginReplays
  <2>2. Acks'
    BY <1>9, <2>1 DEF Acks, Arrived, SessionOf
  <2>3. AcknowledgedStays'
    BY <1>9, <2>1 DEF AcknowledgedStays, SessionOf, State
  <2> QED
    BY <2>2, <2>3
<1> QED
  BY <1>5, <1>6, <1>7, <1>8, <1>10, KeepsSessions DEF SInv

\* The steps of a handler or of a script that store nothing.
Idles(a) ==
  \/ BeginConflicts(a)
  \/ BeginUnavailable(a)
  \/ RunBegin(a)
  \/ TurnFails(a)
  \/ CommitUnanswered(a)
  \/ RunCommit(a) /\ ~ Commits(a)
  \/ Abort(a)
  \/ AbortLost(a)

LEMMA IdleStep ==
  ASSUME SInv, NEW a \in Attempts, Idles(a)
  PROVE  SInv'
<1> USE DEF BeginConflicts, BeginUnavailable, RunBegin, TurnFails, CommitUnanswered,
            RunCommit, Abort, AbortLost
<1>1. UNCHANGED <<session, losses, request, base, ack>>
  BY DEF Idles, StoreCommit
<1>2. Arrived(a) /\ SessionOf(a) \in Sessions
  BY ArrivedRequest DEF SInv, Scripts, Idles, Arrived
<1>3. /\ phase' \in [Attempts -> {"new", "beginning", "working", "ending", "done"}]
      /\ pending' \in [Attempts -> SUBSET {"begin", "commit"}]
      /\ \A b \in Attempts : b # a => phase'[b] = phase[b] /\ pending'[b] = pending[b]
  <2>1. \/ phase' = phase
        \/ phase' = [phase EXCEPT ![a] = "ending"]
        \/ phase' = [phase EXCEPT ![a] = "done"]
    BY DEF Idles
  <2>2. \/ pending' = pending
        \/ pending' = [pending EXCEPT ![a] = {}]
        \/ pending' = [pending EXCEPT ![a] = {"begin"}]
        \/ pending' = [pending EXCEPT ![a] = {"commit"}]
    BY DEF Idles
  <2>3. /\ phase' \in [Attempts -> {"new", "beginning", "working", "ending", "done"}]
        /\ \A b \in Attempts : b # a => phase'[b] = phase[b]
    BY <2>1 DEF SInv, TypeOK
  <2>4. PICK x \in SUBSET {"begin", "commit"} :
          pending' = pending \/ pending' = [pending EXCEPT ![a] = x]
    BY <2>2
  <2>5. /\ pending' \in [Attempts -> SUBSET {"begin", "commit"}]
        /\ \A b \in Attempts : b # a => pending'[b] = pending[b]
    <3>1. pending \in [Attempts -> SUBSET {"begin", "commit"}]
      BY DEF SInv, TypeOK
    <3> QED
      BY ONLY <3>1, <2>4, a \in Attempts
  <2> QED
    BY <2>3, <2>5
<1>4. lease' = lease \/ lease' = [lease EXCEPT ![SessionOf(a)] = Free]
      \/ /\ lease' = [lease EXCEPT ![SessionOf(a)] = a]
         /\ "begin" \in pending[a]
         /\ pending'[a] = {}
         /\ phase' = phase
  BY DEF Idles, SInv, TypeOK
<1>5. TypeOK'
  <2>1. lease' \in [Sessions -> Attempts \union {Free}]
    BY <1>2, <1>4 DEF SInv, TypeOK
  <2> QED
    BY <1>1, <1>3, <2>1 DEF SInv, TypeOK
<1>6. Arrived(a)' /\ Keeps
  BY <1>1, <1>2, <1>3 DEF Keeps, Arrived, Idles, SInv, TypeOK, Scripts
<1>7. Scripts'
  <2>1. /\ "begin" \in pending'[a] => phase'[a] = "done" /\ "commit" \notin pending'[a]
        /\ "commit" \in pending'[a] => phase'[a] \in {"ending", "done"}
    BY DEF Idles, SInv, TypeOK, Scripts
  <2> SUFFICES ASSUME NEW b \in Attempts
               PROVE  /\ phase'[b] = "new" => request[b] = NoRequest
                      /\ phase'[b] # "new" => request[b] \in Requests
                      /\ "begin" \in pending'[b] =>
                           phase'[b] = "done" /\ "commit" \notin pending'[b]
                      /\ "commit" \in pending'[b] => phase'[b] \in {"ending", "done"}
    BY <1>1 DEF Scripts, Arrived
  <2>2. CASE b = a
    BY <2>1, <2>2, <1>2, <1>6 DEF SInv, Scripts, Arrived
  <2>3. CASE b # a
    BY <2>3, <1>3 DEF SInv, Scripts, Arrived
  <2> QED
    BY <2>2, <2>3
<1>8. ASSUME NEW b \in Attempts, MayCommit(b)'
      PROVE  /\ MayCommit(b)
             /\ lease'[SessionOf(b)] = b => lease[SessionOf(b)] = b
  <2>1. MayCommit(b)
    BY <1>3, <1>8 DEF MayCommit, Idles, SInv, TypeOK
  <2>2. SessionOf(b) \in Sessions
    BY <2>1, ArrivedRequest DEF SInv, Scripts, MayCommit, Arrived
  <2>3. "begin" \in pending[a] /\ pending'[a] = {} /\ phase' = phase => b # a
    BY <1>8 DEF MayCommit, SInv, Scripts
  <2> QED
    BY <1>2, <1>4, <2>1, <2>2, <2>3, RequestAssumption DEF SInv, TypeOK
<1>9. Started' /\ CommitsAreFresh'
  BY <1>1, <1>6, <1>8, KeepsCommits
<1> QED
  BY <1>1, <1>5, <1>6, <1>7, <1>9, KeepsSessions, KeepsAcks DEF SInv

LEMMA CommitSucceedsStep ==
  ASSUME SInv, NEW a \in Attempts, CommitSucceeds(a)
  PROVE  SInv'
<1>1. MayCommit(a) /\ Commits(a) /\ StoreCommit(a)
  BY DEF CommitSucceeds, MayCommit
<1>2. /\ Arrived(a)
      /\ session' \in [Sessions -> SessionRecords \union {Absent}]
      /\ lease' \in [Sessions -> Attempts \union {Free}]
  BY <1>1, CommitEffect
<1>3. SessionOf(a) \in Sessions
  BY <1>2, ArrivedRequest DEF SInv
<1>4. /\ ack' \in [Attempts -> [reply : Attempts, loss : 0..MaxLosses] \union {NoReply}]
      /\ ack'[a] = [reply |-> a, loss |-> losses[SessionOf(a)]]
      /\ \A b \in Attempts : b # a => ack'[b] = ack[b]
  BY <1>3, AckTyped DEF SInv, CommitSucceeds
<1>5. TypeOK'
  BY <1>2, <1>4 DEF SInv, TypeOK, CommitSucceeds
<1>6. Scripts'
  BY DEF SInv, TypeOK, Scripts, CommitSucceeds, Arrived
<1>7. \A b \in Attempts : (Arrived(b) => Arrived(b)') /\ (MayCommit(b)' => MayCommit(b))
  BY DEF SInv, TypeOK, CommitSucceeds, Arrived, MayCommit
<1>8. Members' /\ RevisionCountsTurns' /\ Started' /\ CommitsAreFresh'
  BY <1>1, <1>7, StoreKeeps DEF CommitSucceeds
<1>9. Acks' /\ AcknowledgedStays'
  BY <1>1, <1>4, <1>7, StoreKeepsAcks DEF CommitSucceeds
<1> QED
  BY <1>5, <1>6, <1>8, <1>9 DEF SInv

LEMMA RunCommitStep ==
  ASSUME SInv, NEW a \in Attempts, RunCommit(a), Commits(a)
  PROVE  SInv'
<1>1. MayCommit(a) /\ StoreCommit(a)
  BY DEF RunCommit, MayCommit
<1>2. /\ session' \in [Sessions -> SessionRecords \union {Absent}]
      /\ lease' \in [Sessions -> Attempts \union {Free}]
  BY <1>1, CommitEffect
<1>3. TypeOK'
  BY <1>2 DEF SInv, TypeOK, RunCommit
<1>4. Scripts'
  BY DEF SInv, TypeOK, Scripts, RunCommit, Arrived
<1>5. \A b \in Attempts : (Arrived(b) => Arrived(b)') /\ (MayCommit(b)' => MayCommit(b))
  BY DEF SInv, TypeOK, RunCommit, Arrived, MayCommit
<1>6. Members' /\ RevisionCountsTurns' /\ Started' /\ CommitsAreFresh'
  BY <1>1, <1>5, StoreKeeps DEF RunCommit
<1>7. Acks' /\ AcknowledgedStays'
  BY <1>1, <1>5, StoreKeepsAcks DEF RunCommit
<1> QED
  BY <1>3, <1>4, <1>6, <1>7 DEF SInv

LEMMA LeaseExpiresStep ==
  ASSUME SInv, NEW s \in Sessions, LeaseExpires(s)
  PROVE  SInv'
<1>1. TypeOK'
  BY DEF SInv, TypeOK, LeaseExpires
<1>2. Keeps
  BY DEF LeaseExpires, Keeps, Arrived
<1>3. Scripts'
  BY DEF SInv, Scripts, LeaseExpires, Arrived
<1>4. ASSUME NEW b \in Attempts, MayCommit(b)'
      PROVE  /\ MayCommit(b)
             /\ lease'[SessionOf(b)] = b => lease[SessionOf(b)] = b
  <2>1. MayCommit(b)
    BY <1>4 DEF MayCommit, LeaseExpires
  <2>2. SessionOf(b) \in Sessions
    BY <2>1, ArrivedRequest DEF SInv, Scripts, MayCommit, Arrived
  <2> QED
    BY <2>1, <2>2, RequestAssumption DEF SInv, TypeOK, LeaseExpires
<1>5. Started' /\ CommitsAreFresh'
  BY <1>2, <1>4, KeepsCommits DEF LeaseExpires
<1>6. Acks' /\ AcknowledgedStays'
  BY <1>2, KeepsAcks DEF LeaseExpires
<1> QED
  BY <1>1, <1>2, <1>3, <1>5, <1>6, KeepsSessions DEF SInv

\* What the loss of a session does: all that is read of it is the default.
LEMMA LossEffect ==
  ASSUME SInv, NEW s \in Sessions, SessionLost(s)
  PROVE  \A o \in Sessions :
           /\ o = s => /\ Revision(o)' = 0
                       /\ State(o)' = << >>
                       /\ StoredTurns(o)' = NoTurns
                       /\ losses'[o] = losses[o] + 1
           /\ o # s => /\ Revision(o)' = Revision(o)
                       /\ State(o)' = State(o)
                       /\ StoredTurns(o)' = StoredTurns(o)
                       /\ losses'[o] = losses[o]
<1>1. /\ session \in [Sessions -> SessionRecords \union {Absent}]
      /\ losses \in [Sessions -> 0..MaxLosses]
      /\ session' = [session EXCEPT ![s] = Absent]
      /\ losses' = [losses EXCEPT ![s] = @ + 1]
  BY DEF SInv, TypeOK, SessionLost
<1> QED
  BY <1>1 DEF Revision, State, StoredTurns, NoTurns

LEMMA SessionLostStep ==
  ASSUME SInv, NEW s \in Sessions, SessionLost(s)
  PROVE  SInv'
<1>1. UNCHANGED <<lease, request, phase, base, pending, ack>>
  BY DEF SessionLost
<1>2. TypeOK'
  BY RequestAssumption DEF SInv, TypeOK, SessionLost
<1>3. Scripts' /\ Started'
  BY <1>1 DEF SInv, Scripts, Started, Arrived, MayCommit
<1>4. ASSUME NEW b \in Attempts, MayCommit(b)', Commits(b)'
      PROVE  base[b] = State(SessionOf(b))' /\ Recorded(b)' = NoReply
  <2>1. MayCommit(b) /\ Arrived(b)
    BY <1>1, <1>4 DEF SInv, Scripts, MayCommit, Arrived
  <2>2. PICK o \in Sessions : o = SessionOf(b) /\ SessionOf(b)' = o
    BY <1>1, <2>1, ArrivedRequest DEF SInv, SessionOf
  <2>3. request[b].turn \in TurnIds
    BY <2>1, ArrivedRequest DEF SInv
  <2>4. Revision(o)' = request[b].expected /\ lease[o] = b
    BY <1>1, <1>4, <2>2 DEF Commits
  <2>5. CASE o = s
    <3>1. Len(base[b]) = 0 /\ base[b] \in Seq(Attempts)
      BY <2>1, <2>4, <2>5, LossEffect DEF SInv, Started, TypeOK
    <3>2. base[b] = << >>
      BY <3>1
    <3>3. StoredTurns(o)'[request[b].turn] = NoReply
      BY <2>3, <2>5, LossEffect DEF NoTurns
    <3> QED
      BY <1>1, <2>2, <2>5, <3>2, <3>3, LossEffect DEF Recorded
  <2>6. CASE o # s
    <3>1. Revision(o)' = Revision(o) /\ State(o)' = State(o) /\ StoredTurns(o)' = StoredTurns(o)
      BY <2>6, LossEffect
    <3>2. Commits(b)
      BY <2>2, <2>4, <3>1 DEF Commits
    <3>3. base[b] = State(o) /\ StoredTurns(o)[request[b].turn] = NoReply
      BY <2>1, <2>2, <3>2 DEF SInv, CommitsAreFresh, Recorded
    <3> QED
      BY <1>1, <2>2, <3>1, <3>3 DEF Recorded
  <2> QED
    BY <2>5, <2>6
<1>5. CommitsAreFresh'
  BY <1>1, <1>4 DEF CommitsAreFresh
<1>6. Members'
  BY <1>1, LossEffect DEF SInv, Members, Arrived
<1>7. RevisionCountsTurns'
  <2> SUFFICES ASSUME NEW o \in Sessions
               PROVE  /\ Revision(o)' = Len(State(o)')
                      /\ \A i \in DOMAIN State(o)' :
                           /\ StoredTurns(o)'[request[State(o)'[i]].turn] = State(o)'[i]
                           /\ request[State(o)'[i]].expected + 1 = i
                      /\ \A t \in TurnIds : StoredTurns(o)'[t] # NoReply =>
                           \E i \in DOMAIN State(o)' :
                             /\ State(o)'[i] = StoredTurns(o)'[t]
                             /\ request[State(o)'[i]].turn = t
    BY <1>1 DEF RevisionCountsTurns
  <2>1. CASE o = s
    BY <2>1, LossEffect DEF NoTurns
  <2>2. CASE o # s
    BY <2>2, LossEffect DEF SInv, RevisionCountsTurns
  <2> QED
    BY <2>1, <2>2
<1>8. Acks' /\ AcknowledgedStays'
  <2> SUFFICES ASSUME NEW b \in Attempts, ack[b] # NoReply
               PROVE  /\ Arrived(b)' /\ phase'[ack[b].reply] # "new"
                      /\ ack[b].loss <= losses'[SessionOf(b)]
                      /\ request[ack[b].reply].turn = request[b].turn
                      /\ request[ack[b].reply].digest = request[b].digest
                      /\ ack[b].loss = losses'[SessionOf(b)] =>
                           /\ request[ack[b].reply].expected + 1 \in DOMAIN State(SessionOf(b))'
                           /\ State(SessionOf(b))'[request[ack[b].reply].expected + 1] = ack[b].reply
    BY <1>1 DEF Acks, AcknowledgedStays, Arrived, SessionOf
  <2>1. Arrived(b) /\ phase[ack[b].reply] # "new"
    BY DEF SInv, Acks, Arrived
  <2>2. PICK o \in Sessions : o = SessionOf(b) /\ SessionOf(b)' = o
    BY <1>1, <2>1, ArrivedRequest DEF SInv, SessionOf
  <2>3. /\ ack[b].loss <= losses[o]
        /\ request[ack[b].reply].turn = request[b].turn
        /\ request[ack[b].reply].digest = request[b].digest
        /\ ack[b].loss = losses[o] =>
             /\ request[ack[b].reply].expected + 1 \in DOMAIN State(o)
             /\ State(o)[request[ack[b].reply].expected + 1] = ack[b].reply
    BY <2>2 DEF SInv, Acks, AcknowledgedStays
  <2>4. ack[b].loss \in Nat /\ losses[o] \in Nat
    BY RequestAssumption DEF SInv, TypeOK
  <2>5. CASE o = s
    <3>1. losses'[o] = losses[o] + 1
      BY <2>5, LossEffect
    <3> QED
      BY <1>1, <2>1, <2>2, <2>3, <2>4, <3>1 DEF Arrived
  <2>6. CASE o # s
    <3>1. losses'[o] = losses[o] /\ State(o)' = State(o)
      BY <2>6, LossEffect
    <3> QED
      BY <1>1, <2>1, <2>2, <2>3, <3>1 DEF Arrived
  <2> QED
    BY <2>5, <2>6
<1> QED
  BY <1>2, <1>3, <1>5, <1>6, <1>7, <1>8 DEF SInv

--------------------------------------------------------------------------------
LEMMA NextSInv == SInv /\ [Next]_vars => SInv'
<1> SUFFICES ASSUME SInv, [Next]_vars PROVE SInv'
  OBVIOUS
<1>1. CASE UNCHANGED vars
  BY <1>1 DEF vars, SInv, TypeOK, Scripts, Started, CommitsAreFresh, Members, Acks,
              RevisionCountsTurns, AcknowledgedStays, Arrived, MayCommit, Commits,
              Recorded, Revision, State, StoredTurns, SessionOf
<1>2. ASSUME NEW a \in Attempts, NEW rq \in Requests, Arrive(a, rq) PROVE SInv'
  BY <1>2, ArriveStep
<1>3. ASSUME NEW a \in Attempts,
             \/ BeginExecutes(a) \/ BeginReplays(a) \/ BeginConflicts(a)
             \/ BeginUnavailable(a) \/ RunBegin(a)
             \/ CommitSucceeds(a) \/ TurnFails(a) \/ CommitUnanswered(a) \/ RunCommit(a)
             \/ Abort(a) \/ AbortLost(a)
      PROVE  SInv'
  <2>1. Idles(a) \/ BeginExecutes(a) \/ BeginReplays(a) \/ CommitSucceeds(a)
          \/ (RunCommit(a) /\ Commits(a))
    BY <1>3 DEF Idles
  <2> QED
    BY <2>1, IdleStep, BeginExecutesStep, BeginReplaysStep, CommitSucceedsStep, RunCommitStep
<1>4. ASSUME NEW s \in Sessions, LeaseExpires(s) \/ SessionLost(s) PROVE SInv'
  BY <1>4, LeaseExpiresStep, SessionLostStep
<1> QED
  BY <1>1, <1>2, <1>3, <1>4 DEF Next

\* The invariant of the session protocol: what an attempt that passes both checks
\* of _COMMIT started from is what the session holds.
THEOREM SessionInvariance == Spec => []SInv
<1> QED
  BY InitSInv, NextSInv, PTL DEF Spec

\* The hashes, leases and requests stay well formed.
THEOREM SessionTypeCorrect == Spec => []TypeOK
<1>1. SInv => TypeOK
  BY DEF SInv
<1> QED
  BY <1>1, SessionInvariance, PTL

\* No interleaving of scripts, retries, late commits, lost leases and lost
\* sessions loses an update of a conversation or stores two replies to a turn.
THEOREM NoLostTurn == Spec => []RevisionCountsTurns
<1>1. SInv => RevisionCountsTurns
  BY DEF SInv
<1> QED
  BY <1>1, SessionInvariance, PTL

\* A response that was given as committed answers the question it was asked and
\* stays in its session until that session is lost.
THEOREM AcknowledgedDurable == Spec => []AcknowledgedStays
<1>1. SInv => AcknowledgedStays
  BY DEF SInv
<1> QED
  BY <1>1, SessionInvariance, PTL

--------------------------------------------------------------------------------
(* AnalystSession implements ConversationLog: a commit extends the log, a     *)
(* replay tells a reply of it, the loss of a session forgets it, and no other *)
(* step is seen.                                                              *)

\* An attempt is answered once, as the last thing that matters to its client.
AnswersEnd ==
  \A a \in Attempts : ack[a] # NoReply => phase[a] \in {"ending", "done"}

LEMMA NextAnswersEnd == TypeOK /\ AnswersEnd /\ [Next]_vars => AnswersEnd'
<1> SUFFICES ASSUME TypeOK, AnswersEnd, [Next]_vars PROVE AnswersEnd'
  OBVIOUS
<1>1. CASE UNCHANGED vars
  BY <1>1 DEF vars, AnswersEnd
<1>2. ASSUME NEW a \in Attempts, NEW rq \in Requests, Arrive(a, rq) PROVE AnswersEnd'
  BY <1>2 DEF AnswersEnd, TypeOK, Arrive
<1>3. ASSUME NEW a \in Attempts, BeginExecutes(a) PROVE AnswersEnd'
  BY <1>3 DEF AnswersEnd, TypeOK, BeginExecutes
<1>4. ASSUME NEW a \in Attempts, BeginReplays(a) PROVE AnswersEnd'
  BY <1>4 DEF AnswersEnd, TypeOK, BeginReplays, Acknowledge
<1>5. ASSUME NEW a \in Attempts, CommitSucceeds(a) PROVE AnswersEnd'
  BY <1>5 DEF AnswersEnd, TypeOK, CommitSucceeds, Acknowledge
<1>6. ASSUME NEW a \in Attempts,
             \/ BeginConflicts(a) \/ BeginUnavailable(a) \/ RunBegin(a)
             \/ TurnFails(a) \/ CommitUnanswered(a) \/ RunCommit(a)
             \/ Abort(a) \/ AbortLost(a)
      PROVE  AnswersEnd'
  BY <1>6 DEF AnswersEnd, TypeOK, BeginConflicts, BeginUnavailable, RunBegin, TurnFails,
              CommitUnanswered, RunCommit, Abort, AbortLost
<1>7. ASSUME NEW s \in Sessions, LeaseExpires(s) \/ SessionLost(s) PROVE AnswersEnd'
  BY <1>7 DEF AnswersEnd, LeaseExpires, SessionLost
<1> QED
  BY <1>1, <1>2, <1>3, <1>4, <1>5, <1>6, <1>7 DEF Next

--------------------------------------------------------------------------------
\* The view of one session.
Log(s) == [i \in DOMAIN State(s) |-> EntryOf(State(s)[i])]
Told(s) == { EntryOf(ack[a].reply) : a \in AckedIn(s) }

LEMMA Views ==
  /\ LogView = [s \in Sessions |-> Log(s)]
  /\ ToldView = [s \in Sessions |-> Told(s)]
  /\ LogView' = [s \in Sessions |-> Log(s)']
  /\ ToldView' = [s \in Sessions |-> Told(s)']
BY DEF LogView, ToldView, Log, Told

KeepsRequests ==
  \A a \in Attempts : Arrived(a) => request'[a] = request[a]

LEMMA LogKept ==
  ASSUME SInv, KeepsRequests, NEW s \in Sessions, State(s)' = State(s)
  PROVE  Log(s)' = Log(s)
<1>1. \A i \in DOMAIN State(s) : State(s)[i] \in Attempts /\ Arrived(State(s)[i])
  BY Reads DEF SInv, Members
<1>2. \A i \in DOMAIN State(s) : request'[State(s)[i]] = request[State(s)[i]]
  BY <1>1 DEF KeepsRequests
<1> QED
  BY <1>2 DEF Log, EntryOf

LEMMA ToldKept ==
  ASSUME SInv, KeepsRequests, NEW s \in Sessions, losses'[s] = losses[s],
         \A b \in Attempts : \/ ack'[b] = ack[b]
                             \/ Arrived(b) /\ SessionOf(b) # s
  PROVE  Told(s)' = Told(s)
<1>1. ASSUME NEW b \in Attempts
      PROVE  /\ b \in AckedIn(s)' <=> b \in AckedIn(s)
             /\ b \in AckedIn(s) => EntryOf(ack[b].reply)' = EntryOf(ack[b].reply)
                                    /\ ack'[b] = ack[b]
  <2>1. ack[b] # NoReply => Arrived(b) /\ ack[b].reply \in Attempts /\ Arrived(ack[b].reply)
    BY DEF SInv, Acks, TypeOK
  <2>2. CASE ack'[b] = ack[b] /\ ack[b] = NoReply
    BY <2>2 DEF AckedIn
  <2>3. CASE ack'[b] = ack[b] /\ ack[b] # NoReply
    <3>1. request'[b] = request[b] /\ request'[ack[b].reply] = request[ack[b].reply]
      BY <2>1, <2>3 DEF KeepsRequests
    <3> QED
      BY <2>3, <3>1 DEF AckedIn, SessionOf, EntryOf
  <2>4. CASE Arrived(b) /\ SessionOf(b) # s
    <3>1. SessionOf(b)' = SessionOf(b)
      BY <2>4 DEF KeepsRequests, SessionOf
    <3> QED
      BY <2>4, <3>1 DEF AckedIn
  <2> QED
    BY <2>2, <2>3, <2>4
<1>2. AckedIn(s)' = AckedIn(s)
  BY <1>1 DEF AckedIn
<1>3. \A b \in AckedIn(s) : EntryOf(ack[b].reply)' = EntryOf(ack[b].reply)
  BY <1>1 DEF AckedIn
<1>4. Told(s)' = { EntryOf(ack[b].reply)' : b \in AckedIn(s) }
  BY <1>2 DEF Told
<1> QED
  BY <1>3, <1>4 DEF Told

LEMMA ToldOne ==
  ASSUME SInv, UNCHANGED <<losses, request>>,
         NEW a \in Attempts, NEW r \in Attempts, SessionOf(a) \in Sessions,
         ack[a] = NoReply, ack'[a] = [reply |-> r, loss |-> losses[SessionOf(a)]],
         ack'[a] # NoReply,
         \A b \in Attempts : b # a => ack'[b] = ack[b]
  PROVE  Told(SessionOf(a))' = Told(SessionOf(a)) \union {EntryOf(r)}
<1>1. PICK s \in Sessions : s = SessionOf(a) /\ SessionOf(a)' = s
  BY DEF SessionOf
<1>2. AckedIn(s)' = AckedIn(s) \union {a}
  BY <1>1 DEF AckedIn, SessionOf
<1>3. \A b \in AckedIn(s) : b # a /\ ack'[b] = ack[b]
  BY DEF AckedIn
<1>4. Told(s)' = Told(s) \union {EntryOf(r)}
  BY <1>2, <1>3 DEF Told, EntryOf
<1> QED
  BY <1>1, <1>4

\* A reply the session holds for a turn is an entry of its log, and a turn without
\* a reply is not in it.
LEMMA InView ==
  ASSUME SInv, NEW s \in Sessions
  PROVE  /\ Log(s) \in Seq([turn : TurnIds, reply : Attempts])
         /\ \A t \in TurnIds : StoredTurns(s)[t] = NoReply =>
              \A i \in DOMAIN Log(s) : Log(s)[i].turn # t
<1>1. /\ State(s) \in Seq(Attempts)
      /\ \A i \in DOMAIN State(s) :
           /\ State(s)[i] \in Attempts
           /\ request[State(s)[i]].turn \in TurnIds
           /\ StoredTurns(s)[request[State(s)[i]].turn] = State(s)[i]
  BY Reads, ArrivedRequest DEF SInv, Members, RevisionCountsTurns
<1>2. DOMAIN Log(s) = DOMAIN State(s)
  BY DEF Log
<1>3. \A i \in DOMAIN State(s) : Log(s)[i] = [turn |-> request[State(s)[i]].turn, reply |-> State(s)[i]]
  BY DEF Log, EntryOf
<1>4. Log(s) \in Seq([turn : TurnIds, reply : Attempts])
  <2>1. PICK n \in Nat : DOMAIN State(s) = 1..n
    BY <1>1
  <2>2. Log(s) \in [1..n -> [turn : TurnIds, reply : Attempts]]
    BY <1>1, <2>1 DEF Log, EntryOf
  <2> QED
    BY <2>2, SeqDef
<1>5. \A t \in TurnIds : StoredTurns(s)[t] = NoReply =>
        \A i \in DOMAIN Log(s) : Log(s)[i].turn # t
  BY <1>1, <1>2, <1>3, RequestAssumption
<1> QED
  BY <1>4, <1>5

--------------------------------------------------------------------------------
\* A step that changes no session and answers nobody is a stutter.
LEMMA Stutter ==
  ASSUME SInv, KeepsRequests, UNCHANGED <<session, losses, ack>>
  PROVE  UNCHANGED <<LogView, ToldView>>
<1>1. \A s \in Sessions : State(s)' = State(s)
  BY DEF State
<1>2. \A s \in Sessions : Log(s)' = Log(s) /\ Told(s)' = Told(s)
  BY <1>1, LogKept, ToldKept
<1> QED
  BY <1>2, Views

LEMMA ReplayTells ==
  ASSUME SInv, AnswersEnd, NEW a \in Attempts, BeginReplays(a)
  PROVE  Conversation!Next
<1>1. SessionOf(a) \in Sessions /\ request[a].turn \in TurnIds
  BY ArrivedRequest DEF SInv, BeginReplays, Arrived
<1>2. PICK s \in Sessions : s = SessionOf(a) /\ SessionOf(a)' = s
  BY <1>1 DEF SessionOf, BeginReplays
<1>3. PICK i \in DOMAIN State(s) : /\ State(s)[i] = Recorded(a)
                                   /\ request[State(s)[i]].turn = request[a].turn
  BY <1>1, <1>2 DEF SInv, RevisionCountsTurns, Recorded, BeginReplays, Replays
<1>4. PICK r \in Attempts : r = State(s)[i] /\ r = Recorded(a)
  BY <1>3, Reads DEF SInv
<1>5. PICK e \in Conversation!Entries : e = EntryOf(r)
  BY <1>1, <1>3, <1>4 DEF EntryOf, Conversation!Entries
<1>6. UNCHANGED <<session, losses, request>> /\ ack[a] = NoReply
  BY DEF BeginReplays, AnswersEnd
<1>7. /\ ack'[a] = [reply |-> r, loss |-> losses[SessionOf(a)]]
      /\ ack' \in [Attempts -> [reply : Attempts, loss : 0..MaxLosses] \union {NoReply}]
      /\ \A b \in Attempts : b # a => ack'[b] = ack[b]
  BY <1>1, <1>4, AckTyped DEF SInv, BeginReplays
<1>8. ack'[a] # NoReply
  BY <1>1, <1>7, RequestAssumption DEF SInv, TypeOK
<1>9. Told(s)' = Told(s) \union {e}
  BY <1>1, <1>2, <1>5, <1>6, <1>7, <1>8, ToldOne
<1>10. \A o \in Sessions : Log(o)' = Log(o) /\ (o # s => Told(o)' = Told(o))
  <2>1. \A o \in Sessions : State(o)' = State(o)
    BY <1>6 DEF State
  <2>2. KeepsRequests /\ Arrived(a)
    BY <1>6 DEF KeepsRequests, BeginReplays, Arrived
  <2> QED
    BY <1>2, <1>6, <1>7, <2>1, <2>2, LogKept, ToldKept
<1>11. i \in DOMAIN Log(s) /\ Log(s)[i] = e
  BY <1>4, <1>5 DEF Log
<1>12. Conversation!InLog(s, e)
  BY <1>11, Views DEF Conversation!InLog
<1>13. LogView' = LogView /\ ToldView' = [ToldView EXCEPT ![s] = @ \union {e}]
  BY <1>9, <1>10, Views
<1>14. Conversation!Tell(s, e)
  BY <1>12, <1>13 DEF Conversation!Tell
<1> QED
  BY <1>14 DEF Conversation!Next

\* A commit appends the entry of its attempt to a log that has no reply to its turn.
LEMMA CommitAppends ==
  ASSUME SInv, NEW a \in Attempts, MayCommit(a), Commits(a), StoreCommit(a),
         UNCHANGED request, NEW s \in Sessions, s = SessionOf(a)
  PROVE  /\ EntryOf(a) \in Conversation!Entries
         /\ \A i \in DOMAIN Log(s) : Log(s)[i].turn # EntryOf(a).turn
         /\ Log(s)' = Append(Log(s), EntryOf(a))
         /\ \A o \in Sessions : o # s => Log(o)' = Log(o)
<1>1. /\ Arrived(a)
      /\ StoredTurns(s)[request[a].turn] = NoReply
      /\ State(s)' = Append(State(s), a)
      /\ \A o \in Sessions : o # s => State(o)' = State(o)
  BY CommitEffect
<1>2. request[a].turn \in TurnIds /\ State(s) \in Seq(Attempts)
  BY <1>1, ArrivedRequest, Reads DEF SInv
<1>3. EntryOf(a) \in Conversation!Entries
  BY <1>2 DEF EntryOf, Conversation!Entries
<1>4. \A i \in DOMAIN Log(s) : Log(s)[i].turn # EntryOf(a).turn
  BY <1>1, <1>2, InView DEF EntryOf
<1>5. Log(s)' = Append(Log(s), EntryOf(a))
  <2>1. PICK e \in Conversation!Entries : e = EntryOf(a)
    BY <1>3
  <2>2. Log(s) \in Seq(Conversation!Entries)
    BY InView DEF Conversation!Entries
  <2>3. PICK n \in Nat : DOMAIN State(s) = 1..n /\ Len(State(s)) = n
    BY <1>2
  <2>4. DOMAIN Log(s) = 1..n /\ Len(Log(s)) = n
    BY <2>2, <2>3 DEF Log
  <2>5. DOMAIN State(s)' = 1..n + 1
    BY <1>1, <1>2, <2>3
  <2>6. Log(s)' = [i \in 1..n + 1 |-> EntryOf(State(s)'[i])]
    BY <2>5 DEF Log, EntryOf
  <2>7. \A i \in 1..n + 1 : EntryOf(State(s)'[i]) = IF i = n + 1 THEN e ELSE Log(s)[i]
    BY <1>1, <1>2, <2>1, <2>3 DEF Log
  <2>8. Log(s)' = [i \in 1..n + 1 |-> IF i = n + 1 THEN e ELSE Log(s)[i]]
    BY <2>6, <2>7
  <2>9. Append(Log(s), e) = [i \in 1..n + 1 |-> IF i = n + 1 THEN e ELSE Log(s)[i]]
    <3> DEFINE q == Log(s)
               f == [i \in 1..n + 1 |-> IF i = n + 1 THEN e ELSE q[i]]
    <3>1. q \in Seq(Conversation!Entries) /\ Len(q) = n /\ e \in Conversation!Entries
      BY <2>2, <2>4
    <3> HIDE DEF q
    <3>2. /\ Append(q, e) \in Seq(Conversation!Entries)
          /\ Len(Append(q, e)) = n + 1
          /\ \A i \in 1..n + 1 : Append(q, e)[i] = f[i]
      BY <3>1
    <3>3. Append(q, e) \in [1..n + 1 -> Conversation!Entries]
      BY <3>2, LenProperties
    <3>4. Append(q, e) = f
      BY <3>2, <3>3
    <3> QED
      BY <3>4 DEF q
  <2> QED
    BY <2>1, <2>8, <2>9
<1>6. \A o \in Sessions : o # s => Log(o)' = Log(o)
  BY <1>1, LogKept DEF KeepsRequests
<1> QED
  BY <1>3, <1>4, <1>5, <1>6

LEMMA CommitExtends ==
  ASSUME SInv, AnswersEnd, NEW a \in Attempts, CommitSucceeds(a)
  PROVE  Conversation!Next
<1>1. MayCommit(a) /\ Commits(a) /\ StoreCommit(a) /\ UNCHANGED <<losses, request>>
  BY DEF CommitSucceeds, MayCommit
<1>2. Arrived(a) /\ SessionOf(a) \in Sessions /\ ack[a] = NoReply
  BY <1>1, CommitEffect, ArrivedRequest DEF SInv, AnswersEnd, CommitSucceeds
<1>3. PICK s \in Sessions : s = SessionOf(a) /\ SessionOf(a)' = s
  BY <1>1, <1>2 DEF SessionOf
<1>4. /\ EntryOf(a) \in Conversation!Entries
      /\ \A i \in DOMAIN Log(s) : Log(s)[i].turn # EntryOf(a).turn
      /\ Log(s)' = Append(Log(s), EntryOf(a))
      /\ \A o \in Sessions : o # s => Log(o)' = Log(o)
  BY <1>1, <1>3, CommitAppends
<1>5. PICK e \in Conversation!Entries : e = EntryOf(a)
  BY <1>4
<1>6. /\ ack'[a] = [reply |-> a, loss |-> losses[SessionOf(a)]]
      /\ ack' \in [Attempts -> [reply : Attempts, loss : 0..MaxLosses] \union {NoReply}]
      /\ \A b \in Attempts : b # a => ack'[b] = ack[b]
  BY <1>2, AckTyped DEF SInv, CommitSucceeds
<1>7. ack'[a] # NoReply
  BY <1>2, <1>6, RequestAssumption DEF SInv, TypeOK
<1>8. Told(s)' = Told(s) \union {e}
  BY <1>1, <1>2, <1>3, <1>5, <1>6, <1>7, ToldOne
<1>9. \A o \in Sessions : o # s => Told(o)' = Told(o)
  <2>1. KeepsRequests
    BY <1>1 DEF KeepsRequests
  <2> QED
    BY <1>1, <1>2, <1>3, <1>6, <2>1, ToldKept
<1>10. /\ LogView' = [LogView EXCEPT ![s] = Append(@, e)]
       /\ ToldView' = [ToldView EXCEPT ![s] = @ \union {e}]
  BY <1>4, <1>5, <1>8, <1>9, Views
<1>11. \A i \in DOMAIN LogView[s] : LogView[s][i].turn # e.turn
  BY <1>4, <1>5, Views
<1>12. Conversation!Extend(s, e)
  BY <1>10, <1>11 DEF Conversation!Extend
<1> QED
  BY <1>12 DEF Conversation!Next

LEMMA LateCommitExtends ==
  ASSUME SInv, NEW a \in Attempts, RunCommit(a), Commits(a)
  PROVE  Conversation!Next
<1>1. MayCommit(a) /\ StoreCommit(a) /\ UNCHANGED <<losses, request, ack>>
  BY DEF RunCommit, MayCommit
<1>2. Arrived(a) /\ SessionOf(a) \in Sessions
  BY <1>1, CommitEffect, ArrivedRequest DEF SInv
<1>3. PICK s \in Sessions : s = SessionOf(a)
  BY <1>2
<1>4. /\ EntryOf(a) \in Conversation!Entries
      /\ \A i \in DOMAIN Log(s) : Log(s)[i].turn # EntryOf(a).turn
      /\ Log(s)' = Append(Log(s), EntryOf(a))
      /\ \A o \in Sessions : o # s => Log(o)' = Log(o)
  BY <1>1, <1>3, CommitAppends
<1>5. PICK e \in Conversation!Entries : e = EntryOf(a)
  BY <1>4
<1>6. \A o \in Sessions : Told(o)' = Told(o)
  BY <1>1, ToldKept DEF KeepsRequests
<1>7. LogView' = [LogView EXCEPT ![s] = Append(@, e)] /\ ToldView' = ToldView
  BY <1>4, <1>5, <1>6, Views
<1>8. \A i \in DOMAIN LogView[s] : LogView[s][i].turn # e.turn
  BY <1>4, <1>5, Views
<1>9. Conversation!Extend(s, e)
  BY <1>7, <1>8 DEF Conversation!Extend
<1> QED
  BY <1>9 DEF Conversation!Next

LEMMA LossForgets ==
  ASSUME SInv, NEW s \in Sessions, SessionLost(s)
  PROVE  Conversation!Next
<1>1. KeepsRequests /\ UNCHANGED <<request, ack>>
  BY DEF KeepsRequests, SessionLost
<1>2. \A o \in Sessions : o # s => Log(o)' = Log(o) /\ Told(o)' = Told(o)
  BY <1>1, LossEffect, LogKept, ToldKept
<1>3. Log(s)' = << >>
  <2>1. State(s)' = << >>
    BY LossEffect
  <2>2. Log(s)' = [i \in {} |-> EntryOf(State(s)'[i])]
    BY <1>1, <2>1 DEF Log, EntryOf
  <2> QED
    BY <2>2
<1>4. Told(s)' = {}
  <2>1. ASSUME NEW b \in Attempts, b \in AckedIn(s)' PROVE FALSE
    <3>1. ack[b] # NoReply /\ SessionOf(b) = s /\ ack[b].loss = losses'[s]
      BY <1>1, <2>1 DEF AckedIn, SessionOf
    <3>2. losses'[s] = losses[s] + 1 /\ losses[s] \in Nat
      BY LossEffect, RequestAssumption DEF SInv, TypeOK
    <3> QED
      BY <3>1, <3>2 DEF SInv, Acks
  <2>2. AckedIn(s)' = {}
    BY <2>1 DEF AckedIn
  <2> QED
    BY <2>2 DEF Told
<1>5. LogView' = [LogView EXCEPT ![s] = << >>] /\ ToldView' = [ToldView EXCEPT ![s] = {}]
  BY <1>2, <1>3, <1>4, Views
<1> QED
  BY <1>5 DEF Conversation!Next, Conversation!Forget

--------------------------------------------------------------------------------
LEMMA InitMaps == Init => Conversation!Init
<1> SUFFICES ASSUME Init PROVE Conversation!Init
  OBVIOUS
<1>1. \A s \in Sessions : State(s) = << >> /\ AckedIn(s) = {}
  BY DEF Init, State, AckedIn
<1>2. \A s \in Sessions : Told(s) = {}
  BY <1>1 DEF Told
<1>3. \A s \in Sessions : Log(s) = << >>
  <2> TAKE s \in Sessions
  <2>1. Log(s) = [i \in {} |-> EntryOf(State(s)[i])]
    BY <1>1 DEF Log
  <2> QED
    BY <2>1
<1> QED
  BY <1>2, <1>3, Views DEF Conversation!Init

LEMMA StepMaps ==
  SInv /\ AnswersEnd /\ [Next]_vars => [Conversation!Next]_<<LogView, ToldView>>
<1> SUFFICES ASSUME SInv, AnswersEnd, [Next]_vars
             PROVE  Conversation!Next \/ UNCHANGED <<LogView, ToldView>>
  OBVIOUS
<1>1. CASE UNCHANGED vars
  BY <1>1, Stutter DEF vars, KeepsRequests
<1>2. ASSUME NEW a \in Attempts, NEW rq \in Requests, Arrive(a, rq)
      PROVE  UNCHANGED <<LogView, ToldView>>
  BY <1>2, Stutter DEF Arrive, KeepsRequests, Arrived, SInv, TypeOK
<1>3. ASSUME NEW a \in Attempts, BeginExecutes(a) \/ Idles(a)
      PROVE  UNCHANGED <<LogView, ToldView>>
  BY <1>3, Stutter DEF KeepsRequests, BeginExecutes, Idles, BeginConflicts, BeginUnavailable,
                       RunBegin, TurnFails, CommitUnanswered, RunCommit, Abort, AbortLost
<1>4. ASSUME NEW a \in Attempts,
             BeginReplays(a) \/ CommitSucceeds(a) \/ (RunCommit(a) /\ Commits(a))
      PROVE  Conversation!Next
  BY <1>4, ReplayTells, CommitExtends, LateCommitExtends
<1>5. ASSUME NEW s \in Sessions, LeaseExpires(s) PROVE UNCHANGED <<LogView, ToldView>>
  BY <1>5, Stutter DEF LeaseExpires, KeepsRequests
<1>6. ASSUME NEW s \in Sessions, SessionLost(s) PROVE Conversation!Next
  BY <1>6, LossForgets
<1> QED
  BY <1>1, <1>2, <1>3, <1>4, <1>5, <1>6 DEF Next, Idles

\* The scripts and their callers keep the conversation log that the document
\* promises: it grows by turns it does not have, and clients are told what is in it.
THEOREM SessionsKeepTheLog == Spec => KeepsConversationLog
<1>1. Init => AnswersEnd
  BY DEF Init, AnswersEnd
<1>2. Spec => []AnswersEnd
  BY <1>1, NextAnswersEnd, SessionTypeCorrect, PTL DEF Spec
<1> QED
  BY <1>2, InitMaps, StepMaps, SessionInvariance, PTL
     DEF Spec, KeepsConversationLog, Conversation!Spec

--------------------------------------------------------------------------------
(* What the log promises, of the log that the sessions keep.                  *)

LogInv == Conversation!TypeOK /\ Conversation!TurnsDistinct /\ Conversation!ToldIsInLog

LEMMA InitLogInv == Conversation!Init => LogInv
BY DEF Conversation!Init, LogInv, Conversation!TypeOK, Conversation!TurnsDistinct, Conversation!ToldIsInLog

\* What extending a conversation does to its sequence.
LEMMA Appended ==
  ASSUME NEW q \in Seq(Conversation!Entries), NEW e \in Conversation!Entries
  PROVE  /\ Append(q, e) \in Seq(Conversation!Entries)
         /\ DOMAIN q = 1..Len(q) /\ Len(q) \in Nat
         /\ DOMAIN Append(q, e) = 1..Len(q) + 1
         /\ \A i \in DOMAIN q : Append(q, e)[i] = q[i]
         /\ Append(q, e)[Len(q) + 1] = e
OBVIOUS

LEMMA ExtendLogInv ==
  ASSUME LogInv, NEW c \in Sessions, NEW e \in Conversation!Entries, Conversation!Extend(c, e)
  PROVE  LogInv'
<1>1. /\ LogView \in [Sessions -> Seq(Conversation!Entries)]
      /\ ToldView \in [Sessions -> SUBSET Conversation!Entries]
      /\ LogView' = [LogView EXCEPT ![c] = Append(@, e)]
      /\ \/ ToldView' = ToldView
         \/ ToldView' = [ToldView EXCEPT ![c] = @ \union {e}]
  BY DEF LogInv, Conversation!TypeOK, Conversation!Extend
<1>2. /\ LogView[c] \in Seq(Conversation!Entries)
      /\ LogView'[c] = Append(LogView[c], e)
      /\ \A d \in Sessions : d # c => LogView'[d] = LogView[d]
  BY <1>1
<1>3. Conversation!TypeOK'
  <2>1. LogView' \in [Sessions -> Seq(Conversation!Entries)]
    BY <1>1, <1>2, Appended
  <2>2. ToldView' \in [Sessions -> SUBSET Conversation!Entries]
    <3>1. ToldView[c] \union {e} \in SUBSET Conversation!Entries
      BY <1>1
    <3> QED
      BY <1>1, <3>1
  <2> QED
    BY <2>1, <2>2 DEF Conversation!TypeOK
<1>4. Conversation!TurnsDistinct'
  <2> SUFFICES ASSUME NEW d \in Sessions, NEW i \in DOMAIN LogView'[d],
                      NEW j \in DOMAIN LogView'[d], LogView'[d][i].turn = LogView'[d][j].turn
               PROVE  i = j
    BY DEF Conversation!TurnsDistinct
  <2>1. CASE d # c
    BY <1>2, <2>1 DEF LogInv, Conversation!TurnsDistinct
  <2>2. CASE d = c
    <3> DEFINE n == Len(LogView[c])
    <3>1. /\ DOMAIN LogView[c] = 1..n /\ n \in Nat
          /\ DOMAIN LogView'[c] = 1..n + 1
          /\ \A k \in 1..n : LogView'[c][k] = LogView[c][k]
          /\ LogView'[c][n + 1] = e
      BY <1>2, Appended
    <3>2. \A k \in 1..n : LogView[c][k].turn # e.turn
      BY <3>1 DEF Conversation!Extend
    <3>3. i \in 1..n + 1 /\ j \in 1..n + 1
      BY <2>2, <3>1
    <3>4. CASE i \in 1..n /\ j \in 1..n
      BY <2>2, <3>1, <3>4 DEF LogInv, Conversation!TurnsDistinct
    <3>5. CASE i = n + 1 \/ j = n + 1
      BY <2>2, <3>1, <3>2, <3>3, <3>5
    <3> QED
      BY <3>1, <3>3, <3>4, <3>5
  <2> QED
    BY <2>1, <2>2
<1>5. Conversation!ToldIsInLog'
  <2> SUFFICES ASSUME NEW d \in Sessions, NEW t \in ToldView'[d]
               PROVE  \E i \in DOMAIN LogView'[d] : LogView'[d][i] = t
    BY DEF Conversation!ToldIsInLog, Conversation!InLog
  <2>1. CASE t \in ToldView[d]
    <3>1. PICK i \in DOMAIN LogView[d] : LogView[d][i] = t
      BY <2>1 DEF LogInv, Conversation!ToldIsInLog, Conversation!InLog
    <3>2. CASE d # c
      BY <1>2, <3>1, <3>2
    <3>3. CASE d = c
      BY <1>2, <3>1, <3>3, Appended
    <3> QED
      BY <3>2, <3>3
  <2>2. CASE t \notin ToldView[d]
    <3>1. d = c /\ t = e
      BY <1>1, <2>2
    <3> QED
      BY <1>2, <3>1, Appended
  <2> QED
    BY <2>1, <2>2
<1> QED
  BY <1>3, <1>4, <1>5 DEF LogInv

LEMMA TellLogInv ==
  ASSUME LogInv, NEW c \in Sessions, NEW e \in Conversation!Entries, Conversation!Tell(c, e)
  PROVE  LogInv'
<1>1. LogView' = LogView /\ ToldView' = [ToldView EXCEPT ![c] = @ \union {e}] /\ Conversation!InLog(c, e)
  BY DEF Conversation!Tell
<1>2. Conversation!TypeOK' /\ Conversation!TurnsDistinct'
  BY <1>1 DEF LogInv, Conversation!TypeOK, Conversation!TurnsDistinct
<1>3. Conversation!ToldIsInLog'
  BY <1>1 DEF LogInv, Conversation!TypeOK, Conversation!ToldIsInLog, Conversation!InLog
<1> QED
  BY <1>2, <1>3 DEF LogInv

LEMMA ForgetLogInv ==
  ASSUME LogInv, NEW c \in Sessions, Conversation!Forget(c)
  PROVE  LogInv'
<1>1. /\ LogView' = [LogView EXCEPT ![c] = << >>]
      /\ ToldView' = [ToldView EXCEPT ![c] = {}]
      /\ LogView \in [Sessions -> Seq(Conversation!Entries)]
      /\ ToldView \in [Sessions -> SUBSET Conversation!Entries]
  BY DEF Conversation!Forget, LogInv, Conversation!TypeOK
<1>2. Conversation!TypeOK'
  BY <1>1 DEF Conversation!TypeOK
<1>3. Conversation!TurnsDistinct' /\ Conversation!ToldIsInLog'
  BY <1>1 DEF LogInv, Conversation!TurnsDistinct, Conversation!ToldIsInLog, Conversation!InLog
<1> QED
  BY <1>2, <1>3 DEF LogInv

LEMMA NextLogInv == LogInv /\ [Conversation!Next]_<<LogView, ToldView>> => LogInv'
<1>1. LogInv /\ UNCHANGED <<LogView, ToldView>> => LogInv'
  BY DEF LogInv, Conversation!TypeOK, Conversation!TurnsDistinct, Conversation!ToldIsInLog, Conversation!InLog
<1>2. LogInv /\ Conversation!Next => LogInv'
  BY ExtendLogInv, TellLogInv, ForgetLogInv DEF Conversation!Next
<1> QED
  BY <1>1, <1>2

\* The steps of the abstract log, whatever takes them, never put two replies to
\* one turn into a conversation or tell a client what is not in it
\* (docs/analyst-evidence-loop.md: a replayed turn returns the committed reply).
THEOREM OneReplyPerTurn ==
  Conversation!Spec => [](Conversation!TurnsDistinct /\ Conversation!ToldIsInLog)
<1>1. LogInv => Conversation!TurnsDistinct /\ Conversation!ToldIsInLog
  BY DEF LogInv
<1> QED
  BY <1>1, InitLogInv, NextLogInv, PTL DEF Conversation!Spec

\* The scripts therefore never store two replies to one turn of a session, and two
\* clients told a reply to the same turn of a session that was not lost are told
\* the same one (analyst_sessions.py).
THEOREM SessionsAnswerOnce ==
  Spec => [](Conversation!TurnsDistinct /\ Conversation!ToldIsInLog)
BY SessionsKeepTheLog, OneReplyPerTurn DEF KeepsConversationLog
================================================================================
