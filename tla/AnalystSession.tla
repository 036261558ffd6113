---------------------------- MODULE AnalystSession ----------------------------
(******************************************************************************)
(* Conversation turns of the evidence analyst: the Redis scripts that begin,  *)
(* commit and abort a turn (apps/api/app/services/analyst_sessions.py) and the *)
(* request handler that calls them (apps/api/app/api/analysis_sessions.py).   *)
(*                                                                            *)
(* An attempt is one HTTP request for a turn; a retry is another attempt.     *)
(* Redis runs each script atomically, but may run it after its caller has     *)
(* given up on the answer, or not at all.  A lease can run out and a session  *)
(* can be evicted, expire or go with a restart at any time, each without the  *)
(* other.  The death of the API process is BeginUnavailable, CommitUnanswered *)
(* or AbortLost: what is sent may still run.                                  *)
(*                                                                            *)
(* A session token is the HMAC of the turn id that founded the session, so    *)
(* sessions are named by turn ids.  The state a turn computes is represented  *)
(* by the sequence of the attempts that contributed to it, and a stored       *)
(* response by its attempt, whose request also gives the digest.              *)
(******************************************************************************)
EXTENDS Naturals, Sequences

CONSTANTS
  TurnIds,              \* turn identities clients choose
  Attempts,             \* HTTP requests, each with a lease owner of its own
  Requests,             \* what clients may ask
  MaxLosses,            \* bound: how often each session is lost
  Absent,               \* the session key does not exist
  Free,                 \* the lease key does not exist
  NoReply,              \* no response: none stored, none given
  NoRequest             \* the attempt has not been made

Sessions == TurnIds

\* The hash of a session: its revision, its state and the reply of each turn.
SessionRecords ==
  [revision : Nat, state : Seq(Attempts), turns : [TurnIds -> Attempts \union {NoReply}]]

\* A request without a token is for the session its turn id founds.
ASSUME RequestAssumption ==
  /\ \A rq \in Requests :
       /\ rq.session \in Sessions
       /\ rq.supplied \in BOOLEAN
       /\ rq.turn \in TurnIds
       /\ rq.expected \in Nat
       /\ ~ rq.supplied => rq.session = rq.turn
  /\ MaxLosses \in Nat
  /\ Free \notin Attempts
  /\ NoReply \notin Attempts \union [reply : Attempts, loss : Nat]
  /\ NoRequest \notin Requests
  /\ Absent \notin SessionRecords

VARIABLES
  session,              \* the hash of each session
  lease,                \* the owner in each session's lease key
  losses,               \* how often each session has been lost
  request,              \* the request of each attempt
  phase,                \* how far its handler is
  base,                 \* the state its turn started from
  pending,              \* its scripts that may run although nobody waits
  ack                   \* the committed response it was answered with

vars == <<session, lease, losses, request, phase, base, pending, ack>>

NoTurns == [t \in TurnIds |-> NoReply]

Init ==
  /\ session = [s \in Sessions |-> Absent]
  /\ lease = [s \in Sessions |-> Free]
  /\ losses = [s \in Sessions |-> 0]
  /\ request = [a \in Attempts |-> NoRequest]
  /\ phase = [a \in Attempts |-> "new"]
  /\ base = [a \in Attempts |-> << >>]
  /\ pending = [a \in Attempts |-> {}]
  /\ ack = [a \in Attempts |-> NoReply]

--------------------------------------------------------------------------------
\* What HGET reads from a session, with the scripts' defaults for a missing key.
SessionOf(a) == request[a].session
Revision(s) == IF session[s] = Absent THEN 0 ELSE session[s].revision
State(s) == IF session[s] = Absent THEN << >> ELSE session[s].state
StoredTurns(s) == IF session[s] = Absent THEN NoTurns ELSE session[s].turns

Expired(a) == session[SessionOf(a)] = Absent /\ request[a].supplied

\* The response the session holds for the attempt's turn.
Recorded(a) == StoredTurns(SessionOf(a))[request[a].turn]

\* Mutations: the digests are not compared; no check that there is a response.
ReplaysAnyDigest(a) == ~ Expired(a) /\ Recorded(a) # NoReply
ReplaysBlindly(a) == ~ Expired(a)

\* _BEGIN answers 'replay'.
Replays(a) ==
  /\ ~ Expired(a)
  /\ Recorded(a) # NoReply
  /\ request[Recorded(a)].digest = request[a].digest

\* _BEGIN answers 'execute' and takes the lease; it answers 'conflict' when it
\* answers neither.
Executes(a) ==
  /\ ~ Expired(a)
  /\ Recorded(a) = NoReply
  /\ Revision(SessionOf(a)) = request[a].expected
  /\ lease[SessionOf(a)] = Free

\* Mutations: one of the two checks of _COMMIT is missing.
CommitsForAnyOwner(a) == Revision(SessionOf(a)) = request[a].expected
CommitsAtAnyRevision(a) == lease[SessionOf(a)] = a

\* _COMMIT answers 1.
Commits(a) ==
  /\ lease[SessionOf(a)] = a
  /\ Revision(SessionOf(a)) = request[a].expected

\* The writes of _COMMIT.
Committed(a) ==
  [revision |-> Revision(SessionOf(a)) + 1,
   state    |-> Append(base[a], a),
   turns    |-> [StoredTurns(SessionOf(a)) EXCEPT ![request[a].turn] = a]]

StoreCommit(a) ==
  /\ session' = [session EXCEPT ![SessionOf(a)] = Committed(a)]
  /\ lease' = [lease EXCEPT ![SessionOf(a)] = Free]

Acknowledge(a, reply) ==
  ack' = [ack EXCEPT ![a] = [reply |-> reply, loss |-> losses[SessionOf(a)]]]

--------------------------------------------------------------------------------
\* A client sends a request for a turn.
Arrive(a, rq) ==
  /\ phase[a] = "new"
  /\ request' = [request EXCEPT ![a] = rq]
  /\ phase' = [phase EXCEPT ![a] = "beginning"]
  /\ UNCHANGED <<session, lease, losses, base, pending, ack>>

BeginExecutes(a) ==
  /\ phase[a] = "beginning"
  /\ Executes(a)
  /\ lease' = [lease EXCEPT ![SessionOf(a)] = a]
  /\ base' = [base EXCEPT ![a] = State(SessionOf(a))]
  /\ phase' = [phase EXCEPT ![a] = "working"]
  /\ UNCHANGED <<session, losses, request, pending, ack>>

BeginReplays(a) ==
  /\ phase[a] = "beginning"
  /\ Replays(a)
  /\ Acknowledge(a, Recorded(a))
  /\ phase' = [phase EXCEPT ![a] = "done"]
  /\ UNCHANGED <<session, lease, losses, request, base, pending>>

\* session_expired, turn_id_reused, revision_conflict or turn_in_progress.
BeginConflicts(a) ==
  /\ phase[a] = "beginning"
  /\ ~ Replays(a)
  /\ ~ Executes(a)
  /\ phase' = [phase EXCEPT ![a] = "done"]
  /\ UNCHANGED <<session, lease, losses, request, base, pending, ack>>

\* No answer in time: the request is answered without a session and without an
\* abort.  The script may yet run.
BeginUnavailable(a) ==
  /\ phase[a] = "beginning"
  /\ phase' = [phase EXCEPT ![a] = "done"]
  /\ pending' = [pending EXCEPT ![a] = {"begin"}]
  /\ UNCHANGED <<session, lease, losses, request, base, ack>>

\* Nobody reads this answer: all that is left of the script is the lease.
RunBegin(a) ==
  /\ "begin" \in pending[a]
  /\ pending' = [pending EXCEPT ![a] = {}]
  /\ lease' = IF Executes(a) THEN [lease EXCEPT ![SessionOf(a)] = a] ELSE lease
  /\ UNCHANGED <<session, losses, request, phase, base, ack>>

--------------------------------------------------------------------------------
\* The turn is answered, and the commit succeeds.
CommitSucceeds(a) ==
  /\ phase[a] = "working"
  /\ Commits(a)
  /\ StoreCommit(a)
  /\ Acknowledge(a, a)
  /\ phase' = [phase EXCEPT ![a] = "ending"]
  /\ UNCHANGED <<losses, request, base, pending>>

\* The turn passes its deadline or raises, or the commit is refused: the answer
\* claims no revision.
TurnFails(a) ==
  /\ phase[a] = "working"
  /\ phase' = [phase EXCEPT ![a] = "ending"]
  /\ UNCHANGED <<session, lease, losses, request, base, pending, ack>>

\* No answer in time: to the client the commit failed.  The script may yet run.
CommitUnanswered(a) ==
  /\ phase[a] = "working"
  /\ phase' = [phase EXCEPT ![a] = "ending"]
  /\ pending' = [pending EXCEPT ![a] = {"commit"}]
  /\ UNCHANGED <<session, lease, losses, request, base, ack>>

RunCommit(a) ==
  /\ "commit" \in pending[a]
  /\ pending' = [pending EXCEPT ![a] = {}]
  /\ \/ Commits(a) /\ StoreCommit(a)
     \/ ~ Commits(a) /\ UNCHANGED <<session, lease>>
  /\ UNCHANGED <<losses, request, phase, base, ack>>

\* The handler's finally: _ABORT deletes the lease its owner still holds.
Abort(a) ==
  /\ phase[a] = "ending"
  /\ phase' = [phase EXCEPT ![a] = "done"]
  /\ lease' = IF lease[SessionOf(a)] = a
              THEN [lease EXCEPT ![SessionOf(a)] = Free] ELSE lease
  /\ UNCHANGED <<session, losses, request, base, pending, ack>>

AbortLost(a) ==
  /\ phase[a] = "ending"
  /\ phase' = [phase EXCEPT ![a] = "done"]
  /\ UNCHANGED <<session, lease, losses, request, base, pending, ack>>

--------------------------------------------------------------------------------
LeaseExpires(s) ==
  /\ lease[s] # Free
  /\ lease' = [lease EXCEPT ![s] = Free]
  /\ UNCHANGED <<session, losses, request, phase, base, pending, ack>>

SessionLost(s) ==
  /\ session[s] # Absent
  /\ losses[s] < MaxLosses
  /\ session' = [session EXCEPT ![s] = Absent]
  /\ losses' = [losses EXCEPT ![s] = @ + 1]
  /\ UNCHANGED <<lease, request, phase, base, pending, ack>>

Next ==
  \/ \E a \in Attempts, rq \in Requests : Arrive(a, rq)
  \/ \E a \in Attempts :
       \/ BeginExecutes(a) \/ BeginReplays(a) \/ BeginConflicts(a)
       \/ BeginUnavailable(a) \/ RunBegin(a)
       \/ CommitSucceeds(a) \/ TurnFails(a) \/ CommitUnanswered(a) \/ RunCommit(a)
       \/ Abort(a) \/ AbortLost(a)
  \/ \E s \in Sessions : LeaseExpires(s) \/ SessionLost(s)

Spec == Init /\ [][Next]_vars

--------------------------------------------------------------------------------
TypeOK ==
  /\ session \in [Sessions -> SessionRecords \union {Absent}]
  /\ lease \in [Sessions -> Attempts \union {Free}]
  /\ losses \in [Sessions -> 0..MaxLosses]
  /\ request \in [Attempts -> Requests \union {NoRequest}]
  /\ phase \in [Attempts -> {"new", "beginning", "working", "ending", "done"}]
  /\ base \in [Attempts -> Seq(Attempts)]
  /\ pending \in [Attempts -> SUBSET {"begin", "commit"}]
  /\ ack \in [Attempts -> [reply : Attempts, loss : 0..MaxLosses] \union {NoReply}]

\* The three fields of a session agree after any interleaving of late scripts,
\* lost leases and lost sessions: the revision counts the turns in the state, and
\* the stored responses are those of exactly these turns, each with the revision
\* it was answered at.  A state that misses a committed turn breaks this.
RevisionCountsTurns ==
  \A s \in Sessions :
    /\ Revision(s) = Len(State(s))
    /\ \A i \in DOMAIN State(s) :
         /\ StoredTurns(s)[request[State(s)[i]].turn] = State(s)[i]
         /\ request[State(s)[i]].expected + 1 = i
    /\ \A t \in TurnIds : StoredTurns(s)[t] # NoReply =>
         \E i \in DOMAIN State(s) : /\ State(s)[i] = StoredTurns(s)[t]
                                    /\ request[State(s)[i]].turn = t

\* A response a client was given as committed answers its turn and its question,
\* and stays in the session, at the revision it claims, until the session is lost.
AcknowledgedStays ==
  \A a \in Attempts : ack[a] # NoReply =>
    LET reply == ack[a].reply
        s == SessionOf(a)
    IN  /\ request[reply].turn = request[a].turn
        /\ request[reply].digest = request[a].digest
        /\ ack[a].loss = losses[s] =>
             /\ request[reply].expected + 1 \in DOMAIN State(s)
             /\ State(s)[request[reply].expected + 1] = reply

\* The sessions implement conversation logs.
EntryOf(a) == [turn |-> request[a].turn, reply |-> a]

LogView == [s \in Sessions |-> [i \in DOMAIN State(s) |-> EntryOf(State(s)[i])]]

AckedIn(s) ==
  { a \in Attempts : ack[a] # NoReply /\ SessionOf(a) = s /\ ack[a].loss = losses[s] }

ToldView == [s \in Sessions |-> { EntryOf(ack[a].reply) : a \in AckedIn(s) }]

Conversation ==
  INSTANCE ConversationLog WITH
    Conversations <- Sessions, Turns <- TurnIds, Replies <- Attempts,
    log <- LogView, told <- ToldView

\* Each conversation only grows at its end by a turn it does not have, or is lost
\* whole, and clients are told only what is in it.
KeepsConversationLog == Conversation!Spec
================================================================================
