---------------------------- MODULE WebConversation ----------------------------
(******************************************************************************)
(* The chat of the web application with the evidence analyst                  *)
(* (apps/web/src/features/knicks/use-analyst.ts), against the sessions of the *)
(* API as AnalystSession has them, coarser: a request is served in one step   *)
(* (apps/api/app/services/analyst_sessions.py, app/api/analysis_sessions.py). *)
(*                                                                            *)
(* The chat is the record the browser keeps and stores.  A question is named  *)
(* by the turn that first asked it, a session by the turn that founded it; a  *)
(* message by its kind and turn.  A request the browser gave up on may still  *)
(* be served; a reply whose handler waits may be delivered at any time, also  *)
(* after a new chat.  The storage of the browser works.  Of the readiness     *)
(* queries of the attempts the present one is kept, as a page that stays open *)
(* has it; fetches given up that bring the same version count as one.         *)
(******************************************************************************)
EXTENDS Naturals, Sequences, FiniteSets, SequencesExt

CONSTANTS
  MaxTurns,             \* bound: turn ids the browser draws
  MaxVersion,           \* archive releases
  MaxSwitches,          \* bound: activations of a release
  MaxFaults,            \* bound: faults of network, Redis and server
  MaxVisits,            \* bound: new chats, reloads and checks of a ready archive
  None                  \* undefined

ASSUME ConversationAssumption ==
  /\ MaxTurns \in Nat /\ MaxVersion \in Nat \ {0}
  /\ MaxSwitches \in Nat /\ MaxFaults \in Nat /\ MaxVisits \in Nat
  /\ None \notin Nat

TurnIds == 1..MaxTurns
Versions == 1..MaxVersion

Contexts == Seq({"question", "answer"} \X TurnIds)
Turns ==
  [turn : TurnIds, question : TurnIds, context : Contexts,
   expected : 0..MaxTurns, token : TurnIds \union {None}]
\* What a session keeps of a turn.
Entries == [turn : TurnIds, digest : TurnIds \X Contexts, version : Versions]

\* undefined is neither a turn to repeat nor a session.
ASSUME UndefinedAssumption == None \notin Turns /\ None \notin Seq(Entries)

VARIABLES
  chat,                 \* the chat of the page, as in the source
  stored,               \* sessionStorage has a snapshot, which is that chat
  query,                \* the readiness query: no data yet, data, or data and an error
  fetching,             \* the version its running fetch will bring
  superseded,           \* versions that fetches it gave up on will bring
  drawn,                \* turn ids drawn
  wire,                 \* requests the server has not served
  replies,              \* what the promises of the page will be settled with
  archive,              \* the active release
  sessions,             \* the sessions of the API, by founding turn
  lost,                 \* history: sessions lost at least once
  faults, visits, switches \* how often the bounded things happened

browser == <<chat, stored, query, fetching, superseded, drawn>>
server == <<archive, switches, sessions, lost>>
vars == <<browser, wire, replies, server, faults, visits>>

Fresh ==
  [messages |-> <<>>, activeStart |-> 0, version |-> None, token |-> None,
   revision |-> 0, expiring |-> FALSE, retry |-> None, pending |-> FALSE,
   generation |-> 0]

Init ==
  /\ chat = Fresh
  /\ stored = FALSE /\ query = "empty" /\ fetching = None /\ superseded = {}
  /\ drawn = 0
  /\ wire = {} /\ replies = {}
  /\ archive = 1
  /\ sessions = [t \in TurnIds |-> None]
  /\ lost = {}
  /\ faults = 0 /\ visits = 0 /\ switches = 0

--------------------------------------------------------------------------------
(* Messages and turns.                                                        *)

Message(kind, turn, question, reply, asked) ==
  [kind |-> kind, turn |-> turn, question |-> question, reply |-> reply,
   asked |-> asked]
Boundary == Message("boundary", None, None, None, None)

\* filter: the members of S in messages, in order.
Kept(messages, S) ==
  LET kept[i \in 0..Len(messages)] ==
        IF i = 0 THEN <<>>
        ELSE IF messages[i] \in S THEN Append(kept[i - 1], messages[i])
        ELSE kept[i - 1]
  IN  kept[Len(messages)]

\* The message of a kind that bears a turn's id.
Bearing(messages, kind, turn) ==
  { m \in ToSet(messages) : m.kind = kind /\ m.turn = turn.turn }

Active(c) == SubSeq(c.messages, c.activeStart + 1, Len(c.messages))

\* recentContext of the active part: what was said, not by which request.
Context(c) ==
  LET said == Kept(Active(c), { m \in ToSet(Active(c)) : m.kind # "boundary" })
  IN  [i \in DOMAIN said |-> <<said[i].kind, said[i].turn>>]

\* The turn to repeat in a conversation that starts anew.
Anew(turn) ==
  IF turn = None THEN None
  ELSE [turn EXCEPT !.context = <<>>, !.expected = 0, !.token = None]

\* A boundary after the messages; two without a message between them are one.
Marked(messages) ==
  IF messages # <<>> /\ messages[Len(messages)].kind = "boundary"
  THEN messages ELSE Append(messages, Boundary)

\* boundary: what was said becomes history, but for the question to repeat.
Closed(c, retry) ==
  LET asks == IF retry = None THEN {} ELSE Bearing(c.messages, "question", retry)
      history == Marked(Kept(c.messages, ToSet(c.messages) \ asks))
      again == Kept(c.messages, asks)
  IN  [c EXCEPT !.messages = history \o again,
                !.activeStart = Len(history),
                !.token = None, !.revision = 0, !.expiring = FALSE,
                !.retry = retry, !.pending = FALSE]

\* generation + 1: a number that no request bears whose reply may still be taken.
NextGeneration ==
  LET borne == { r.generation : r \in wire } \union {chat.generation}
                 \union { r.request.generation : r \in replies }
  IN  CHOOSE g \in 0..Cardinality(borne) :
        g \notin borne /\ \A h \in 0..(g - 1) : h \in borne

\* Requests sent before a boundary are told by their generation.
Bounded(c, retry) == [Closed(c, retry) EXCEPT !.generation = NextGeneration]

\* controller.abort: nobody waits for the requests that are out.
Aborted == { [r EXCEPT !.awaited = FALSE, !.generation = 0] : r \in wire }

\* change and save.
Change(c) == chat' = c /\ stored' = TRUE

--------------------------------------------------------------------------------
(* Readiness of the archive.                                                  *)

\* A fetch takes the version it finds; one that it supersedes runs on.
Supersede ==
  /\ fetching' = archive
  /\ superseded' = superseded \union ({fetching} \ {None})

\* A page is mounted with a stale query, which was perhaps collected, or the
\* browser is online again.  A fetch that runs is joined.
StartCheck ==
  /\ fetching = None
  /\ fetching' = archive
  /\ query' \in {query, "empty"}
  /\ visits' = visits + (IF query = "success" THEN 1 ELSE 0)
  /\ visits' <= MaxVisits
  /\ UNCHANGED <<chat, stored, superseded, drawn, wire, replies, server, faults>>

\* retryReadiness, offered for an error: a new attempt has a query of its own.
RetryReadiness ==
  /\ query = "failed" \/ (query = "empty" /\ fetching = None)
  /\ Supersede
  /\ query' = "empty"
  /\ UNCHANGED <<chat, stored, drawn, wire, replies, server, faults, visits>>

\* invalidateQueries: a fetch that runs is superseded if the query has data, and
\* joined if it has none.
Refetch ==
  /\ IF query = "empty" /\ fetching # None
     THEN UNCHANGED <<fetching, superseded>> ELSE Supersede
  /\ UNCHANGED query

\* Mutation: an updated archive is noted without a boundary.
NotedVersion(v) ==
  Change([chat EXCEPT !.version = v]) /\ UNCHANGED wire

\* queryFn: another version than the chat's ends the conversation.
ApplyVersion(v) ==
  IF chat.version \in {None, v}
  THEN Change([chat EXCEPT !.version = v]) /\ UNCHANGED wire
  ELSE /\ Change([Bounded(chat, Anew(chat.retry)) EXCEPT !.version = v])
       /\ wire' = Aborted

FinishCheck ==
  /\ \/ /\ fetching # None
        /\ ApplyVersion(fetching)
        /\ fetching' = None /\ query' = "success"
        /\ UNCHANGED superseded
     \/ \E v \in superseded :
          /\ ApplyVersion(v)
          /\ superseded' = superseded \ {v}
          /\ UNCHANGED <<fetching, query>>
  /\ UNCHANGED <<drawn, replies, server, faults, visits>>

CheckFails ==
  /\ fetching # None
  /\ faults < MaxFaults /\ faults' = faults + 1
  /\ fetching' = None
  /\ query' = IF query = "empty" THEN "empty" ELSE "failed"
  /\ UNCHANGED <<chat, stored, superseded, drawn, wire, replies, server, visits>>

--------------------------------------------------------------------------------
(* Submissions.                                                               *)

\* What submit does with the turn it has made or found.
Send(c, turn) ==
  /\ Change([c EXCEPT !.retry = turn, !.pending = TRUE])
  /\ wire' = Aborted \union
       {[turn |-> turn, generation |-> c.generation, awaited |-> TRUE]}

\* An expired session is left behind, the turn to repeat with it.
Current ==
  {chat} \union (IF chat.expiring THEN {Bounded(chat, None)} ELSE {})

MaySubmit == query = "success" /\ fetching = None /\ ~ chat.pending

\* submit of a new question.
Ask ==
  /\ MaySubmit
  /\ drawn < MaxTurns
  /\ drawn' = drawn + 1
  /\ \E c \in Current :
       LET turn == [turn |-> drawn', question |-> drawn',
                    context |-> Context(c), expected |-> c.revision,
                    token |-> c.token]
           asked == Message("question", drawn', drawn', None, None)
       IN  Send([c EXCEPT !.messages = Append(@, asked)], turn)
  /\ UNCHANGED <<query, fetching, superseded, replies, server, faults, visits>>

\* retry, or submit of the same words.
Retry ==
  /\ MaySubmit
  /\ chat.retry # None
  /\ Send(chat, chat.retry)
  /\ UNCHANGED <<query, fetching, superseded, drawn, replies, server,
                 faults, visits>>

\* newChat.
NewChat ==
  /\ visits < MaxVisits
  /\ visits' = visits + 1
  /\ chat' = [Fresh EXCEPT !.version = chat.version, !.generation = NextGeneration]
  /\ stored' = FALSE
  /\ wire' = Aborted
  /\ UNCHANGED <<query, fetching, superseded, drawn, replies, server, faults>>

\* The page is loaded again: its promises are gone, restore reads the snapshot.
Reload ==
  /\ visits < MaxVisits
  /\ visits' = visits + 1
  /\ query' = "empty" /\ fetching' = None /\ superseded' = {}
  /\ replies' = {}
  /\ LET restored == [chat EXCEPT !.pending = FALSE] IN
     \/ ~ stored /\ chat' = Fresh /\ UNCHANGED stored
     \/ stored /\ chat' = restored /\ UNCHANGED stored
     \/ /\ stored /\ chat.expiring
        /\ Change(Bounded(restored, Anew(chat.retry)))
  /\ wire' = Aborted
  /\ UNCHANGED <<drawn, server, faults>>

--------------------------------------------------------------------------------
(* The API.                                                                   *)

\* The session a request is for, and its revision: the number of its turns.
SessionOf(turn) == IF turn.token = None THEN turn.turn ELSE turn.token
Revision(s) == IF sessions[s] = None THEN 0 ELSE Len(sessions[s])
Digest(turn) == <<turn.question, turn.context>>

\* Mutation: a turn is not looked for before it is executed.
NeverRecorded(turn) == {}
\* Where the session has the turn.
Recorded(turn) ==
  { i \in 1..Revision(SessionOf(turn)) :
      sessions[SessionOf(turn)][i].turn = turn.turn }

Reply(kind, version, s, n) ==
  [kind |-> kind, version |-> version, token |-> s, revision |-> n]
Conflict(code, n) == Reply(code, None, None, n)

\* How a request may end: its reply, the session after it, and its faults.
Outcome(reply, session, n) == [reply |-> reply, session |-> session, faults |-> n]

\* The turn is executed on the active release and committed, perhaps after the
\* reply was given up; or it misses its deadline.
Executed(turn) ==
  LET s == SessionOf(turn)
      entry ==
        [turn |-> turn.turn, digest |-> Digest(turn), version |-> archive]
      after == Append(IF sessions[s] = None THEN <<>> ELSE sessions[s], entry)
  IN
  {Outcome(Reply("committed", archive, s, Len(after)), after, 0)}
  \union { Outcome(Reply("uncommitted", archive, None, None), session, 1) :
             session \in {sessions[s], after} }
  \union { Outcome(Reply("unverified", v, None, None), sessions[s], 1) :
             v \in {None, archive} }

\* A recorded turn: the reply it was committed with, or another question's.
Replayed(turn) ==
  LET s == SessionOf(turn) IN
  { Outcome(IF sessions[s][i].digest = Digest(turn)
            THEN Reply("committed", sessions[s][i].version, s, i)
            ELSE Conflict("turn_id_reused", None), sessions[s], 0) :
      i \in Recorded(turn) }

Served(turn) ==
  LET s == SessionOf(turn) IN
  IF sessions[s] = None /\ turn.token # None
  THEN {Outcome(Conflict("session_expired", None), None, 0)}
  ELSE IF Recorded(turn) # {} THEN Replayed(turn)
  ELSE IF Revision(s) # turn.expected
  THEN {Outcome(Conflict("revision_conflict", Revision(s)), sessions[s], 0)}
  ELSE Executed(turn)

\* Another request holds the lease, Redis is away, or the request fails.
Faulty(turn) ==
  { Outcome(reply, sessions[SessionOf(turn)], 1) :
      reply \in {Conflict("turn_in_progress", None), Conflict("error", None),
                Reply("stateless", archive, None, None)} }

\* The requests whose promises the page still holds.
Awaiting == { r \in wire : r.awaited }

Serve ==
  \E r \in wire : \E o \in Served(r.turn) \union Faulty(r.turn) :
    /\ faults + o.faults <= MaxFaults
    /\ faults' = faults + o.faults
    /\ sessions' = [sessions EXCEPT ![SessionOf(r.turn)] = o.session]
    /\ replies' = replies \union
         { [request |-> q, reply |-> o.reply] : q \in {r} \intersect Awaiting }
    /\ wire' = wire \ {r}
    /\ UNCHANGED <<browser, archive, switches, lost, visits>>

\* The page is told of a failure while the server still has the request.
ConnectionLost ==
  /\ faults < MaxFaults /\ faults' = faults + 1
  /\ \E r \in Awaiting :
       /\ wire' = (wire \ {r}) \union
            {[r EXCEPT !.awaited = FALSE, !.generation = 0]}
       /\ replies' = replies \union
            {[request |-> r, reply |-> Conflict("error", None)]}
  /\ UNCHANGED <<browser, server, visits>>

SessionLost ==
  /\ faults < MaxFaults /\ faults' = faults + 1
  /\ \E s \in TurnIds :
       /\ sessions[s] # None
       /\ sessions' = [sessions EXCEPT ![s] = None]
       /\ lost' = lost \union {s}
  /\ UNCHANGED <<browser, wire, replies, archive, switches, visits>>

ReleaseActivated ==
  /\ switches < MaxSwitches /\ switches' = switches + 1
  /\ archive' \in Versions \ {archive}
  /\ UNCHANGED <<browser, wire, replies, sessions, lost, faults, visits>>

--------------------------------------------------------------------------------
(* Replies.                                                                   *)

\* Mutation: a reply is taken whatever happened since its request.
AnyReply(r) == TRUE
\* The generation of the request is still the chat's.
Awaited(r) == r.request.generation = chat.generation

\* The reply's release is not the chat's.
Outdated(reply) ==
  chat.version # None /\ reply.version # None /\ reply.version # chat.version

\* Mutation: a new session's token is not adopted.
TokenKept(reply) == chat.token
\* A committed reply brings the token of its session.
TokenAfter(reply) == IF reply.kind = "committed" THEN reply.token ELSE chat.token

\* The answer of the archive the chat is about, in place of an earlier one.
Answered(turn, reply, asked) ==
  LET committed == reply.kind = "committed"
      earlier == Bearing(chat.messages, "answer", turn)
      answer == Message("answer", turn.turn, turn.question, reply, asked)
  IN
  [chat EXCEPT
     !.messages = Append(Kept(@, ToSet(@) \ earlier), answer),
     !.pending = FALSE,
     !.retry = IF reply.kind = "uncommitted" THEN turn ELSE None,
     !.token = TokenAfter(reply),
     !.revision = IF committed THEN reply.revision ELSE @,
     !.expiring = committed \/ @]

\* The promise's then.
TakeAnswer(turn, reply, asked) ==
  \/ /\ Outdated(reply)
     /\ Change([Bounded(chat, Anew(turn)) EXCEPT !.version = reply.version])
     /\ Refetch
     /\ UNCHANGED drawn
  \/ /\ ~ Outdated(reply)
     /\ IF reply.kind = "stateless"
        THEN Change(Bounded(Answered(turn, reply, asked), None))
        ELSE Change(Answered(turn, reply, asked))
     /\ UNCHANGED <<drawn, query, fetching, superseded>>

\* Mutation: an expired session forgets the question.
ForgottenQuestion(turn) == None
\* An expired session keeps the question, for a conversation of its own.
ExpiredRetry(turn) == Anew(turn)

\* Mutation: the present revision is taken from a conflict that has none.
AnyRevisionConflict(reply) ==
  reply.kind \in {"revision_conflict", "turn_in_progress"}
\* A conflict that says which revision is the present one.
RevisionConflict(reply) == reply.kind = "revision_conflict"

\* The promise's catch.
TakeConflict(turn, reply) ==
  LET settled == [chat EXCEPT !.pending = FALSE]
      again == [turn EXCEPT !.turn = drawn + 1, !.expected = chat.revision,
                            !.token = chat.token]
      n == reply.revision
  IN
  /\ \/ /\ reply.kind = "session_expired"
        /\ Change(Bounded(chat, ExpiredRetry(turn)))
        /\ UNCHANGED drawn
     \/ /\ RevisionConflict(reply)
        /\ Change([settled EXCEPT !.revision = n,
                                  !.retry = [turn EXCEPT !.expected = n]])
        /\ UNCHANGED drawn
     \/ /\ reply.kind = "turn_id_reused"
        /\ drawn < MaxTurns /\ drawn' = drawn + 1
        /\ Change([settled EXCEPT !.retry = again])
     \/ /\ reply.kind \in {"turn_in_progress", "error"}
        /\ Change(settled)
        /\ UNCHANGED drawn
  /\ UNCHANGED <<query, fetching, superseded>>

Answers == {"committed", "uncommitted", "unverified", "stateless"}

Deliver ==
  \E r \in replies :
    /\ replies' = replies \ {r}
    /\ IF ~ Awaited(r) THEN UNCHANGED browser
       ELSE IF r.reply.kind \in Answers
       THEN TakeAnswer(r.request.turn, r.reply, r.request.generation)
       ELSE TakeConflict(r.request.turn, r.reply)
    /\ UNCHANGED <<wire, server, faults, visits>>

--------------------------------------------------------------------------------
Next ==
  \/ StartCheck \/ RetryReadiness \/ FinishCheck \/ CheckFails
  \/ Ask \/ Retry \/ NewChat \/ Reload
  \/ Serve \/ ConnectionLost \/ Deliver
  \/ SessionLost \/ ReleaseActivated

Spec == Init /\ [][Next]_vars

\* The server serves, promises are settled, fetches end; and somebody who wants an
\* answer has the archive checked until it is ready, and repeats the question though
\* pages may be mounted anew, and the archive checked again, all the time.
FairSpec ==
  /\ Spec
  /\ WF_vars(Serve) /\ WF_vars(Deliver)
  /\ WF_vars(StartCheck /\ query # "success") /\ WF_vars(FinishCheck)
  /\ SF_vars(Retry)

--------------------------------------------------------------------------------
ReplyKinds ==
  Answers \union {"session_expired", "turn_id_reused", "revision_conflict",
                  "turn_in_progress", "error"}
Replies ==
  [kind : ReplyKinds, version : Versions \union {None},
   token : TurnIds \union {None}, revision : 0..MaxTurns \union {None}]
Requests == [turn : Turns, generation : Nat, awaited : BOOLEAN]
Messages ==
  {Boundary}
  \union [kind : {"question"}, turn : TurnIds, question : TurnIds,
          reply : {None}, asked : {None}]
  \union [kind : {"answer"}, turn : TurnIds, question : TurnIds,
          reply : Replies, asked : Nat]
Chats ==
  [messages : Seq(Messages), activeStart : Nat,
   version : Versions \union {None}, token : TurnIds \union {None},
   revision : 0..MaxTurns, expiring : BOOLEAN, retry : Turns \union {None},
   pending : BOOLEAN, generation : Nat]

TypeOK ==
  /\ chat \in Chats
  /\ chat.activeStart <= Len(chat.messages)
  /\ chat.pending => chat.retry # None
  /\ stored \in BOOLEAN /\ query \in {"empty", "success", "failed"}
  /\ fetching \in Versions \union {None} /\ superseded \subseteq Versions
  /\ drawn \in 0..MaxTurns
  /\ wire \subseteq Requests
  /\ replies \subseteq [request : Requests, reply : Replies]
  /\ archive \in Versions
  /\ sessions \in [TurnIds -> Seq(Entries) \union {None}] /\ lost \subseteq TurnIds

\* The places of the active conversation's answers.
ActiveAnswers ==
  { i \in (chat.activeStart + 1)..Len(chat.messages) :
      chat.messages[i].kind = "answer" }

\* A late answer, after a new chat, a boundary or a reload, is not written into a
\* conversation that did not ask for it.
ActiveAnswersWereAskedHere ==
  \A i \in ActiveAnswers : chat.messages[i].asked = chat.generation

\* The conversation on the screen is about one archive release, whatever was
\* activated while its requests and readiness checks were under way.
OneArchivePerConversation ==
  \A i \in ActiveAnswers : chat.messages[i].reply.version \in {None, chat.version}

\* The committed answers of the conversation are turns of the session it sends,
\* at increasing revisions none of which is past the chat's, and the session, if
\* it was never lost, has each of them at its revision.
TranscriptIsTheSession ==
  LET Shown == { i \in ActiveAnswers : chat.messages[i].reply.kind = "committed" }
      shown(i) == chat.messages[i].reply
  IN
  \A i \in Shown :
    /\ shown(i).token = chat.token
    /\ chat.token \notin lost =>
         /\ shown(i).revision <= chat.revision
         /\ \A j \in Shown : j < i => shown(j).revision < shown(i).revision
         /\ shown(i).revision \in 1..Revision(chat.token)
         /\ sessions[chat.token][shown(i).revision].turn = chat.messages[i].turn

\* "Retains the submitted question": a question without an answer at the end of
\* the chat is the one a retry repeats, through conflicts, boundaries and reloads.
UnansweredIsRetryable ==
  \A i \in DOMAIN chat.messages :
    /\ chat.messages[i].kind = "question"
    /\ \A j \in (i + 1)..Len(chat.messages) : chat.messages[j].kind = "boundary"
    => chat.retry # None /\ chat.retry.question = chat.messages[i].question

\* "Each request sends the ten previous individual messages": what was said since
\* the last boundary belongs to the active conversation, of which a request's
\* context is made.
ContextIsComplete ==
  \A i \in DOMAIN chat.messages :
    (\A j \in i..Len(chat.messages) : chat.messages[j].kind # "boundary")
      => i > chat.activeStart

\* What the sessions keep, as ConversationLog has it: of a reply its release.  What
\* is recorded a client may have been told.
EntryOf(x) == [turn |-> x.turn, reply |-> x.version]

LogView ==
  [s \in TurnIds |-> [i \in 1..Revision(s) |-> EntryOf(sessions[s][i])]]

ToldView == [s \in TurnIds |-> ToSet(LogView[s])]

Conversation ==
  INSTANCE ConversationLog WITH
    Conversations <- TurnIds, Turns <- TurnIds, Replies <- Versions,
    log <- LogView, told <- ToldView

\* Whatever the page sends, repeats and gives up, a session grows at its end by a
\* turn that it does not have, or is lost whole: the log that AnalystSession keeps.
KeepsConversationLog == Conversation!Spec

\* "The archive changed. Edit or retry your question.": once archive, network and
\* sessions are quiet, somebody who retries is answered.
RetriesAreAnswered == chat.retry # None ~> chat.retry = None
================================================================================
