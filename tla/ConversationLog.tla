--------------------------- MODULE ConversationLog ---------------------------
(******************************************************************************)
(* What the conversation store of the evidence analyst promises, without      *)
(* leases, revisions, scripts or lost replies (docs/analyst-evidence-loop.md, *)
(* implemented by apps/api/app/services/analyst_sessions.py).                 *)
(*                                                                            *)
(* A conversation is a sequence of turns with one reply each.  It grows at    *)
(* its end, one turn at a time, or is forgotten as a whole; and a client is   *)
(* told only replies that are in it.                                          *)
(******************************************************************************)
EXTENDS Naturals, Sequences

CONSTANTS
  Conversations,        \* names of conversations
  Turns,                \* names of turns
  Replies               \* replies, one for every attempt to answer

VARIABLES
  log,                  \* the turns of each conversation with their replies
  told                  \* the replies clients were told, of what is not forgotten

Entries == [turn : Turns, reply : Replies]

Init ==
  /\ log = [c \in Conversations |-> << >>]
  /\ told = [c \in Conversations |-> {}]

InLog(c, e) == \E i \in DOMAIN log[c] : log[c][i] = e

\* A turn the conversation does not have is answered; the client may not learn.
Extend(c, e) ==
  /\ \A i \in DOMAIN log[c] : log[c][i].turn # e.turn
  /\ log' = [log EXCEPT ![c] = Append(@, e)]
  /\ \/ told' = told
     \/ told' = [told EXCEPT ![c] = @ \union {e}]

\* A client is told a reply of the conversation.
Tell(c, e) ==
  /\ InLog(c, e)
  /\ told' = [told EXCEPT ![c] = @ \union {e}]
  /\ UNCHANGED log

Forget(c) ==
  /\ log' = [log EXCEPT ![c] = << >>]
  /\ told' = [told EXCEPT ![c] = {}]

Next ==
  \E c \in Conversations :
    \/ \E e \in Entries : Extend(c, e) \/ Tell(c, e)
    \/ Forget(c)

Spec == Init /\ [][Next]_<<log, told>>

--------------------------------------------------------------------------------
TypeOK ==
  /\ log \in [Conversations -> Seq(Entries)]
  /\ told \in [Conversations -> SUBSET Entries]

\* No turn is answered twice in a conversation.
TurnsDistinct ==
  \A c \in Conversations : \A i, j \in DOMAIN log[c] :
    log[c][i].turn = log[c][j].turn => i = j

\* Clients are told replies of the conversation only, so all clients that are
\* told a reply to a turn are told the same one.
ToldIsInLog == \A c \in Conversations : \A e \in told[c] : InLog(c, e)
================================================================================
