------------------------------ MODULE AnalystLoop ------------------------------
(******************************************************************************)
(* One turn of the evidence analyst: the route that prepares, answers and     *)
(* commits it (apps/api/app/api/analysis_sessions.py), the bounded            *)
(* investigation with its independent review                                  *)
(* (apps/api/app/services/analyst_loop.py), the model calls it makes          *)
(* (analyst_provider.py) and the shadow trial that may follow                 *)
(* (apps/api/app/api/analysis_shadow.py).                                     *)
(*                                                                            *)
(* A turn is one coroutine: the stage is the await it stands at, and a step   *)
(* is what it does up to the next one.  The clock counts whole units since    *)
(* the turn started; what an await brings, how long it takes and whether a    *)
(* timeout cuts it are choices.  A wording is known by whether it is the      *)
(* proposed answer, the repaired one, or the backend's own facts.             *)
(******************************************************************************)
EXTENDS Integers, Sequences, Functions

CONSTANTS
  MaxModelCalls,        \* analyst_max_model_calls
  MaxToolRounds,        \* analyst_max_tool_rounds
  MaxToolCalls,         \* the cap on tool calls of a turn: 6
  MaxTools,             \* the cap on the tools of one action: 3
  Deadline,             \* analyst_deadline_seconds, in units
  Investigation,        \* analyst_investigation_seconds
  RequestTimeout,       \* ai_request_timeout_seconds
  Finalization,         \* what run keeps for recovery and rendering: 2.5 s
  Margin,               \* what recovery keeps for rendering: 0.5 s
  RetryTime,            \* what must remain for a second attempt: 8 s
  Price,                \* analyst_call_reservation_usd
  Costs,                \* what providers report
  Unknown,              \* no cost was reported
  Durations             \* how long an await takes

\* Settings admit two calls or more, and one or two tool rounds (core/config.py).
ASSUME LoopAssumption ==
  /\ MaxModelCalls \in Nat \ {0, 1} /\ MaxToolRounds \in {1, 2}
  /\ MaxToolCalls \in Nat /\ MaxTools \in Nat \ {0}
  /\ Deadline \in Nat /\ Investigation \in Nat /\ RequestTimeout \in Nat \ {0}
  /\ Margin \in Nat /\ Finalization \in Nat /\ RetryTime \in Nat
  /\ Margin <= Finalization /\ Finalization <= Deadline
  /\ Price \in Nat \ {0} /\ Costs \subseteq Nat /\ Unknown \notin Nat
  /\ Durations \subseteq Nat

VARIABLES
  stage,                \* the await the turn stands at
  turn,                 \* the request: its answer mode, and its session if any
  trial,                \* the shadow trial is at work, not the client's turn
  elapsed,              \* time since the turn, or the trial, started
  began,                \* history: when the loop began to run
  cutoff,               \* when asyncio.timeout ends the investigation
  reservations,         \* slots of each reservation, in order
  costs,                \* of each call, in order: its length is loop.calls
  settled,              \* what each reservation was settled at
  rounds, toolCount,    \* tool rounds and tool calls made
  todo,                 \* tools of the present round still to run
  retried,              \* next_action has asked again
  wording,              \* the answer in hand
  approved,             \* history: the wordings a review accepted
  patience,             \* timeout_seconds of the calls after a repair
  slowest,              \* the longest model call
  recoveryRan, facts,   \* recovery has run; facts answer this turn
  published             \* what is rendered for the client

request == <<turn, trial>>
window == <<began, cutoff>>
ledger == <<reservations, costs>>
investigated == <<rounds, toolCount, todo, retried>>
answering == <<wording, approved, patience>>
outcome == <<recoveryRan, facts, published>>
\* Everything but the stage.
rest == <<request, elapsed, window, ledger, settled, investigated, answering,
          slowest, outcome>>
vars == <<stage, rest>>

None == "none"
Modes == {"deterministic", "llm_primary", "shadow"}

Total(f) == SumFunction(f)
Least(a, b) == IF a <= b THEN a ELSE b
Most(a, b) == IF a >= b THEN a ELSE b

calls == Len(costs)
Slots == Total(reservations)
Available == Slots - calls
Remaining == Deadline - elapsed
Forever == Deadline + RequestTimeout

\* A stateless request has no session and never reaches the model.
Init ==
  /\ stage = "prepare"
  /\ turn \in [mode : Modes, session : BOOLEAN]
  /\ trial = FALSE
  /\ elapsed = 0
  /\ began = 0 /\ cutoff = 0
  /\ reservations = <<>> /\ costs = <<>> /\ settled = <<>>
  /\ rounds = 0 /\ toolCount = 0 /\ todo = 0 /\ retried = FALSE
  /\ wording = None /\ approved = {} /\ patience = Forever /\ slowest = 0
  /\ recoveryRan = FALSE /\ facts = FALSE /\ published = None

--------------------------------------------------------------------------------
(* Time and money.                                                            *)

\* BudgetReservation.reserve; a refusal leaves everything as it is.
Reserve(n) == reservations' = Append(reservations, n)

\* An await of d units that ends before the timeout around it.
Passes(d, end) == elapsed + d <= end /\ elapsed' = elapsed + d
\* The timeout cuts it; one that lay in the past when it was set cuts at once.
CutAt(d, end) == elapsed + d >= end /\ elapsed' = Most(elapsed, end)

\* Mutation: a call is made without a slot.
NoSlot == UNCHANGED reservations

\* One slot more when all are used.
TakeSlot == IF calls >= Slots THEN Reserve(1) ELSE UNCHANGED reservations

\* Two slots are there, or reserved now.
KeepTwo ==
  IF Available < 2 THEN Reserve(2 - Available) ELSE UNCHANGED reservations

\* No call is left, or no time.
LimitReached == calls >= MaxModelCalls \/ Remaining <= 0

\* The shortest of the timeouts a call is under.
CallTimeout == Least(Least(Remaining, RequestTimeout), patience)

\* The results of a request: "value" is an object of the schema, "malformed" a
\* response that is not one, "rejected" the other ValueErrors and RuntimeErrors,
\* "failed" whatever else is raised.

\* The model is not admitted, or the reservation is refused.
NotAdmitted(result) ==
  /\ result = "rejected"
  /\ UNCHANGED <<ledger, elapsed, slowest>>

\* build_payload: what the call needs does not fit the input budget.
DoesNotFit(result) ==
  /\ result = "rejected"
  /\ TakeSlot
  /\ UNCHANGED <<costs, elapsed, slowest>>

\* The call returns or raises in time; malformed calls count too.
Called(result) ==
  /\ TakeSlot
  /\ \E d \in Durations, c \in Costs \union {Unknown} :
       /\ d <= CallTimeout
       /\ Passes(d, cutoff)
       /\ costs' = Append(costs, c)
       /\ slowest' = Most(slowest, d)

\* Its own timeout or the investigation's ends it, and its cost is not known.
TimedOut(result) ==
  /\ result = "failed"
  /\ TakeSlot
  /\ CutAt(CallTimeout, cutoff) \/ Passes(CallTimeout, cutoff)
  /\ costs' = Append(costs, Unknown)
  /\ UNCHANGED slowest

\* request_model.
Request(result) ==
  \/ /\ LimitReached
     /\ result = "failed"
     /\ UNCHANGED <<ledger, elapsed, slowest>>
  \/ /\ ~ LimitReached
     /\ \/ NotAdmitted(result) \/ DoesNotFit(result)
        \/ Called(result) \/ TimedOut(result)

--------------------------------------------------------------------------------
(* The turn before the loop.                                                  *)

\* tools.prepare, within the deadline.
Prepare ==
  /\ stage = "prepare"
  /\ \E d \in Durations :
       \/ Passes(d, Deadline) /\ stage' \in {"run", "abort"}
       \/ CutAt(d, Deadline) /\ stage' = "abort"
  /\ UNCHANGED <<request, window, ledger, settled, investigated,
                 answering, slowest, outcome>>

ModelAllowed == trial \/ (turn.session /\ turn.mode = "llm_primary")

\* Mutation: the investigation may use the whole deadline.
FullWindow == Deadline

\* investigation_budget, as the time it ends.
Window == Most(elapsed, Deadline - Finalization)

\* run: facts alone, or a reservation of three calls and an investigation.
RunFacts ==
  /\ stage = "run" /\ ~ ModelAllowed
  /\ stage' = "fallback"
  /\ began' = elapsed
  /\ UNCHANGED <<request, elapsed, cutoff, ledger, settled,
                 investigated, answering, slowest, outcome>>

RunModel ==
  /\ stage = "run" /\ ModelAllowed
  /\ began' = elapsed
  /\ cutoff' = Window
  /\ \/ Reserve(3) /\ stage' = "action"
     \/ UNCHANGED reservations /\ stage' = "fallback"
  /\ UNCHANGED <<request, elapsed, costs, settled, investigated,
                 answering, slowest, outcome>>

--------------------------------------------------------------------------------
(* The investigation.                                                         *)

\* Mutation: the second attempt is allowed while one call is left.
ExhaustedLate == calls > MaxModelCalls - 2

\* Two calls stay free for the answer and its review.
Exhausted == calls > MaxModelCalls - 3

\* next_action: a malformed action is asked for once more, calls and time allowing.
NextAction(result) ==
  /\ stage = "action"
  /\ Request(result)
  /\ \/ /\ result = "value"
        /\ \/ stage' = "answered" /\ wording' = "proposed" /\ UNCHANGED todo
           \/ stage' = "tools" /\ todo' \in 1..MaxTools /\ UNCHANGED wording
        /\ retried' = FALSE
     \/ /\ result = "malformed"
        /\ ~ (retried \/ Exhausted' \/ Remaining' < RetryTime)
        /\ retried' = TRUE
        /\ UNCHANGED <<stage, wording, todo>>
     \/ /\ result = "malformed"
        /\ retried \/ Exhausted' \/ Remaining' < RetryTime
        /\ stage' = "fallback"
        /\ UNCHANGED <<retried, wording, todo>>
     \/ /\ result \in {"rejected", "failed"}
        /\ stage' = "fallback"
        /\ UNCHANGED <<retried, wording, todo>>
  /\ UNCHANGED <<request, window, settled, rounds, toolCount,
                 approved, patience, outcome>>

\* Mutation: the tools about to run are not counted.
ToolsUsedUp == toolCount > MaxToolCalls
\* The action asks for more tools than the turn has left.
TooManyTools == toolCount + todo > MaxToolCalls

\* The limits of a round, and a reservation that leaves an action and a review.
StartRound ==
  /\ stage = "tools"
  /\ \/ /\ rounds >= MaxToolRounds \/ elapsed >= Investigation \/ TooManyTools
        /\ stage' = "fallback" /\ todo' = 0
        /\ UNCHANGED <<rounds, reservations>>
     \/ /\ rounds < MaxToolRounds /\ elapsed < Investigation
        /\ ~ TooManyTools
        /\ \/ /\ Available < 2
              /\ stage' = "fallbackWithin" /\ todo' = 0
              /\ UNCHANGED <<rounds, reservations>>
           \/ /\ KeepTwo
              /\ rounds' = rounds + 1
              /\ stage' = "running"
              /\ UNCHANGED todo
  /\ UNCHANGED <<request, elapsed, window, costs, settled,
                 toolCount, retried, answering, slowest, outcome>>

\* fallback_claims: a result brings facts that answer this turn, or none.
FactsGained == {facts, TRUE}

\* One tool after another; what is left when the time is over is dropped.
RunTool ==
  /\ stage = "running" /\ todo > 0 /\ elapsed < Investigation
  /\ toolCount' = toolCount + 1
  /\ \E d \in Durations :
       \/ /\ Passes(d, cutoff)
          /\ facts' \in FactsGained
          /\ todo' = todo - 1
          /\ UNCHANGED stage
       \/ /\ Passes(d, cutoff) \/ CutAt(d, cutoff)
          /\ stage' = "fallback" /\ todo' = 0
          /\ UNCHANGED facts
  /\ UNCHANGED <<request, window, ledger, settled, rounds, retried,
                 answering, slowest, recoveryRan, published>>

EndRound ==
  /\ stage = "running"
  /\ todo = 0 \/ elapsed >= Investigation
  /\ stage' = "action" /\ todo' = 0
  /\ UNCHANGED <<request, elapsed, window, ledger, settled, rounds,
                 toolCount, retried, answering, slowest, outcome>>

--------------------------------------------------------------------------------
(* The answer and its review.                                                 *)

\* What investigate does with an answer that is not supported.
Unsupported ==
  stage' = IF wording = "proposed" THEN "repair" ELSE "fallbackWithin"

\* validate, before its call: the structure and the citations the question asks for.
Structure ==
  /\ stage = "answered"
  /\ stage' = "review" \/ Unsupported
  /\ UNCHANGED rest

\* Mutation: what is rendered is the last answer of an action.
RenderedLastAnswer == "proposed"
\* render, for a supported answer.
Rendered == wording

\* validate: the independent review of the answer in hand.
Review(result) ==
  /\ stage = "review"
  /\ Request(result)
  /\ \/ /\ result = "value"
        /\ stage' = "settle"
        /\ approved' = approved \union {wording}
        /\ published' = Rendered
     \/ /\ result \in {"value", "malformed", "rejected"}
        /\ Unsupported
        /\ UNCHANGED <<approved, published>>
     \/ /\ result = "failed"
        /\ stage' = "fallback"
        /\ UNCHANGED <<approved, published>>
  /\ UNCHANGED <<request, window, settled, investigated, wording,
                 patience, recoveryRan, facts>>

RepairTimeout == Least(RequestTimeout, (Remaining - Margin) \div 2)

\* One repair, when two more calls fit the limit, the time and the budget.
PlanRepair ==
  /\ stage = "repair" /\ patience = Forever
  /\ \/ /\ calls + 2 <= MaxModelCalls
        /\ RepairTimeout >= Most(1, slowest)
        /\ KeepTwo
        /\ patience' = RepairTimeout
        /\ UNCHANGED stage
     \/ /\ ~ (/\ calls + 2 <= MaxModelCalls
              /\ RepairTimeout >= Most(1, slowest)
              /\ Available >= 2)
        /\ stage' = "fallbackWithin"
        /\ UNCHANGED <<patience, reservations>>
  /\ UNCHANGED <<request, elapsed, window, costs, settled,
                 investigated, wording, approved, slowest, outcome>>

Repair(result) ==
  /\ stage = "repair" /\ patience # Forever
  /\ Request(result)
  /\ \/ /\ result = "value"
        /\ stage' = "answered"
        /\ wording' = "repaired"
     \/ /\ result # "value"
        /\ stage' = "fallback"
        /\ UNCHANGED wording
  /\ UNCHANGED <<request, window, settled, investigated, approved,
                 patience, outcome>>

--------------------------------------------------------------------------------
(* Facts, settlement and the end of the turn.                                 *)

\* fallback: facts at hand are enough; recovery runs once, and not without time.
FallbackStages == {"fallback", "fallbackWithin"}
RecoveryDue == ~ facts /\ ~ recoveryRan /\ Remaining > Margin

RenderFacts ==
  /\ stage \in FallbackStages
  /\ ~ RecoveryDue
  /\ stage' = "settle"
  /\ published' = "facts"
  /\ UNCHANGED <<request, elapsed, window, ledger, settled,
                 investigated, answering, slowest, recoveryRan, facts>>

\* Recovery: one tool.  Inside the investigation its timeout may strike first;
\* run then falls back again, and recovery has had its turn.
Recover ==
  /\ stage \in FallbackStages
  /\ RecoveryDue
  /\ recoveryRan' = TRUE
  /\ \E d \in Durations :
       LET end == Deadline - Margin
           within == stage = "fallbackWithin"
       IN
       \/ /\ Passes(d, IF within THEN Least(end, cutoff) ELSE end)
          /\ facts' \in FactsGained
          /\ UNCHANGED stage
       \/ /\ ~ within \/ end <= cutoff
          /\ CutAt(d, end)
          /\ UNCHANGED <<stage, facts>>
       \/ /\ within
          /\ CutAt(d, cutoff)
          /\ stage' = "fallback"
          /\ UNCHANGED facts
  /\ UNCHANGED <<request, window, ledger, settled, investigated,
                 answering, slowest, published>>

\* Mutation: each reservation is settled from the first cost on.
SliceFromStart(i) == { k \in 1..calls : k <= reservations[i] }

\* Slots of reservation i, as positions in costs.
Before(i) == Total([j \in 1..(i - 1) |-> reservations[j]])
Slice(i) ==
  { k \in 1..calls : Before(i) < k /\ k <= Before(i) + reservations[i] }

PriceOf(k) == IF costs[k] = Unknown THEN Price ELSE costs[k]
Bill(S) == Total([k \in S |-> PriceOf(k)])

\* Mutation: a trial ends like the turn it follows.
AfterAnySettle == IF stage = "cancelled" THEN "abort" ELSE "commit"
\* A trial commits nothing.
AfterSettle == CASE stage = "cancelled" -> "abort"
                 [] trial /\ stage = "settle" -> "over"
                 [] OTHER -> "commit"

\* settle: one reservation after another, each an await of the ledger.
SettlementOpen == stage \in {"settle", "cancelled"} /\ Len(settled) < Len(reservations)
SettleNext == settled' = Append(settled, Bill(Slice(Len(settled) + 1)))

Settle ==
  /\ SettlementOpen
  /\ SettleNext
  /\ UNCHANGED <<stage, request, elapsed, window, ledger, investigated,
                 answering, slowest, outcome>>

EndSettlement ==
  /\ stage \in {"settle", "cancelled"} /\ Len(settled) = Len(reservations)
  /\ stage' = AfterSettle
  /\ UNCHANGED rest

\* The trial's timeout, or the end of the process, strikes in one of these awaits:
\* the ledger has run its script or not, and the reservations behind it are left.
SettlementCut ==
  /\ SettlementOpen
  /\ SettleNext \/ UNCHANGED settled
  /\ stage' = "abort"
  /\ UNCHANGED <<request, elapsed, window, ledger, investigated,
                 answering, slowest, outcome>>

\* The request or the process is cancelled: a call in flight has no cost, and the
\* reservations are settled on the way out (or not all: SettlementCut).
Cancelled ==
  /\ stage \notin {"prepare", "settle", "cancelled", "commit", "committed", "abort",
                   "over"}
  /\ stage' = "cancelled"
  /\ \/ UNCHANGED ledger
     \/ /\ stage \in {"action", "review", "repair"}
        /\ calls < MaxModelCalls
        /\ TakeSlot
        /\ costs' = Append(costs, Unknown)
  /\ UNCHANGED <<request, elapsed, window, settled, investigated,
                 answering, slowest, outcome>>

\* The session's commit, or none without a session; only a committed turn of the
\* shadow mode may be sampled for a trial.
Commit ==
  /\ stage = "commit"
  /\ \/ /\ turn.session
        /\ stage' \in {"over", "committed"}
     \/ /\ ~ turn.session
        /\ stage' = "over"
  /\ UNCHANGED rest

\* turn.abort, and the answer of a turn that ran out of time.
Abort ==
  /\ stage = "abort"
  /\ stage' = "over"
  /\ UNCHANGED rest

\* The trial is a loop of its own, with a clock of its own, on the same release;
\* it is skipped when the release changed, and what it renders goes nowhere.
StartTrial ==
  /\ stage = "committed"
  /\ \/ /\ turn.mode = "shadow"
        /\ trial' = TRUE /\ stage' = "prepare" /\ elapsed' = 0
        /\ began' = 0 /\ cutoff' = 0
        /\ reservations' = <<>> /\ costs' = <<>> /\ settled' = <<>>
        /\ rounds' = 0 /\ toolCount' = 0 /\ todo' = 0 /\ retried' = FALSE
        /\ wording' = None /\ approved' = {} /\ patience' = Forever
        /\ slowest' = 0 /\ recoveryRan' = FALSE /\ facts' = FALSE
        /\ published' = None
     \/ /\ stage' = "over"
        /\ UNCHANGED <<trial, elapsed, window, ledger, settled,
                       investigated, answering, slowest, outcome>>
  /\ UNCHANGED turn

Next ==
  \/ Prepare \/ RunFacts \/ RunModel
  \/ \E result \in {"value", "malformed", "rejected", "failed"} :
       NextAction(result) \/ Review(result) \/ Repair(result)
  \/ StartRound \/ RunTool \/ EndRound
  \/ Structure \/ PlanRepair
  \/ RenderFacts \/ Recover
  \/ Settle \/ EndSettlement \/ SettlementCut
  \/ Cancelled \/ Commit \/ Abort \/ StartTrial

\* Every await of the turn returns or is cut by a timeout.
Spec == Init /\ [][Next]_vars /\ WF_vars(Next)

--------------------------------------------------------------------------------
TypeOK ==
  /\ stage \in {"prepare", "run", "action", "tools", "running", "answered",
                "review", "repair", "settle", "cancelled", "commit", "committed",
                "abort", "over"} \union FallbackStages
  /\ turn \in [mode : Modes, session : BOOLEAN]
  /\ trial \in BOOLEAN /\ recoveryRan \in BOOLEAN /\ facts \in BOOLEAN
  /\ retried \in BOOLEAN
  /\ elapsed \in 0..Deadline /\ began \in 0..Deadline /\ cutoff \in 0..Deadline
  /\ slowest \in Nat
  /\ reservations \in Seq(Nat) /\ costs \in Seq(Costs \union {Unknown})
  /\ settled \in Seq(Nat)
  /\ calls <= MaxModelCalls
  /\ rounds \in 0..MaxToolRounds /\ toolCount \in 0..MaxToolCalls
  /\ todo \in 0..MaxTools
  /\ wording \in {None, "proposed", "repaired"}
  /\ approved \subseteq {"proposed", "repaired"}
  /\ patience \in Nat
  /\ published \in {None, "proposed", "repaired", "facts"}

\* What the reservations are settled at is what the calls cost, each call once, an
\* unreported one at the reserved price: calls are matched to slots by position
\* alone (loop.costs[offset : offset + slots]).  Wherever the settlement is cut, the
\* reservations settled so far are those of the first calls, and no call behind
\* them is in the sum: its reservation stays charged in full.  A turn commits only
\* when all are settled.
SettledAtCost ==
  /\ Total(settled) = Bill({ k \in 1..calls : k <= Before(Len(settled) + 1) })
  /\ Len(settled) = Len(reservations) => Total(settled) = Bill(1..calls)
  /\ stage \in {"commit", "committed"} => Len(settled) = Len(reservations)

\* No wording of the model reaches the client that its reviewer did not accept,
\* the very wording, with a repair in between.
PublishedWasReviewed == published \in {None, "facts"} \union approved

\* "Two calls stay free for the answer and its review" (next_action): with the
\* rounds' calls and three more allowed, no proposed answer is without its review
\* for want of a call, whatever was asked twice.  (With three rounds it would not
\* hold: two actions asked twice leave their successors no call.)
ReviewStaysAffordable ==
  MaxModelCalls >= MaxToolRounds + 3 =>
    (stage = "review" /\ wording = "proposed" => calls < MaxModelCalls)

\* "Leave recovery and response finalization inside the overall request budget"
\* (run): a turn that is not cancelled has its answer before the margin, whatever
\* hung and wherever the investigation was cut, unless it began too late.
AnsweredBeforeDeadline ==
  stage = "settle" => elapsed <= Most(Deadline - Margin, began)

\* Every turn, and the trial after it, comes to its end.
TurnEnds == <>[](stage = "over")
================================================================================
