# KnicksIQ: TLA+ models and proofs

This directory holds a formal model of the parts of KnicksIQ in which steps of
several actors interleave, fail or are lost: TLA+ modules, TLC configurations that
check them on small instances, and proofs that TLAPS checks for every value of the
constants. Paths below are relative to the repository (`src/`).

Contents

1. The system and its inventory
2. The modules and how they correspond to the code
3. What each run checks, its bounds and its fairness
4. What is proved, and how
5. Findings
6. What is only model-checked, what is not modelled
7. Plan

## 1. The system

KnicksIQ answers questions about one season of Knicks games. A Next.js client keeps a
conversation and posts each question to a FastAPI service. The service answers from
PostgreSQL and Qdrant, either by the legacy pipeline or by the evidence analyst, an
agent loop that calls a paid language model. Redis keeps conversation state, rate
limits, an answer cache and the monthly AI budget. A worker imports games. A release
procedure evaluates a candidate under a fixed budget, and a deploy tool switches
services, dataset release and Qdrant aliases.

### Inventory

**Evaluation attempt ledger** (`apps/api/app/evaluation/attempt_ledger.py`,
`ledger_state.py`, `spend_bound.py`).
State: an append-only JSON-lines file shared by processes, under `flock`.
Operations: claim, admit, settle, refuse, seal, attest; each replays the whole file.
Hard: several processes and threads; a death or failed write in the middle of a
record; a record in the file whose fsync failed; loss of power; sealing while calls
are under way.
Correct when: the file always replays; attempts and dollars stay within the approved
bound whatever a crash leaves on the disk; every request on the wire was admitted
before; the attested numbers stay true.

**Provider guard and guarded call** (`evaluation/provider_guard.py`,
`services/report_llm.py`). One guard per process, bound at startup to a run.
Interacts: admits in the ledger before the HTTP request, settles after the reply.

**Evidence analyst sessions** (`services/analyst_sessions.py`,
`api/analysis_sessions.py`).
State: per session a Redis hash (revision, state, a stored response per turn) and a
separate lease key with a TTL of 35 s.
Operations: the scripts BEGIN, COMMIT and ABORT, called by the request handler.
Hard: a script may run after its caller timed out (socket timeout 0.2 s) or never; a
lease expires while its owner works; hash and lease are evicted independently;
clients retry with the same turn id.
Correct when: no committed turn is lost or answered twice; a reply given as committed
stays until the session is lost; a stored reply only answers its own question.

**Monthly AI budget** (`services/analyst_budget.py`, `runtime_store.reserve_ai_budget`).
State: a total per month and a hash of outstanding reservations.
Operations: reserve against a cutoff, settle.
Hard: scripts that run late, or again when the driver resends them; eviction of one of
the two keys.
Correct when: the total is the account of the calls, a charge is settled or evicted once,
and the cutoff holds.

**Analyst loop** (`services/analyst_loop.py`, `analyst_provider.py`,
`analyst_fallback.py`, `analyst_render.py`).
State: calls made, slots reserved, costs by position, tool rounds, the deadline.
Operations: investigate, validate by a reviewing model, repair once, fall back, settle.
After a committed turn of the shadow mode the same loop may run once more in private
(`api/analysis_shadow.py`).
Hard: exceptions between a call and its cost, timeouts at every await, top-up
reservations.
Correct when: no call without a reserved slot; limits of calls, tools and rounds hold;
wording is published only after structural validation and review; a run settles each
reservation it made at the cost of its own calls, unless it is cut while it does.

**Web conversation client** (`apps/web/src/features/knicks/use-analyst.ts`).
State: one conversation in module state and `sessionStorage`: messages, token,
revision, expiry, the turn to retry, a generation number.
Operations: submit, retry, new chat, restore, readiness check, boundary.
Hard: answers that arrive after a new chat, an archive change, an expiry or a reload;
readiness checks that find another archive while a question is under way.
Correct when: no answer lands in another conversation; a retry keeps its turn id; a
turn can eventually be answered.

**Public rate limiter** (`api/analysis_policy.py`, `services/runtime_store.py`).
State: a minute and a day window per client in process memory, counters in Redis.
Hard: a bounded table of clients, sweeps, degradation without Redis.
Correct when: a client never gets more than its limit from an instance, and no
client's debt is forgiven to make room.

**Dataset releases and deploy** (`services/releases.py`, `deploy_release.py`,
`release_bundle.py`, `qdrant_client.py`).
State: release rows, Render deployments, Qdrant aliases, a rollout record.
Hard: failures between the four changes, uncertain outcomes, failed restorations.
Correct when: a failed rollout ends restored or says that it is not; at most one
release is active.

**Answer pipeline** (`api/analysis.py` and its `analysis_*` modules). The route without
the evidence loop: one request reads the active version, looks in the answer cache, reads
the archive by several statements, and stores its answer.
State: the Redis answer cache, keyed by the version.
Hard: the active release changes between the statements of a request.
Correct when: an answer comes from a release that was active while it was asked.

**Scoring-run detector** (`packages/basketball-core`, `detectors/scoring_run.py`). One
pass over a game. Correct when: it finds the maximal runs it says it detects.

**Worker job queue** (`apps/worker`, `apps/api/app/api/jobs.py`) and **NBA API source**
(`adapters/nba_api_source.py`).
State: job rows, an RQ queue; call time stamps for a rate budget.
Hard: the job runs before its row exists; retries against the rate budget.

**Stateless parts**: query resolution and planners, analyst tools and calculations,
conversation state (a pure function of a turn), retrieval and ranking, player
intelligence, the other detectors, MCP app, evaluation runner and scoring. Their
correctness is arithmetic, language or search quality on one input.

### Interactions

```
web client --HTTP turn--> session handler --BEGIN/COMMIT/ABORT--> Redis session, lease
                               |
                               +--> analyst loop --reserve/settle--> Redis budget
                                         |
                                         +--> provider call --admit/settle--> attempt ledger
release harness --seal, attest--> attempt ledger
rollout --deploy, rollback--> Render   --activate--> release rows <--load-- bundle loader
   +--switch_aliases--> Qdrant                          ^
web client --HTTP question--> rate limiter --> answer pipeline --> answer cache
```

The ledger exists only in evaluation runs. Session and budget share Redis but no key.

## 2. The modules

| Module | Models | Extends |
| --- | --- | --- |
| `LedgerState` | the budget as ledger records replay it | |
| `AttemptLedger` | the ledger file, its processes and the provider | `LedgerState` |
| `ConversationLog` | abstract: what the conversation store promises | |
| `AnalystSession` | the session scripts and their handler | refines `ConversationLog` |
| `BudgetLedger` | the budget scripts and their callers | |
| `AnalystLoop` | a turn of the analyst, and its shadow trial | |
| `WebConversation` | the chat of the browser, against coarser sessions | refines `ConversationLog` |
| `RateLimiter` | the windows of an instance and the Redis counters | |
| `DatasetReleases` | the release rows and the two writers' transactions | |
| `ReleaseDeploy` | the rollout and its restoration | `DatasetReleases` |
| `ArchiveAnswers` | requests and the answer cache around a rollout | `ReleaseDeploy` |
| `ScoringRuns` | the scoring-run detector and its definition | |
| `MC...` | instances for TLC | the module of that name |
| `Sums` | lemmas: sums over finite sets, induction | `Functions`, `TLAPS` |
| `...Proofs` | theorems | the module of that name, `TLAPS`, `Sums` |

### LedgerState and AttemptLedger

`replay` in `ledger_state.py` is a left fold over the records, and every operation
replays the file from its start. The model therefore represents the complete records
of a file by the state they replay to (`ledger`), and an append by one step of the
fold (`Replay`); a file that does not replay is `Unreadable` for ever. `torn` says
that an incomplete record follows. `stable` is the set of ledgers a loss of power
may leave: the synced one, and those written since, because an unsynced write may or
may not survive. fsync makes it a single ledger.

An operation is `Take` (lock, replay, decide, hold the lock), `Write` (the record is
in the file) and `Sync` (fsync returns, the lock is released, the caller has its
answer). `WriteFails`, `SyncFails`, `Crash` and `PowerLoss` come between. The record
an operation appends is a set (`AdmitEntry`, `SettleEntry`, ...): empty when the code
raises or returns without a write. `Bind`, `Admit`, `Deny`, `Send`, `Settle`,
`EndCall`, `Seal` and `Attest` are the callers, in `provider_guard.py`,
`report_llm.py` and `eval_approval.py`. `Send` lets the provider use any usage that
the prices and token ceilings allow, more than the limit of this request included.

Left out: digests, pids and time stamps, on which no decision depends.

### ConversationLog and AnalystSession

`ConversationLog` is the promise: a conversation is a sequence of turns with one reply
each; it grows at its end by a turn it does not have, or is forgotten whole; clients
are told only what is in it.

`AnalystSession` names a session by the turn that founded it (the token is an HMAC of
that turn id). The state a turn computes is abstracted to the sequence of attempts
that contributed to it (`State`), so that an update that was overwritten is visible
as a missing member; a stored response is its attempt. One action per outcome of a
script and per step of the handler:

| Code | Actions |
| --- | --- |
| request arrives | `Arrive` |
| `_BEGIN` with its answer | `BeginExecutes`, `BeginReplays`, `BeginConflicts` |
| `_BEGIN` without an answer | `BeginUnavailable`, then perhaps `RunBegin` |
| `_COMMIT` with its answer | `CommitSucceeds`; refused: `TurnFails` |
| `_COMMIT` without an answer | `CommitUnanswered`, then perhaps `RunCommit` |
| the handler's `finally` | `Abort`, `AbortLost` |
| Redis | `LeaseExpires`, `SessionLost` |

A script sent again by the driver and the death of the API process need no action of
their own. A second BEGIN or COMMIT of one attempt has the effect of the unanswered
one; a process that dies has sent what it sent (`BeginUnavailable`,
`CommitUnanswered`, `AbortLost`). `BeginConflicts` and `TurnFails` stand for several
answers that change nothing; a release change that resets the computed state is not
told apart, since its turn still contributes.

### BudgetLedger

The two Redis keys, `total` and `reservations`, and the two scripts. The driver may send
a script again when it hears no answer (redis-py retries a timed-out command), so
`Reserve` and `Settle` leave `MaxSends` copies, each of which runs at some time or never
(`RunReserve`, `RunSettle`). A caller that waits hears the answer of one copy (`Answered`)
or none (`ReserveUnanswered`); a later copy of an accepted reservation answers with a
refusal, and the caller then gives up although it was charged. `TotalLost` and
`ReservationsEvicted` lose either key. `charges`, `settlements`, `evicted` and `carried`
count, for the present total, what happened to the entries of each call; only the
properties use them. One month is enough: a reservation keeps its key, so months do not
meet.

### AnalystLoop

A turn is one coroutine, so `stage` is the await it stands at. `Prepare`, `RunFacts` and
`RunModel` lead into the loop, `NextAction`, `StartRound`, `RunTool` and `EndRound` are the
investigation, `Structure`, `Review`, `PlanRepair` and `Repair` the answer, `Recover` and
`RenderFacts` the fallback, `Settle`, `EndSettlement`, `Commit`, `Abort` and `StartTrial`
the end. `Settle` is one await of the loop in `settle`; `SettlementCut` is the trial's
timeout or a shutdown that strikes in it, and leaves the reservations behind it charged.
`Request` is `request_model`: a call that is not admitted, whose payload does not fit, that
returns, or that is cut. An exception is told apart by who catches it: `malformed` is a
`ValidationError` (asked again by `next_action`), `rejected` the other `ValueError`s and
`RuntimeError`s (caught by `validate`), `failed` all else (caught by `run`). Time is in
whole units; each await takes one of `Durations` or hits the timeout around it. Two of the
stages are called fallback because the one inside the investigation can still be cut by it.
`reservations` and `costs` are the two lists that `settle` matches by position. What a
model says, and whether a reviewer accepts it, is a choice.

### WebConversation

`chat` is the record of `use-analyst.ts` without its wording; `stored` says that
`sessionStorage` has it. The record is saved at every change, so one flag is enough.
`submit` is `Ask` (new words) or `Retry`; its promise is settled by `Deliver`, which is
`TakeAnswer` (`then`) or `TakeConflict` (`catch`). `boundary` is `Bounded`. `generation`
is renewed by the smallest number that no open request bears: the code compares it for
equality only. The server is `AnalystSession` at the grain the client can see: `Serve`
executes, replays or refuses a request in one step, or fails after or before its commit.
A request whose page has gone is still served.
The readiness query is kept apart from its fetch: `query` says whether it has no data, data,
or data and a later error, `fetching` what the running fetch will bring. `StartCheck` is the
fetch of a page that is mounted with a stale query (`staleTime` of ten seconds, `main.tsx:62`)
or of a browser that is online again. It may start at any time, also under a request; its
boundary then aborts that request. `RetryReadiness` is `retryReadiness`, a new attempt with a
query of its own. `Refetch` is the `invalidateQueries` of an outdated answer, which joins the
running fetch of a query without data and supersedes that of a query with data. The body of
`queryFn` takes no signal, so a superseded fetch still runs to its end and applies its version
(`superseded`, the second disjunct of `FinishCheck`): late, it takes the chat back to the
older archive behind a boundary. The queries of the attempts are one: a page that is mounted
again after a retry returns to its first attempt's query, which the model does not tell from
the present one. Superseded fetches of the same version count as one, a superseded fetch that
fails is one that never ends, and a page is shown when a reply is handled; with none shown,
the refetch is that of the next mount. A boundary after an expiry is the alternative in
`Current` and `Reload`, at any time once a session was committed. `Closed` is what
`boundary` makes of the messages: the question to be repeated moves behind the mark. Its
filters, and that of `Answered`, are `Kept` over sets of messages. `Served` asks in the order
of `_BEGIN`: session, recorded turn, revision. `LogView` shows the sessions as
`ConversationLog` has them, so the coarser server answers to the same promise as
`AnalystSession`.

### RateLimiter

`Handle` is `_rate_limit` up to its await, one step because an event loop runs it; a
request then waits for Redis (`waiting`), and `RedisAnswers` or `RedisFails` ends it. The
windows keep the code's arithmetic: a sliding window of times per identity and kind, a
sweep by count or by clock, identities that include the date, admission that refuses an
unknown identity when the table is full. `served` is a history of what was let through.

### DatasetReleases, ReleaseDeploy and ArchiveAnswers

`DatasetReleases` has the two transactions that activate a release, by statement. Under
READ COMMITTED an UPDATE finds its rows in a snapshot (`Scan`), waits for those that other
transactions hold, and then looks again at these rows only (`Supersede`).
`ReleaseDeploy` is `deploy_release.py`: `Request` and `Wait` for each service, `Activate`,
`SwitchAliases`, `Smoke`, and in the handler of a failure `RestoreAliases`, `RestoreData`,
`CancelPending` and `Rollback` for what was changed, newest first. Any request may fail
after its effect. `BuildEnds` is Render, at any time. A create or a rollback that failed
has reached Render by then or never does. In this module the loader takes turns with the
rollout; `MCReleaseWriters` lets them overlap.
`ArchiveAnswers` adds requests of one question: `Ask` reads the version, `Hit` is answered
from the cache, `Read` is one SQL statement, `Answer` stores. An answer is the set of
releases its statements read.

### ScoringRuns

The loop of `detect_scoring_runs`, one action per iteration: `Skip` or `Walk`. `Games` are
the event streams a parser can produce: points belong to a team, periods never go back.
The reference (`Maximal`) is the docstring's definition.

## 3. The runs

| Run | Instance | Distinct states |
| --- | --- | --- |
| `attempt_ledger` | 2 callers of the run, 1 of another, the harness; 2 attempts, bound 5, reservation 3 | 102,676 |
| `analyst_session` | 3 attempts, 2 turns, 7 requests, 1 loss per session | 392,080 |
| `budget_ledger` | 3 reservations of 1 or 2, cutoff 3, scripts sent twice | 4,202,542 |
| `analyst_loop` | 5 calls, 2 rounds, 3 tools, a deadline of 10 units | 483,731 |
| `web_conversation` | 2 turns, 2 archives, 1 activation, 2 faults, 2 new chats, reloads or checks of a ready archive | 984,231 |
| `rate_limiter` | 2 addresses, a table of 2, 5 ticks, days of 3, limits of 1, 1 restart | 1,607,788 |
| `release_deploy` | every plan of a rollout, 3 releases | 8,284 |

Five runs expect a violation (section 5): `web_retry` and `web_context` (one turn, one
activation, one fault, one new chat, reload or check of a ready archive), `release_writers`
(two writers, three releases), `archive_answers` (the rollout with two requests) and
`scoring_runs` (games of up to three events, two teams, two periods).

**attempt_ledger.** The budget is small enough that both limits bite: the dollar bound
denies the second attempt until the first is settled for at most 2, and the cap denies
the third. A caller of another run shows that the claim excludes it.
- `TypeOK` says, among the types, that who writes or has written a record holds the file lock.
- `AlwaysReplays`: no interleaving leaves complete records that do not replay.
- `WithinBudget`: every ledger the disk may hold keeps cap and bound.
- `AdmittedBeforeWire`: what the provider has seen is admitted, also after power loss.
- `OneCallPerAdmission`: no sequence number is given twice.
- `SpendCovered`: what the provider used never exceeds the upper cost in the account.
- `TornFailsClosed`, `SealIsTerminal`, `AttestationStaysTrue`: see the module.
- `LockReleased`: nobody waits for ever for the file lock.

`AttestationStaysTrue` speaks of attestations of a synced seal. `seal` returns early on
a seal it finds (`attempt_ledger.py:252`), so a seal whose own fsync failed can be
attested and lost with the power; the model has that behaviour, and the property
excludes it by `report.synced`.

**analyst_session.** Clients found a session with one of two questions under the same
turn id; retry the turn with the token and a revision that a conflict told them;
continue with a second turn at the right or a stale revision; and use the second turn
id to found a session. Three attempts are the smallest number at which a late commit,
a new owner and a replay meet.
- `RevisionCountsTurns`: revision, state and stored responses of a session agree.
- `AcknowledgedStays`: a reply given as committed answers its question and stays.
- `KeepsConversationLog`: the model implements `ConversationLog`.

**budget_ledger.** Amounts, costs and cutoff make every comparison go both ways, at
the cutoff and one above, with settlements below, at and above the reservation. Two
copies of each script and losses at any time are what it takes to charge a reservation
again behind an eviction, to settle it twice, and to let it outlive its total.
- `TotalIsTheAccount`: the total is exactly the sum over the calls of what was charged for
  each and what its settlements changed. It shows the two ways the ledger errs: a
  reservation sent again after its hash entry was evicted counts twice, and an entry that
  outlived its total lowers the next one when it is settled.
- `EveryChargeHasOneEnd`: what was charged, or carried over from an earlier total, is
  settled, outstanding or evicted, and only one of these; so nothing but an eviction, a
  restart or the settlement lets a copy charge again.
- `CutoffHolds`: only overruns reported by settlements take the total past the cutoff.

**analyst_loop.** The limits are scaled so that each is reached: three tool calls before
the turn has six, two rounds, five calls, which is the least that leaves room for the
second attempt `ReviewStaysAffordable` is about. A call costs 3 where 2 is reserved, so a
cost that is counted twice or not at all is seen. Awaits of one and of three units let a
timeout strike in every stage.
- `SettledAtCost`: the settlements add up to the cost of the calls, although slots and
  costs are matched by position and calls may be cancelled. Where the settlement itself is
  cut, what was settled is the cost of the first calls, each once; the reservations behind
  them stay charged in full, and no turn commits.
- `PublishedWasReviewed`: what the client sees was accepted, in that very wording.
- `ReviewStaysAffordable`: second attempts never use up the call of the first review.
- `AnsweredBeforeDeadline`: recovery and rendering fit behind a hanging investigation.
- `TurnEnds`: the turn and its trial end.

**web_conversation.** Two turns make a transcript of two answers, or a question and its
repetition under a new id. Two faults can lose both an answer and a session. A check of an
archive that is ready counts with the new chats and reloads; those of an archive that is not
are bounded by the faults. Two such steps and one activation put a readiness boundary under a
pending request, with its reply still to come, and let a fetch superseded under a pending
request bring back the archive the chat has left. What a third turn or a second activation
adds is left to the theorems, which have no bounds.
- `ActiveAnswersWereAskedHere`, `OneArchivePerConversation`: late replies, superseded
  checks and boundaries, under a pending request or not, never mix conversations or archives.
- `TranscriptIsTheSession`: what the chat shows as committed are the turns of the session
  it sends, at their revisions.
- `UnansweredIsRetryable`: no question at the end of the chat is without a retry.
- `KeepsConversationLog`: whatever the page repeats, a session grows by turns it does not
  have, or is lost whole. What is recorded counts as told: a client may know it.

**rate_limiter.** The smallest table that can be full with two addresses on one day and
yet needs a sweep on the next. With limits of one, one forgiven debt is a violation. One
instance is enough for the shared counters too: a restart gives it fresh windows over the
same Redis, which is what a second instance has.
- `DebtIsKept`: an instance lets no identity through more often than its limits allow,
  whatever was swept and whatever Redis did.
- `SharedLimitHolds`: what Redis counted is bounded by the limit across restarts.
- `RefusedBehindLiveClients`: a refusal for a full table is behind clients that were live
  a sweep ago.

**release_deploy.** The state space is complete for one rollout: only the releases are
bounded, to the old, the new and one that is loaded.
- `NewDataOnlyUnderNewCode`: the order of promotion and its reverse at restoration keep
  the new release and its index behind the commit tested with them.
- `RestoredMeansRestored`: "restored" is true, and no build is left that could undo it.
- `LiveMeansPromoted`: "live" is true of every part.
- `RolloutEnds`: no hanging build holds the rollout.
- `OneActiveRelease`: with one writer at a time.

**Deadlock** is checked for the ledger. The other instances end when their attempts,
calls, turns, ticks or rollouts are used up, so it is off there.

**Fairness.**
- `AttemptLedger`, for `LockReleased`: weak fairness of `Write` and `Sync` for each
  process. Code that holds the lock runs straight to the release; a process that stops
  for ever without dying is excluded. Dying, failing and raising are allowed and release
  the lock too (the kernel drops the `flock`).
- `AnalystLoop`, for `TurnEnds`: weak fairness of `Next`. Every await of a turn is under a
  timeout or is a database or Redis call with one, so the coroutine goes on.
- `ReleaseDeploy`, for `RolloutEnds`: weak fairness of `Coordinator`. Its requests have
  timeouts, its wait a deadline, and Postgres is assumed to answer. Builds, the loader
  and crashes get none.
- `WebConversation.FairSpec`, for the violation of `RetriesAreAnswered`: requests are
  served, promises settled, readiness checked until it is there, and the user retries
  (strong fairness, since a check that starts anew disables the retry for its time). The
  counterexample is a loop in which all of this happens, with no check but the one each
  outdated answer asks for.

Every property has a mutation of a mapped definition that breaks it; the operators
marked "Mutation:" in the modules are these. They are not part of `Spec`.

## 4. The proofs

All constants are arbitrary within the named assumptions, which TLC evaluates in the runs:
- `BindingAssumption`, `SentinelAssumption`, `ProcessAssumption` (`AttemptLedger`): what
  `LedgerBinding` and `SpendBound` accept; model values are distinct from data.
- `RequestAssumption` (`AnalystSession`): a request without a token founds the session of
  its turn id.
- `BudgetAssumption`, `LimitsAssumption`: amounts and limits are of the types the settings
  have; a limit, a table and a sweep interval are not zero.
- `ReleasesAssumption`: the old, the new and the loaded release differ.
- `ConversationAssumption`, `UndefinedAssumption` (`WebConversation`): the bounds are
  numbers, there is a release, and undefined is no number, no turn and no session.
- `LoopAssumption`: one or two tool rounds, which is what `config.py` (lines 126 and 127)
  admits. With three, `ReviewStaysAffordable` is false: eight calls at most and three rounds
  leave a second structuring no room for its review.

Every invariant below was an invariant of a run before it was proved.

**Sums.** Ledgers and limiters promise equations between a counter and a sum over calls,
slots or requests, and the models sum with `SumFunctionOnSet`, a fold. What a fold computes
is induction over data, and the induction theorems of the library take an operator, which
the provers cannot instantiate. `Sums` goes round it with sets: the subsets of a finite set
are well founded under strict inclusion, so a set of counterexamples has a smallest one
(`MinimalSubset`), and the step from the next smaller set refutes it. That gives induction
in the form of a set that contains `{}` and is closed under adding an element
(`SubsetInduction`, `CountingUp`), that the fold's recursive equation has a solution and one
only (`TableExists`, `TablesAgree`), and from it that a sum takes an element out, adds one,
changes one and compares with another (`SumTakeOut`, `SumAdd`, `SumExtend`, `SumChange`,
`SumAtMost`, `SumSame`, `SumOfUnion`, `SumOfPart`).

**AttemptLedgerProofs.** `Invariance` proves `Spec => []IInv`. The budget alone is not
inductive: a holder decided on a ledger it read a step earlier. The strengthening says
what the lock protects. `LockProtects`: a process that is writing holds the lock and its
record still replays after the present ledger. `Accounts`: every ledger in `stable`
replays within the budget. `CallsAdmitted` and `WireAdmitted`: admissions a call holds or
the wire has seen are in every ledger of `stable`, which is why the fsync before the
answer matters. `OneCallPerAdmission`, `SealLast`, `ReportKept` complete it.
The arithmetic is in `ChargeWithinReservation` and `StepKeepsBudget`: a settlement never
costs more than the reservation it replaces, so an accepted record keeps the bound.
From it: `TypeCorrect`, `LedgerAlwaysReplays`, `BudgetHolds`, `AdmissionPrecedesWire`,
`AdmissionsAreExclusive`, `AttestationHolds`, and the action properties
`TornTailFailsClosed` and `SealEndsTheLedger`. `SpendStaysCovered` adds the sum: a record
moves the account by at least what the provider can have used for it, and a reservation
covers whatever the prices and token ceilings allow. `ApprovalIsKept` puts both together: the
provider receives no more requests than approved, and they cost no more than the approved
dollars.

**AnalystSessionProofs.** `SessionInvariance` proves `Spec => []SInv`. The core is
`CommitsAreFresh`: an attempt whose commit may run and that passes both checks of
`_COMMIT`, owner and revision, started from the state the session holds now, and its
turn has no reply. Neither check is enough alone. The lease excludes a second commit at
the same revision, and the revision excludes a commit after an expired lease. A session
lost meanwhile has revision 0, so only an attempt that started from the empty state can
commit to it. `Started` ties the length of the starting state to the expected revision,
`Scripts` says which scripts may still run, and `Members` and `Acks` that what is stored
or told belongs to requests that arrived. From it: `SessionTypeCorrect`, `NoLostTurn`,
`AcknowledgedDurable`. `SessionsKeepTheLog` proves `Spec => KeepsConversationLog`:
`CommitSucceeds` and a successful `RunCommit` map to `Extend`, `BeginReplays` to `Tell`,
`SessionLost` to `Forget`, every other step to a stutter (`StepMaps`). It needs one more
invariant, that an attempt is answered once (`AnswersEnd`).

The abstract log has an invariant of its own: whatever keeps it has no turn with two replies
and tells clients only what is in it (`OneReplyPerTurn`). With the refinement this becomes a
statement about the sessions, `SessionsAnswerOnce`: two clients told a reply to the same turn
of a session that was not lost are told the same one.

**BudgetLedgerProofs.** `BudgetTypeCorrect`, `AccountHolds`, `ChargesEndOnce` and
`CutoffIsKept`, from `BInv`, for any number of copies and losses. Each script is shown to
move `total` by exactly what it changes in the account of one call (`EntryKeeps`). For that
amount and cost of a call must not change once they count (`Fresh`, `Unsettled`), an entry
of the hash must be what its call asked for (`Held`), and the calls charged under one total
must be finitely many. `CutoffHolds` is inductive only beside the account: the total is at
most the cutoff plus the overruns because `_RESERVE` compares the very total that the
account is.

**AnalystLoopProofs.** `LoopTypeCorrect`, `SettlementIsTheCost`, `ReviewedIsPublished`,
`ReviewIsAffordable`, `AnswerLeavesTheMargin`, from `LInv`, which has a part per resource.
`Covered` (every recorded call has a slot) is what lets `settle` match costs and slots by
position. `Room` counts the calls that are left, by stage: an action that was asked for
again has used the spare call, so it can only be the first of its round. `InTime` relates
the time that has passed to the cutoff that was set when the investigation began: what
follows it starts before the margin, or the investigation itself began inside it.
`SettledUpTo` is the account of a settlement under way: one more reservation adds the
bill of the next calls (`SettlementAdds`). `Unsettled` says that nothing is settled before
it begins. It was found by TLC to be false of
an earlier model, in which a turn could be cancelled after its commit had returned; there
the code has no await left that a cancellation could strike, and `Cancelled` now says so.

**ReleaseDeployProofs.** For any three releases and any order of builds, failures and
crashes: `RolloutTypeCorrect`, `AlwaysOneActiveRelease`, `CandidateUnderNewCode`, and the
action properties `RestoredIsTheSnapshot` and `LiveIsPromoted`, from `RInv`. `Stages` says
which components have been changed, in order, at each label of the coordinator.
`Untouched` is the restoration's half: while no undoing has failed, whatever is not in
`changed` is as the snapshot had it, and no build of it is left. `Promotion` is the other
half: while the candidate data or index may be served, both services run the tested commit
and nothing is being built. `Transactions` ties the rows a transaction scanned to the rows
that are active; it holds because one writer is open at a time, which is what
`release_writers` drops.

**RateLimiterProofs.** For any instances, addresses, limits, window lengths and sweeps, and
any number of requests and restarts: `LimiterTypeCorrect`, `DebtsAreKept`,
`SharedLimitIsKept`, `RefusalsAreJustified`, from `LimiterInv`. `DebtIsKept` is not
inductive, since a request waits for Redis after its window was charged and the window's
length says nothing of when its entries expire. `Debts` is stated per moment: for every
time t within the window, the requests since t that were let through or still wait are at
most the entries since t. A trim or a sweep drops only a prefix before t (`TrimKeeps`), a
request appends one entry for the one it adds (`AppendKeeps`), and an answer of Redis moves
a request from waiting to let through (`SettlesOwed`). The window is in order and no longer
than the limit, hence the bound. `Counters` says that a live counter is at least what was
let through under it; it needs that no counter expires within the moment at which it last
counted. `Swept` says that all clients of a table were live when it was last swept, so that
a refusal without a sweep is behind clients live less than a sweep interval ago.

**WebConversationProofs.** For any numbers of turns, releases, activations, faults, new chats
and reloads: `ConversationTypeCorrect`, `LateAnswersAreDropped`, `ConversationHasOneArchive`,
`ScreenShowsTheSession`, `QuestionsStayRetryable`, `OneSubmissionAtATime` and
`OneAnswerOnScreen`, from `WInv`. None of the run's invariants is inductive alone.
`OneReplyDue` is the part they share: among all requests on the wire and all replies whose
handlers wait, at most one bears the chat's generation, the page is pending for it, and its
turn is the one it would repeat. It needs `NextGenerationFree`: the number a boundary takes
is borne by nothing under way. `ScreenShowsTheSession` then needs to know that a committed
answer that is about to be taken lies past all that is shown. That is `NothingShownAhead`:
where the session has the turn to repeat, it has it after every revision on the screen, and
a conflict about to be told names none before them. `TurnsOnce` and `RepliesCommitted` are
the server's half; `IdsDrawn` makes an id drawn after `turn_id_reused` a new one.
`ArchiveKnown` carries `ConversationHasOneArchive` past the first readiness check, and
`RetryInSession` says that a turn to repeat never outlives the session it was made for.
`MessagesInv` is about lists of messages rather than the chat, since one step may both write
an answer and close the conversation.
The filters are recursive functions, whose tables exist and are unique by `CountingUp`
(`KeptTable`); from the table `KeptPlaced` says where the kept messages were: a strictly
increasing map of places, with all members of the set in its range. `ClosedMessages` and
`AnsweredMessages` follow from it, and no other lemma looks into a filter.
A check that ends under a pending request is `FinishCheckStep` like any other: its boundary
takes a generation that nothing under way bears, and the aborted request is then awaited by
nobody (`AbortedSilent`). All boundaries
(readiness, outdated answers, expiry, reload, stateless answers) go through `BoundaryStep`,
all steps that settle a request and keep the conversation through `UnsaidStep`.
`SessionsKeepTheLog` proves `Spec => KeepsConversationLog`: `Serve` is an `Extend` where it
records a turn (`Recording`), `SessionLost` a `Forget`, everything else a stutter.

## 5. Findings

`web_retry`: a client whose first turn was committed before an archive change, and whose
reply was lost, can never be answered. `boundary` keeps the turn id without a token
(`use-analyst.ts:325`); the token is derived from the turn id, so `_BEGIN`
(`analyst_sessions.py:19`) replays the old archive's reply; the client drops it as
outdated and keeps the turn to retry. Each replay renews the session's expiry. The message
the client shows is "The archive changed. Edit or retry your question." A fresh turn id in
`boundary` would end the loop.

`web_context`: the handler of an answer drops an earlier answer of the same turn from all
messages (`use-analyst.ts:346`) and keeps `activeStart`, which is an index into them. When
that earlier answer could not be committed, the archive changes before the retry, and the
boundary carries the question on, the answer dropped stands before the boundary. Everything
behind it moves down by one, and the question is no longer in `messages.slice(activeStart)`,
of which `submit` makes the context (line 274). `docs/analyst-evidence-loop.md` (line 195)
says that each request sends the ten previous individual messages. The other properties of
the chat are not touched: `activeStart` still lies within the messages, and the answers
behind it are of one conversation, both of which are proved.

`release_writers`: `activate` (`deploy_release.py:77`) and `load_release_bundle`
(`release_bundle.py:438`) at the same time both end active. The second UPDATE waits for
the row both superseded and then looks at that row only; it never sees the row the first
has made active. `releases.py:30` states the invariant of exactly one active release; the
scalar subquery there makes every read fail until an operator repairs the rows. There is
no unique index on the active row, and neither program locks the others.

`archive_answers`: `query_analysis` reads the version once (`analysis.py:97`) and keys the
cached answer with it, while later statements read whatever release is active then. After
a rollout that activates and is restored, requests are answered from the cache with facts
of the release that was withdrawn. `docs/api.md:6` says that public responses are scoped
to the validated active release. The route is the one taken while
`ANALYST_EVIDENCE_LOOP_ENABLED` is false; the evidence route is pinned
to the release it read and has no answer cache.

`scoring_runs`: the scan goes on behind the event that ended a run
(`scoring_run.py:131`), though that event is a score and may begin the opponent's run. With
a basket of New York followed by two threes of Boston, no run of Boston is found, and a
longer one is reported without its first basket.

## 6. Limits

Only model-checked:
- `LockReleased`, `TurnEnds` and `RolloutEnds`: liveness under fairness and `ENABLED` are out
  of the prover's reach. Nothing else is: every safety property of a passing run is a
  theorem.
- The five runs of section 5 are counterexamples and have nothing to prove.

Assumed by the models:
- The clocks of instance and Redis run at the same pace (`RateLimiter`).
- The rollout's record is saved when it says so. The list of changed components is not part
  of the record, so after a death of the coordinator an operator restores by hand; the
  model ends the rollout as `crashed` and claims nothing about it.
- A browser's storage works (`WebConversation`).

Not modelled:
- `docs/analyst-evidence-loop.md` (line 232) says that an absent `ai-budget:YYYY-MM` key
  blocks all model paths, while `_RESERVE` (`analyst_budget.py:18`) counts it as zero, as
  `docs/production-runbook.md` (line 125) says. `BudgetLedger` follows the code.
- The job queue and the NBA source. The job is enqueued before its row is created
  (`jobs.py:104`), while the docstring of `job_queue.py` says the row comes first; a worker
  that is quick finds no row, `mark_started` and `mark_finished` return silently, and the
  row stays `queued`. It is one interleaving of two calls, described here and not checked.
- Building and validating the search index and release bundles, and the one-time migration
  of collections that bear an alias name.
- After `turn_id_reused` the client draws a new turn id but keeps the message of the old
  one (`use-analyst.ts:423`), so a boundary before the retry moves the question into the
  history. The model has this step; no property forbids it.
- The answer cache's key leaves out the prior state derived from the context when
  structured conversation state is on (`analysis.py:346`); the flag is off by default.
- The wording, parsing and scoring inside a turn; responses are opaque.
- Rounding of `INCRBYFLOAT` and the precision of dollars in Redis.
- Time: a lease may expire at any moment, a script run at any later moment. This is more
  than the clock allows, and safety does not depend on the timing.
- Extensions of a session's expiry by replays: a session may be lost at any time.
- The stateless parts listed in section 1, pure I/O, presentation and configuration.

## 7. Plan

All planned modules are in place, and every safety property of a passing run is a theorem.
What could follow:

1. The refinement of `WebConversation`'s server by `AnalystSession` itself, with one attempt
   per request, in place of the promise both of them are shown to keep.
2. The job queue, as a module of enqueueing, row and worker.
3. With `activeStart` moved by the handler of an answer, `ContextIsComplete` as an invariant:
   `BoundaryStep` and `AnsweredMessages` already say where the messages behind it were.
