------------------------------ MODULE LedgerState ------------------------------
(******************************************************************************)
(* The evaluation budget as its records replay it                             *)
(* (apps/api/app/evaluation/ledger_state.py and spend_bound.py).              *)
(*                                                                            *)
(* Every reader of the ledger file replays all of its records, and replay is a *)
(* left fold, so a file is represented by the state its records replay to and *)
(* appending a record is one step of the fold.  A file whose records do not   *)
(* replay is Unreadable, and stays so whatever is appended.                   *)
(*                                                                            *)
(* Digests, pids, time stamps and stage names are left out: no decision       *)
(* depends on them.  The identity of the run stands for the whole binding.    *)
(******************************************************************************)
EXTENDS Integers, Sequences, FiniteSets

CONSTANTS
  Runs,                 \* run configurations that may name the same ledger path
  NoRun,                \* the ledger is not claimed
  Unreadable,           \* the records do not replay
  NoUsage,              \* a usage report the profile does not accept
  MaxAttempts,          \* LedgerBinding.max_attempts
  MaxTotal,             \* SpendBound.max_total_nano_usd
  ContextTokens,        \* SpendBound.model_context_tokens
  CompletionTokens,     \* SpendBound.max_completion_tokens
  PromptPrice,          \* SpendBound.prompt_nano_usd_per_token
  CompletionPrice       \* SpendBound.completion_nano_usd_per_token

\* Mutation: a reservation that leaves the output out.
ReservationOfContext == ContextTokens * PromptPrice

\* The reservation of one attempt: the whole context and the output ceiling.
Reservation == ContextTokens * PromptPrice + CompletionTokens * CompletionPrice

\* LedgerBinding.__post_init__ and SpendBound.__post_init__ accept no other.
ASSUME BindingAssumption ==
  /\ MaxAttempts \in Nat \ {0}
  /\ ContextTokens \in Nat \ {0}
  /\ CompletionTokens \in Nat \ {0}
  /\ PromptPrice \in Nat
  /\ CompletionPrice \in Nat
  /\ MaxTotal \in Nat
  /\ Reservation <= MaxTotal
  /\ NoRun \notin Runs

--------------------------------------------------------------------------------
Limits == 1..CompletionTokens

\* The usage SpendBound.usage accepts for an attempt with this output limit.
Usages(limit) == [prompt : 1..ContextTokens, completion : 0..limit]

Charge(usage) ==
  usage.prompt * PromptPrice + usage.completion * CompletionPrice

LedgerStates ==
  [claim : Runs \union {NoRun}, limits : Seq(Limits), settled : SUBSET Nat,
   settledUpper : Nat, refused : BOOLEAN, sealed : BOOLEAN]

EmptyLedger ==
  [claim |-> NoRun, limits |-> << >>, settled |-> {},
   settledUpper |-> 0, refused |-> FALSE, sealed |-> FALSE]

\* The two model values are not ledgers or reports.
ASSUME SentinelAssumption ==
  /\ Unreadable \notin LedgerStates
  /\ NoUsage \notin Usages(CompletionTokens)

Outstanding(s) == (Len(s.limits) - Cardinality(s.settled)) * Reservation

UpperCost(s) == s.settledUpper + Outstanding(s)

\* Mutation: the reservation of the request itself is not counted.
DeniedWithoutReservation(s) ==
  \/ Len(s.limits) >= MaxAttempts
  \/ UpperCost(s) > MaxTotal

AdmissionDenied(s) ==
  \/ Len(s.limits) >= MaxAttempts
  \/ UpperCost(s) + Reservation > MaxTotal

--------------------------------------------------------------------------------
\* One record of each kind; `run` is the binding of the process that wrote it.
ClaimRecord(run) == [kind |-> "claim", run |-> run]
AdmittedRecord(run, seq, limit) ==
  [kind |-> "admitted", run |-> run, seq |-> seq, limit |-> limit,
   reserved |-> Reservation]
SettledRecord(run, seq, usage) ==
  [kind |-> "settled", run |-> run, seq |-> seq, usage |-> usage]
RefusedRecord(run) == [kind |-> "refused", run |-> run]
SealedRecord(run) == [kind |-> "sealed", run |-> run]

\* What replay demands of the next record of a ledger in state s.
Replays(s, r) ==
  /\ s # Unreadable
  /\ ~ s.sealed
  /\ \/ r.kind = "claim" /\ s = EmptyLedger
     \/ r.kind # "claim" /\ s.claim = r.run
  /\ r.kind = "admitted" =>
       /\ r.seq = Len(s.limits) + 1
       /\ r.reserved = Reservation
       /\ r.limit \in Limits
       /\ ~ AdmissionDenied(s)
  /\ r.kind = "settled" =>
       /\ r.seq \in DOMAIN s.limits \ s.settled
       /\ r.usage \in Usages(s.limits[r.seq])

\* The body of replay's loop, for a record it accepts.
Step(s, r) ==
  CASE r.kind = "claim" -> [s EXCEPT !.claim = r.run]
    [] r.kind = "admitted" -> [s EXCEPT !.limits = Append(@, r.limit)]
    [] r.kind = "settled" -> [s EXCEPT !.settled = @ \union {r.seq},
                                       !.settledUpper = @ + Charge(r.usage)]
    [] r.kind = "refused" -> [s EXCEPT !.refused = TRUE]
    [] r.kind = "sealed" -> [s EXCEPT !.sealed = TRUE]

Replay(s, r) == IF Replays(s, r) THEN Step(s, r) ELSE Unreadable
================================================================================
