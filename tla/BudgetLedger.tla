----------------------------- MODULE BudgetLedger -----------------------------
(******************************************************************************)
(* The monthly AI budget in Redis: reservations against a cutoff and their    *)
(* settlement (apps/api/app/services/analyst_budget.py), as its callers use   *)
(* it: the analyst loop reserves, calls the model and settles; the legacy     *)
(* paths reserve and never settle (runtime_store.reserve_ai_budget).          *)
(*                                                                            *)
(* The ledger is two keys: the total, and the hash of outstanding             *)
(* reservations.  The driver may send a script again when no answer comes;    *)
(* Redis runs each copy atomically, or never, perhaps after the caller gave   *)
(* up or heard another copy.  It may evict one key, or restart without either. *)
(* The key names the month and a reservation keeps the key it was made under, *)
(* so months do not meet and the model has one.  Amounts are whole units of   *)
(* money; the rounding of INCRBYFLOAT is left out.                            *)
(******************************************************************************)
EXTENDS Integers, FiniteSets, Functions

CONSTANTS
  Calls,                \* reservations, each with an identity of its own
  Amounts,              \* what callers reserve
  Costs,                \* what settlements report
  Cutoff,               \* openrouter_monthly_cutoff_usd
  MaxSends,             \* how often the driver sends a script at most
  Absent                \* the key of the total does not exist

\* reserve raises for an amount that is not positive, settle ignores a negative
\* cost.
ASSUME BudgetAssumption ==
  /\ Amounts \subseteq Nat \ {0}
  /\ Costs \subseteq Nat
  /\ Cutoff \in Nat
  /\ MaxSends \in Nat \ {0}
  /\ Absent \notin Int

VARIABLES
  total,                \* the amount charged so far, or Absent
  reservations,         \* the hash: amounts of the outstanding reservations
  caller,               \* where each call is
  amount,               \* what it asked to reserve
  cost,                 \* what it asked to settle
  reserves, settles,    \* copies of its two scripts that may still run
  charges,              \* history: its reservations the total has accepted
  settlements,          \* history: its settlements that changed the total
  evicted,              \* history: its entries evicted under the total
  carried               \* history: calls whose entry outlived an earlier total

account == <<charges, settlements, evicted, carried>>
vars == <<total, reservations, caller, amount, cost, reserves, settles, account>>

NoReservations == [c \in {} |-> 0]
Zero == [c \in Calls |-> 0]

Init ==
  /\ total = Absent
  /\ reservations = NoReservations
  /\ caller = [c \in Calls |-> "new"]
  /\ amount = Zero /\ cost = Zero
  /\ reserves = Zero /\ settles = Zero
  /\ charges = Zero /\ settlements = Zero /\ evicted = Zero /\ carried = {}

--------------------------------------------------------------------------------
\* A missing total counts as zero.
Total == IF total = Absent THEN 0 ELSE total

Outstanding == DOMAIN reservations

\* Mutation: the cutoff is compared with what is already charged.
AdmitsUpToCutoff(c) == c \notin Outstanding /\ Total <= Cutoff

\* The conditions of _RESERVE.
Admits(c) == c \notin Outstanding /\ Total + amount[c] <= Cutoff

\* The writes of _RESERVE.
Charge(c) ==
  /\ total' = Total + amount[c]
  /\ reservations' = [d \in Outstanding \union {c} |->
                        IF d = c THEN amount[c] ELSE reservations[d]]
  /\ charges' = [charges EXCEPT ![c] = @ + 1]
  /\ UNCHANGED <<settlements, evicted, carried>>

\* The conditions of _SETTLE.
Settles(c) == c \in Outstanding /\ total # Absent

\* What a settlement does to the total, and to the account of the calls.
Settled(c, change) ==
  /\ total' = total + change
  /\ settlements' = [settlements EXCEPT ![c] = @ + 1]
  /\ UNCHANGED <<charges, evicted, carried>>
Without(S) == [d \in Outstanding \ S |-> reservations[d]]

\* Mutations: the entry stays in the hash, or is set to zero; or the cost is added
\* to what was reserved.
ApplyKeepingEntry(c) ==
  Settled(c, cost[c] - reservations[c]) /\ UNCHANGED reservations
ApplyZeroingEntry(c) ==
  /\ Settled(c, cost[c] - reservations[c])
  /\ reservations' = [reservations EXCEPT ![c] = 0]
ApplyWithoutCredit(c) ==
  Settled(c, cost[c]) /\ reservations' = Without({c})

\* The writes of _SETTLE.
Apply(c) ==
  Settled(c, cost[c] - reservations[c]) /\ reservations' = Without({c})

--------------------------------------------------------------------------------
\* The caller sends the reservation and waits; copies that are not sent are among
\* those that never run.
Reserve(c, amt) ==
  /\ caller[c] = "new"
  /\ caller' = [caller EXCEPT ![c] = "reserving"]
  /\ amount' = [amount EXCEPT ![c] = amt]
  /\ reserves' = [reserves EXCEPT ![c] = MaxSends]
  /\ UNCHANGED <<total, reservations, cost, settles, account>>

\* The caller hears this copy's answer, or it is lost or comes too late.
Answered(c, next) ==
  \/ UNCHANGED caller
  \/ caller[c] = "reserving" /\ caller' = [caller EXCEPT ![c] = next]

\* Accepted: the caller that hears it goes on to call the model.  Refused: it
\* does not; so it is told as well when an earlier copy was accepted.
RunReserve(c) ==
  /\ reserves[c] > 0
  /\ reserves' = [reserves EXCEPT ![c] = @ - 1]
  /\ \/ Admits(c) /\ Charge(c) /\ Answered(c, "calling")
     \/ /\ ~ Admits(c)
        /\ Answered(c, "done")
        /\ UNCHANGED <<total, reservations, account>>
  /\ UNCHANGED <<amount, cost, settles>>

\* No answer in time: no model is called, but copies may yet run.
ReserveUnanswered(c) ==
  /\ caller[c] = "reserving"
  /\ caller' = [caller EXCEPT ![c] = "done"]
  /\ UNCHANGED <<total, reservations, amount, cost, reserves, settles, account>>

\* The model has been called; what it reported, with the reserved price for the
\* calls it reported nothing of, is sent to the ledger.
Settle(c, reported) ==
  /\ caller[c] = "calling"
  /\ caller' = [caller EXCEPT ![c] = "done"]
  /\ cost' = [cost EXCEPT ![c] = reported]
  /\ settles' = [settles EXCEPT ![c] = MaxSends]
  /\ UNCHANGED <<total, reservations, amount, reserves, account>>

\* A legacy caller, a cost that is unknown or negative, a settlement that was
\* cancelled, or a process that died.
NotSettled(c) ==
  /\ caller[c] = "calling"
  /\ caller' = [caller EXCEPT ![c] = "done"]
  /\ UNCHANGED <<total, reservations, amount, cost, reserves, settles, account>>

RunSettle(c) ==
  /\ settles[c] > 0
  /\ settles' = [settles EXCEPT ![c] = @ - 1]
  /\ \/ Settles(c) /\ Apply(c)
     \/ ~ Settles(c) /\ UNCHANGED <<total, reservations, account>>
  /\ UNCHANGED <<caller, amount, cost, reserves>>

--------------------------------------------------------------------------------
\* The total is evicted alone, or goes with a restart: another account begins.
TotalLost ==
  /\ total # Absent
  /\ total' = Absent
  /\ reservations' \in {reservations, NoReservations}
  /\ charges' = Zero /\ settlements' = Zero /\ evicted' = Zero
  /\ carried' = DOMAIN reservations'
  /\ UNCHANGED <<caller, amount, cost, reserves, settles>>

ReservationsEvicted ==
  /\ Outstanding # {}
  /\ reservations' = NoReservations
  /\ evicted' = [c \in Calls |->
                   IF c \in Outstanding THEN evicted[c] + 1 ELSE evicted[c]]
  /\ UNCHANGED <<total, caller, amount, cost, reserves, settles, charges,
                 settlements, carried>>

Next ==
  \/ \E c \in Calls, amt \in Amounts : Reserve(c, amt)
  \/ \E c \in Calls, reported \in Costs : Settle(c, reported)
  \/ \E c \in Calls : RunReserve(c) \/ ReserveUnanswered(c)
                         \/ NotSettled(c) \/ RunSettle(c)
  \/ TotalLost
  \/ ReservationsEvicted

Spec == Init /\ [][Next]_vars

--------------------------------------------------------------------------------
TypeOK ==
  /\ total \in Int \union {Absent}
  /\ Outstanding \subseteq Calls
  /\ \A c \in Outstanding : reservations[c] \in Nat \ {0}
  /\ caller \in [Calls -> {"new", "reserving", "calling", "done"}]
  /\ amount \in [Calls -> Nat] /\ cost \in [Calls -> Nat]
  /\ reserves \in [Calls -> 0..MaxSends] /\ settles \in [Calls -> 0..MaxSends]
  /\ charges \in [Calls -> Nat] /\ settlements \in [Calls -> Nat]
  /\ evicted \in [Calls -> Nat] /\ carried \subseteq Calls

\* What a call comes to under the present total: what it reserved, each time it was
\* charged, and what each settlement made of that.
Billed == { c \in Calls : charges[c] + settlements[c] > 0 }
Bill(c) == charges[c] * amount[c] + settlements[c] * (cost[c] - amount[c])

\* The total is the account of the calls, through lost answers, scripts that run
\* late or several times, evictions and restarts.
TotalIsTheAccount == Total = SumFunction([c \in Billed |-> Bill(c)])

\* A reservation is charged once, and settled once, for each entry it has in the
\* hash: what was charged under the present total, or carried over from an earlier
\* one, is settled, outstanding, or evicted, and only one of these.  So a copy that
\* runs again charges again only behind an eviction, a restart or the settlement.
EveryChargeHasOneEnd ==
  \A c \in Calls :
    charges[c] + (IF c \in carried THEN 1 ELSE 0)
      = settlements[c] + evicted[c] + (IF c \in Outstanding THEN 1 ELSE 0)

\* The cutoff: the total passes it only by what settlements reported in excess of
\* their reservations.
Overrun(c) == IF cost[c] > amount[c] THEN cost[c] - amount[c] ELSE 0

CutoffHolds ==
  Total <= Cutoff + SumFunction([c \in Billed |-> settlements[c] * Overrun(c)])
================================================================================
