----------------------------- MODULE AttemptLedger -----------------------------
(******************************************************************************)
(* The durable ledger of an evaluation run and the processes that share it    *)
(* (apps/api/app/evaluation/attempt_ledger.py, provider_guard.py and the      *)
(* provider call of apps/api/app/services/report_llm.py).                     *)
(*                                                                            *)
(* Callers are the threads of candidate services: each binds the run, then    *)
(* admits a request, sends it and settles it.  The harness seals the ledger   *)
(* and attests it.  An operation takes the file lock, replays the file,       *)
(* decides, appends at most one record and fsyncs before it answers; a        *)
(* process may die, a write may fail half way, and the machine may lose power *)
(* between any two of these steps.                                            *)
(******************************************************************************)
EXTENDS LedgerState, Functions

CONSTANTS
  Callers,              \* threads that call the provider
  Harness,              \* the process that seals and attests
  Nobody,               \* the lock is free
  NoEntry,              \* no record waits to be written
  NoReport,             \* the run has not been attested
  RunOf                 \* the run configuration each process was issued

Procs == Callers \union {Harness}

ASSUME ProcessAssumption ==
  /\ Harness \notin Callers
  /\ Nobody \notin Procs
  /\ RunOf \in [Procs -> Runs]

VARIABLES
  ledger,               \* what the complete records of the file replay to
  torn,                 \* the file ends with an incomplete record
  stable,               \* the ledgers a loss of power could leave
  lock,                 \* who holds the lock on the file
  pc,                   \* where each process is
  entry,                \* the record a process that holds the lock appends
  call,                 \* the sequence number a caller was admitted with, or 0
  wire,                 \* usage of every request that reached the provider
  report                \* the successful attestation, once there is one

vars == <<ledger, torn, stable, lock, pc, entry, call, wire, report>>

Init ==
  /\ ledger = EmptyLedger
  /\ torn = FALSE
  /\ stable = {EmptyLedger}
  /\ lock = Nobody
  /\ pc = [p \in Procs |-> "down"]
  /\ entry = [p \in Procs |-> NoEntry]
  /\ call = [c \in Callers |-> 0]
  /\ wire = << >>
  /\ report = NoReport

--------------------------------------------------------------------------------
\* What an operation appends, from the ledger it replayed: a set with the one
\* record, or the empty set when it only returns or raises.

ClaimEntry(s, run) == { r \in {ClaimRecord(run)} : ~ s.sealed /\ s.claim = NoRun }

AdmitEntry(s, run, limit) ==
  { r \in {AdmittedRecord(run, Len(s.limits) + 1, limit)} :
      ~ s.sealed /\ s.claim # NoRun /\ ~ AdmissionDenied(s) }
  \union
  { r \in {RefusedRecord(run)} :
      ~ s.sealed /\ s.claim # NoRun /\ AdmissionDenied(s) }

SettleEntry(s, run, seq, usage) ==
  { r \in {SettledRecord(run, seq, usage)} :
      /\ seq \in DOMAIN s.limits
      /\ seq \notin s.settled
      /\ ~ s.sealed
      /\ usage \in Usages(s.limits[seq]) }

RefuseEntry(s, run) == { r \in {RefusedRecord(run)} : ~ s.sealed }

SealEntry(s, run) == { r \in {SealedRecord(run)} : ~ s.sealed /\ s.claim # NoRun }

\* Mutation: an incomplete last record is skipped instead of refused.
ReadableDespiteTorn(p) ==
  /\ ledger # Unreadable
  /\ ledger.claim \in {NoRun, RunOf[p]}

\* The snapshot under the lock: replay raises on an incomplete last record and
\* on records of another run.
Readable(p) ==
  /\ ~ torn
  /\ ledger # Unreadable
  /\ ledger.claim \in {NoRun, RunOf[p]}

--------------------------------------------------------------------------------
\* Mutation: the file is replayed and decided on without taking its lock.
TakeWithoutLock(p, entries) ==
  /\ Readable(p)
  /\ \E r \in entries :
       /\ Replays(ledger, r)
       /\ entry' = [entry EXCEPT ![p] = r]
  /\ lock' = p
  /\ pc' = [pc EXCEPT ![p] = "writing"]
  /\ UNCHANGED <<ledger, torn, stable, call, wire, report>>

\* A process takes the lock, replays the file and holds the lock to append the
\* record; _commit has replayed that record after the others.
Take(p, entries) ==
  /\ lock = Nobody
  /\ Readable(p)
  /\ \E r \in entries :
       /\ Replays(ledger, r)
       /\ entry' = [entry EXCEPT ![p] = r]
  /\ lock' = p
  /\ pc' = [pc EXCEPT ![p] = "writing"]
  /\ UNCHANGED <<ledger, torn, stable, call, wire, report>>

\* The record is written in full but is not yet known to be on the disk.
Write(p) ==
  /\ pc[p] = "writing"
  /\ ledger' = Replay(ledger, entry[p])
  /\ stable' = stable \union {ledger'}
  /\ pc' = [pc EXCEPT ![p] = "written"]
  /\ UNCHANGED <<torn, lock, entry, call, wire, report>>

\* Mutation: the error path leaves the lock behind.
RaiseHoldingLock(p) ==
  /\ UNCHANGED lock
  /\ pc' = [pc EXCEPT ![p] = IF entry[p].kind = "claim" THEN "down" ELSE "ready"]
  /\ entry' = [entry EXCEPT ![p] = NoEntry]
  /\ call' = IF entry[p].kind = "settled" THEN [call EXCEPT ![p] = 0] ELSE call

\* An operation that raises OSError ends with its caller: a failed claim stops
\* the start of the service, a failed settlement ends the call.
Raise(p) ==
  /\ lock' = Nobody
  /\ pc' = [pc EXCEPT ![p] = IF entry[p].kind = "claim" THEN "down" ELSE "ready"]
  /\ entry' = [entry EXCEPT ![p] = NoEntry]
  /\ call' = IF entry[p].kind = "settled" THEN [call EXCEPT ![p] = 0] ELSE call

\* os.write fails or makes no progress: nothing, or part of the record, stays.
WriteFails(p) ==
  /\ pc[p] = "writing"
  /\ torn' \in {torn, TRUE}
  /\ Raise(p)
  /\ UNCHANGED <<ledger, stable, wire, report>>

\* Mutation: the operation answers without fsync.
AnswerWithoutSync(p) ==
  /\ pc[p] = "written"
  /\ lock' = Nobody
  /\ pc' = [pc EXCEPT ![p] = "ready"]
  /\ entry' = [entry EXCEPT ![p] = NoEntry]
  /\ call' = IF entry[p].kind = "admitted"
             THEN [call EXCEPT ![p] = entry[p].seq]
             ELSE call
  /\ UNCHANGED <<ledger, torn, stable, wire, report>>

\* fsync returns, the lock is released and the operation answers: an admission
\* returns its sequence number.
Sync(p) ==
  /\ pc[p] = "written"
  /\ stable' = {ledger}
  /\ lock' = Nobody
  /\ pc' = [pc EXCEPT ![p] = "ready"]
  /\ entry' = [entry EXCEPT ![p] = NoEntry]
  /\ call' = CASE entry[p].kind = "admitted" -> [call EXCEPT ![p] = entry[p].seq]
               [] entry[p].kind = "settled"  -> [call EXCEPT ![p] = 0]
               [] OTHER                      -> call
  /\ UNCHANGED <<ledger, torn, wire, report>>

\* fsync raises: the operation fails although its record is in the file.
SyncFails(p) ==
  /\ pc[p] = "written"
  /\ Raise(p)
  /\ UNCHANGED <<ledger, torn, stable, wire, report>>

--------------------------------------------------------------------------------
\* bind_run_guard at startup: the first process leaves the claim, a later one
\* finds it; a process that cannot bind does not serve.
Bind(c) ==
  /\ pc[c] = "down"
  /\ \/ Take(c, ClaimEntry(ledger, RunOf[c]))
     \/ /\ lock = Nobody
        /\ Readable(c)
        /\ ~ ledger.sealed
        /\ ledger.claim # NoRun
        /\ pc' = [pc EXCEPT ![c] = "ready"]
        /\ UNCHANGED <<ledger, torn, stable, lock, entry, call, wire, report>>

\* RunGuard.admit for a request the profile accepts: admitted, or refused for
\* want of attempts or dollars.
Admit(c, limit) ==
  /\ pc[c] = "ready"
  /\ call[c] = 0
  /\ Take(c, AdmitEntry(ledger, RunOf[c], limit))

\* RunGuard.admit for a request to another model or origin, or outside the
\* spend profile: recorded as refused.
Deny(c) ==
  /\ pc[c] = "ready"
  /\ call[c] = 0
  /\ Take(c, RefuseEntry(ledger, RunOf[c]))

\* The request leaves the process; the provider uses what the profile's prices
\* and token ceilings allow, though not always within the request's own limit.
Send(c) ==
  /\ pc[c] = "ready"
  /\ call[c] # 0
  /\ call[c] \notin DOMAIN wire
  /\ \E usage \in Usages(CompletionTokens) :
       wire' = [q \in DOMAIN wire \union {call[c]} |->
                  IF q = call[c] THEN usage ELSE wire[q]]
  /\ UNCHANGED <<ledger, torn, stable, lock, pc, entry, call, report>>

\* A parsed reply is settled with the usage it reports, if that is acceptable.
Settle(c) ==
  /\ pc[c] = "ready"
  /\ call[c] \in DOMAIN wire
  /\ Take(c, SettleEntry(ledger, RunOf[c], call[c], wire[call[c]]))

\* The call is over without a settlement: the request failed, timed out or was
\* not answered with an object, or its usage is not one the profile accepts.
EndCall(c) ==
  /\ pc[c] = "ready"
  /\ call[c] # 0
  /\ call' = [call EXCEPT ![c] = 0]
  /\ UNCHANGED <<ledger, torn, stable, lock, pc, entry, wire, report>>

\* seal_and_attest: seal unless it is sealed, then attest the file as it reads.
Seal ==
  /\ pc[Harness] \in {"down", "ready"}
  /\ Take(Harness, SealEntry(ledger, RunOf[Harness]))

\* Mutation: the attestation does not ask for the seal.
AttestUnsealed ==
  /\ pc[Harness] \in {"down", "ready"}
  /\ lock = Nobody
  /\ report = NoReport
  /\ Readable(Harness)
  /\ ledger.claim # NoRun
  /\ ledger.limits # << >>
  /\ ~ ledger.refused
  /\ report' = [admitted |-> Len(ledger.limits), upper |-> UpperCost(ledger),
                synced |-> stable = {ledger}]
  /\ UNCHANGED <<ledger, torn, stable, lock, pc, entry, call, wire>>

Attest ==
  /\ pc[Harness] \in {"down", "ready"}
  /\ lock = Nobody
  /\ report = NoReport
  /\ Readable(Harness)
  /\ ledger.claim # NoRun
  /\ ledger.limits # << >>
  /\ ~ ledger.refused
  /\ ledger.sealed
  /\ report' = [admitted |-> Len(ledger.limits), upper |-> UpperCost(ledger),
                synced |-> stable = {ledger}]
  /\ UNCHANGED <<ledger, torn, stable, lock, pc, entry, call, wire>>

--------------------------------------------------------------------------------
\* Mutation: the lock is a file, which outlives the process that made it.
CrashHoldingLock(p) ==
  /\ pc[p] # "down"
  /\ torn' \in IF pc[p] = "writing" THEN {torn, TRUE} ELSE {torn}
  /\ pc' = [pc EXCEPT ![p] = "down"]
  /\ entry' = [entry EXCEPT ![p] = NoEntry]
  /\ call' = IF p \in Callers THEN [call EXCEPT ![p] = 0] ELSE call
  /\ UNCHANGED <<ledger, stable, lock, wire, report>>

\* A process dies; the kernel releases its lock.  A write under way may have
\* left part of the record.
Crash(p) ==
  /\ pc[p] # "down"
  /\ torn' \in IF pc[p] = "writing" THEN {torn, TRUE} ELSE {torn}
  /\ lock' = IF lock = p THEN Nobody ELSE lock
  /\ pc' = [pc EXCEPT ![p] = "down"]
  /\ entry' = [entry EXCEPT ![p] = NoEntry]
  /\ call' = IF p \in Callers THEN [call EXCEPT ![p] = 0] ELSE call
  /\ UNCHANGED <<ledger, stable, wire, report>>

\* The machine loses power: every process dies and the file keeps what was
\* synced, perhaps more, perhaps a part of a record.
PowerLoss ==
  /\ ledger' \in stable
  /\ stable' = {ledger'}
  /\ torn' \in IF ledger' = ledger THEN {torn, FALSE} ELSE BOOLEAN
  /\ lock' = Nobody
  /\ pc' = [p \in Procs |-> "down"]
  /\ entry' = [p \in Procs |-> NoEntry]
  /\ call' = [c \in Callers |-> 0]
  /\ UNCHANGED <<wire, report>>

Next ==
  \/ \E p \in Procs : Write(p) \/ WriteFails(p) \/ Sync(p) \/ SyncFails(p) \/ Crash(p)
  \/ \E c \in Callers : Bind(c) \/ Deny(c) \/ Send(c) \/ Settle(c) \/ EndCall(c)
  \/ \E c \in Callers, limit \in Limits : Admit(c, limit)
  \/ Seal
  \/ Attest
  \/ PowerLoss

\* A process that holds the lock goes on until it answers, unless it dies.
Fairness == \A p \in Procs : WF_vars(Write(p)) /\ WF_vars(Sync(p))

Spec == Init /\ [][Next]_vars /\ Fairness

--------------------------------------------------------------------------------
\* Types.  The file is typed by the states its records replay to.
Records ==
  [kind : {"claim", "refused", "sealed"}, run : Runs]
    \union [kind : {"admitted"}, run : Runs, seq : Nat \ {0}, limit : Limits,
            reserved : {Reservation}]
    \union [kind : {"settled"}, run : Runs, seq : Nat \ {0},
            usage : Usages(CompletionTokens)]

\* The lock is held by the process that has a record to append, and by no other.
HeldWhileWriting == \A p \in Procs : lock = p <=> pc[p] \in {"writing", "written"}

TypeOK ==
  /\ ledger \in LedgerStates \union {Unreadable}
  /\ torn \in BOOLEAN
  /\ stable \subseteq LedgerStates \union {Unreadable}
  /\ ledger \in stable
  /\ lock \in Procs \union {Nobody}
  /\ pc \in [Procs -> {"down", "ready", "writing", "written"}]
  /\ entry \in [Procs -> Records \union {NoEntry}]
  /\ HeldWhileWriting
  /\ call \in [Callers -> Nat]
  /\ DOMAIN wire \subseteq Nat \ {0}
  /\ \A q \in DOMAIN wire : wire[q] \in Usages(CompletionTokens)

\* The file never comes to hold complete records that do not replay: whatever
\* the processes append, and wherever they die, a reader that finds no torn
\* tail can account for the run.
AlwaysReplays == Unreadable \notin stable

\* The approved budget: whatever could be on the disk after a crash stays
\* within the attempt cap and the dollar bound.
WithinBudget ==
  \A s \in stable \ {Unreadable} :
    /\ Len(s.limits) <= MaxAttempts
    /\ UpperCost(s) <= MaxTotal

\* "Admission is persisted before HTTP": a request the provider has seen is an
\* attempt of the ledger, now and after any loss of power.
AdmittedBeforeWire ==
  \A q \in DOMAIN wire : \A s \in stable \ {Unreadable} : q \in DOMAIN s.limits

\* No admission is given to two calls.
OneCallPerAdmission ==
  \A c, d \in Callers : c # d /\ call[c] # 0 => call[c] # call[d]

\* The money: what the provider has used up never exceeds the upper cost the
\* ledger accounts for, however many settlements failed, were lost or came late.
Charges == [q \in DOMAIN wire |-> Charge(wire[q])]
Spent == SumFunction(Charges)

SpendCovered ==
  \A s \in stable \ {Unreadable} : Spent <= UpperCost(s)

\* A torn tail fails closed: while the file ends with part of a record no call
\* is admitted, so a half-written admission cannot reopen the budget.
TornFailsClosed ==
  [][torn => \A c \in Callers : call'[c] \in {0, call[c]}]_vars

\* The seal is terminal: once it is on the disk the account never changes.
SealIsTerminal ==
  [][(\A s \in stable : s # Unreadable /\ s.sealed) => ledger' = ledger]_vars

\* An attestation of a synced seal stays true: the attempts and the upper cost
\* it reports are those of the ledger from then on.  seal returns early on a seal
\* it finds, so a seal whose fsync failed can be attested and lost with the power.
AttestationStaysTrue ==
  report # NoReport /\ report.synced =>
    \A s \in stable : /\ s # Unreadable
                      /\ report.admitted = Len(s.limits)
                      /\ report.upper = UpperCost(s)

\* The lock is not left behind by an operation that returns, raises or dies.
LockReleased == \A p \in Procs : lock = p ~> lock # p
================================================================================
