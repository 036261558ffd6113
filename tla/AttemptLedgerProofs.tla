-------------------------- MODULE AttemptLedgerProofs --------------------------
(******************************************************************************)
(* Theorems about AttemptLedger for every number of callers, every budget and *)
(* every price.  The inductive invariant says what the lock protects: the     *)
(* record a holder is about to append still replays after the file, because   *)
(* nobody else has appended since the holder replayed it.                     *)
(******************************************************************************)
EXTENDS AttemptLedger, Sums

--------------------------------------------------------------------------------
\* What every ledger that replays satisfies.
GoodLedger(s) ==
  /\ s \in LedgerStates
  /\ s.settled \subseteq 1..Len(s.limits)
  /\ Len(s.limits) <= MaxAttempts
  /\ UpperCost(s) <= MaxTotal

LEMMA ReservationNat == Reservation \in Nat
BY BindingAssumption DEF Reservation

\* An accepted usage never costs more than the reservation it replaces.
LEMMA ChargeWithinReservation ==
  ASSUME NEW limit \in Limits, NEW u \in Usages(limit)
  PROVE  Charge(u) \in Nat /\ Charge(u) <= Reservation
<1>1. /\ u.prompt \in Nat /\ u.prompt <= ContextTokens
      /\ u.completion \in Nat /\ u.completion <= CompletionTokens
  BY BindingAssumption DEF Usages, Limits
<1>2. ASSUME NEW a \in Nat, NEW b \in Nat, NEW k \in Nat, a <= b
      PROVE  a * k <= b * k /\ a * k \in Nat /\ b * k \in Nat
  BY <1>2
<1>3. /\ u.prompt * PromptPrice <= ContextTokens * PromptPrice
      /\ u.prompt * PromptPrice \in Nat
      /\ ContextTokens * PromptPrice \in Nat
  BY <1>1, <1>2, BindingAssumption
<1>4. /\ u.completion * CompletionPrice <= CompletionTokens * CompletionPrice
      /\ u.completion * CompletionPrice \in Nat
      /\ CompletionTokens * CompletionPrice \in Nat
  BY <1>1, <1>2, BindingAssumption
<1> QED
  BY <1>3, <1>4 DEF Charge, Reservation

\* The settled attempts are finitely many and no more than the admitted ones.
LEMMA SettledFinite ==
  ASSUME NEW s \in LedgerStates, s.settled \subseteq 1..Len(s.limits)
  PROVE  /\ IsFiniteSet(s.settled)
         /\ Cardinality(s.settled) \in Nat
         /\ Cardinality(s.settled) <= Len(s.limits)
<1>1. Len(s.limits) \in Nat
  BY DEF LedgerStates
<1>2. IsFiniteSet(1..Len(s.limits)) /\ Cardinality(1..Len(s.limits)) = Len(s.limits)
  BY <1>1, FS_Interval
<1> QED
  BY <1>1, <1>2, FS_Subset, FS_CardinalityType

LEMMA EmptyLedgerGood == GoodLedger(EmptyLedger)
<1>1. EmptyLedger \in LedgerStates
  BY DEF EmptyLedger, LedgerStates
<1>2. Cardinality({}) = 0
  BY FS_EmptySet
<1>3. UpperCost(EmptyLedger) = 0
  BY <1>2, ReservationNat DEF UpperCost, Outstanding, EmptyLedger
<1> QED
  BY <1>1, <1>3, BindingAssumption DEF GoodLedger, EmptyLedger

--------------------------------------------------------------------------------
\* One more record that replays keeps a ledger within its budget.
LEMMA StepKeepsBudget ==
  ASSUME NEW s, GoodLedger(s), NEW r \in Records, Replays(s, r)
  PROVE  GoodLedger(Step(s, r))
<1> DEFINE n == Len(s.limits)
           k == Cardinality(s.settled)
<1>0. s \in LedgerStates /\ n \in Nat /\ s.settledUpper \in Nat /\ s.limits \in Seq(Limits)
  BY DEF GoodLedger, LedgerStates
<1>1. IsFiniteSet(s.settled) /\ k \in Nat /\ k <= n
  BY <1>0, SettledFinite DEF GoodLedger
<1>2. CASE r.kind = "claim"
  <2>1. r.run \in Runs
    BY <1>2 DEF Records
  <2>2. Step(s, r) = [s EXCEPT !.claim = r.run]
    BY <1>2 DEF Step
  <2> QED
    BY <2>1, <2>2 DEF GoodLedger, LedgerStates, UpperCost, Outstanding
<1>3. CASE r.kind = "admitted"
  <2>1. r.limit \in Limits /\ ~ AdmissionDenied(s)
    BY <1>3 DEF Records, Replays
  <2> DEFINE t == Step(s, r)
  <2>2. t = [s EXCEPT !.limits = Append(s.limits, r.limit)]
    BY <1>3 DEF Step
  <2>3. /\ t \in LedgerStates
        /\ t.limits = Append(s.limits, r.limit)
        /\ t.settled = s.settled
        /\ t.settledUpper = s.settledUpper
    <3>1. Append(s.limits, r.limit) \in Seq(Limits)
      BY <1>0, <2>1
    <3> HIDE DEF t
    <3> QED
      BY <1>0, <2>2, <3>1 DEF LedgerStates
  <2>4. Len(t.limits) = n + 1
    BY <1>0, <2>1, <2>3
  <2>5. n + 1 <= MaxAttempts
    BY <1>0, <2>1, BindingAssumption DEF AdmissionDenied
  <2>6. UpperCost(s) + Reservation <= MaxTotal
    <3>1. UpperCost(s) \in Int
      BY <1>0, <1>1, ReservationNat DEF UpperCost, Outstanding
    <3> QED
      BY <3>1, <2>1, ReservationNat, BindingAssumption DEF AdmissionDenied
  <2>7. UpperCost(t) = UpperCost(s) + Reservation
    <3>1. ((n + 1) - k) * Reservation = (n - k) * Reservation + Reservation
      BY <1>0, <1>1, ReservationNat
    <3> QED
      BY <3>1, <2>3, <2>4, <1>0, <1>1, ReservationNat DEF UpperCost, Outstanding
  <2>8. t.settled \subseteq 1..Len(t.limits)
    BY <2>3, <2>4, <1>0 DEF GoodLedger
  <2> QED
    BY <2>3, <2>4, <2>5, <2>6, <2>7, <2>8 DEF GoodLedger
<1>4. CASE r.kind = "settled"
  <2>1. /\ r.seq \in 1..n /\ r.seq \notin s.settled
        /\ r.usage \in Usages(s.limits[r.seq])
        /\ s.limits[r.seq] \in Limits
    BY <1>0, <1>4 DEF Replays
  <2>2. Charge(r.usage) \in Nat /\ Charge(r.usage) <= Reservation
    BY <2>1, ChargeWithinReservation
  <2> DEFINE t == Step(s, r)
  <2>3. t = [s EXCEPT !.settled = s.settled \union {r.seq},
                      !.settledUpper = s.settledUpper + Charge(r.usage)]
    BY <1>4 DEF Step
  <2>4. /\ t \in LedgerStates
        /\ t.limits = s.limits
        /\ t.settled = s.settled \union {r.seq}
        /\ t.settledUpper = s.settledUpper + Charge(r.usage)
    <3>1. s.settled \union {r.seq} \in SUBSET Nat
      BY <1>0, <2>1 DEF LedgerStates
    <3>2. s.settledUpper + Charge(r.usage) \in Nat
      BY <1>0, <2>2
    <3> HIDE DEF t
    <3> QED
      BY <1>0, <2>3, <3>1, <3>2 DEF LedgerStates
  <2>5. Cardinality(t.settled) = k + 1
    BY <1>1, <2>1, <2>4, FS_AddElement
  <2>6. UpperCost(t) <= UpperCost(s)
    <3>0. ASSUME NEW a \in Int, NEW b \in Int
          PROVE  (a - 1) * b = a * b - b
      OBVIOUS
    <3>1. (n - (k + 1)) * Reservation = (n - k) * Reservation - Reservation
      <4>1. n - k \in Int /\ n - (k + 1) = (n - k) - 1
        BY <1>0, <1>1
      <4> HIDE DEF n, k
      <4> QED
        BY <3>0, <4>1, ReservationNat
    <3>2. (n - k) * Reservation \in Int
      BY <1>0, <1>1, ReservationNat
    <3>3. UpperCost(t) = s.settledUpper + Charge(r.usage) + ((n - k) * Reservation - Reservation)
      BY <2>4, <2>5, <3>1 DEF UpperCost, Outstanding
    <3>4. UpperCost(s) = s.settledUpper + (n - k) * Reservation
      BY DEF UpperCost, Outstanding
    <3> QED
      BY <3>2, <3>3, <3>4, <2>2, <1>0, ReservationNat
  <2>7. UpperCost(t) <= MaxTotal
    <3>1. UpperCost(t) \in Int /\ UpperCost(s) \in Int
      BY <1>0, <1>1, <2>2, <2>4, <2>5, ReservationNat DEF UpperCost, Outstanding
    <3> QED
      BY <3>1, <2>6, BindingAssumption DEF GoodLedger
  <2> QED
    BY <2>1, <2>4, <2>7 DEF GoodLedger
<1>5. CASE r.kind \in {"refused", "sealed"}
  <2>1. Step(s, r) \in {[s EXCEPT !.refused = TRUE], [s EXCEPT !.sealed = TRUE]}
    BY <1>5 DEF Step
  <2> QED
    BY <2>1 DEF GoodLedger, LedgerStates, UpperCost, Outstanding
<1> QED
  BY <1>2, <1>3, <1>4, <1>5 DEF Records

\* A record that replays adds to the admitted attempts or leaves them alone; an
\* admission takes the first free sequence number.
LEMMA StepExtends ==
  ASSUME NEW s, GoodLedger(s), NEW r \in Records, Replays(s, r)
  PROVE  /\ Replay(s, r) = Step(s, r)
         /\ DOMAIN s.limits \subseteq DOMAIN Step(s, r).limits
         /\ r.kind = "admitted" =>
              r.seq \in DOMAIN Step(s, r).limits /\ r.seq \notin DOMAIN s.limits
<1>1. s \in LedgerStates /\ s.limits \in Seq(Limits) /\ Len(s.limits) \in Nat
  BY DEF GoodLedger, LedgerStates
<1>2. Replay(s, r) = Step(s, r)
  BY DEF Replay
<1>3. CASE r.kind = "admitted"
  <2>1. r.limit \in Limits /\ r.seq = Len(s.limits) + 1
    BY <1>3 DEF Records, Replays
  <2>2. Step(s, r).limits = Append(s.limits, r.limit)
    BY <1>1, <1>3 DEF Step, LedgerStates
  <2>3. /\ DOMAIN Append(s.limits, r.limit) = 1..(Len(s.limits) + 1)
        /\ DOMAIN s.limits = 1..Len(s.limits)
    BY <1>1, <2>1
  <2> QED
    BY <1>1, <1>2, <2>1, <2>2, <2>3
<1>4. CASE r.kind \in {"claim", "settled", "refused", "sealed"}
  <2>1. Step(s, r).limits = s.limits
    BY <1>1, <1>4 DEF Step, LedgerStates
  <2> QED
    BY <1>2, <1>4, <2>1
<1> QED
  BY <1>3, <1>4 DEF Records

\* What the operations append are records.
LEMMA EntriesAreRecords ==
  ASSUME NEW s \in LedgerStates, NEW run \in Runs
  PROVE  /\ ClaimEntry(s, run) \subseteq Records
         /\ RefuseEntry(s, run) \subseteq Records
         /\ SealEntry(s, run) \subseteq Records
         /\ \A limit \in Limits : AdmitEntry(s, run, limit) \subseteq Records
         /\ \A seq, usage : SettleEntry(s, run, seq, usage) \subseteq Records
<1>1. /\ ClaimRecord(run) \in Records
      /\ RefusedRecord(run) \in Records
      /\ SealedRecord(run) \in Records
  BY DEF ClaimRecord, RefusedRecord, SealedRecord, Records
<1>2. ASSUME NEW limit \in Limits
      PROVE  AdmittedRecord(run, Len(s.limits) + 1, limit) \in Records
  <2>1. Len(s.limits) + 1 \in Nat \ {0}
    BY DEF LedgerStates
  <2> QED
    BY <1>2, <2>1 DEF AdmittedRecord, Records
<1>3. ASSUME NEW seq, NEW usage, seq \in DOMAIN s.limits, usage \in Usages(s.limits[seq])
      PROVE  SettledRecord(run, seq, usage) \in Records
  <2>1. seq \in Nat \ {0} /\ s.limits[seq] \in Limits
    BY <1>3 DEF LedgerStates
  <2>2. usage \in Usages(CompletionTokens)
    BY <1>3, <2>1, BindingAssumption DEF Usages, Limits
  <2> QED
    BY <2>1, <2>2 DEF SettledRecord, Records
<1> QED
  BY <1>1, <1>2, <1>3 DEF ClaimEntry, RefuseEntry, SealEntry, AdmitEntry, SettleEntry

--------------------------------------------------------------------------------
\* The inductive invariant.

\* Whatever the disk may hold replays, within the budget.
Accounts == \A s \in stable : GoodLedger(s)

\* A process appends only under the lock and to an untorn file, and what it is
\* about to append still replays; an admission it has written but not answered
\* belongs to no call yet.
LockProtects ==
  \A p \in Procs :
    /\ pc[p] \in {"writing", "written"} =>
         lock = p /\ entry[p] \in Records /\ ~ torn
    /\ pc[p] = "writing" => Replays(ledger, entry[p])
    /\ pc[p] = "written" /\ entry[p].kind = "admitted" =>
         /\ entry[p].seq \in DOMAIN ledger.limits
         /\ \A c \in Callers : call[c] # entry[p].seq

\* A call's admission has reached the disk.
CallsAdmitted ==
  \A c \in Callers : call[c] # 0 => \A s \in stable : call[c] \in DOMAIN s.limits

WireAdmitted == \A q \in DOMAIN wire : \A s \in stable : q \in DOMAIN s.limits

\* Only the last state of the file can be sealed.
SealLast == \A s \in stable : s.sealed => s = ledger

ReportKept ==
  report # NoReport /\ report.synced =>
    \A s \in stable : /\ s.sealed
                      /\ report.admitted = Len(s.limits)
                      /\ report.upper = UpperCost(s)

IInv ==
  /\ TypeOK
  /\ Accounts
  /\ LockProtects
  /\ CallsAdmitted
  /\ WireAdmitted
  /\ OneCallPerAdmission
  /\ SealLast
  /\ ReportKept

LEMMA InitIInv == Init => IInv
<1> SUFFICES ASSUME Init PROVE IInv
  OBVIOUS
<1>1. EmptyLedger \in LedgerStates
  BY EmptyLedgerGood DEF GoodLedger
<1>2. TypeOK
  <2>1. DOMAIN << >> = {}
    OBVIOUS
  <2>2. /\ DOMAIN wire \subseteq Nat \ {0}
        /\ \A q \in DOMAIN wire : wire[q] \in Usages(CompletionTokens)
    BY <2>1 DEF Init
  <2>3. pc \in [Procs -> {"down", "ready", "writing", "written"}]
    BY DEF Init
  <2>4. entry \in [Procs -> Records \union {NoEntry}]
    BY DEF Init
  <2>5. call \in [Callers -> Nat]
    BY DEF Init
  <2>6. HeldWhileWriting
    BY ProcessAssumption DEF Init, HeldWhileWriting
  <2> QED
    BY <1>1, <2>2, <2>3, <2>4, <2>5, <2>6 DEF Init, TypeOK
<1>3. Accounts
  BY EmptyLedgerGood DEF Init, Accounts
<1>4. LockProtects /\ CallsAdmitted /\ WireAdmitted /\ OneCallPerAdmission
  BY DEF Init, LockProtects, CallsAdmitted, WireAdmitted, OneCallPerAdmission
<1>5. SealLast /\ ReportKept
  BY DEF Init, SealLast, ReportKept, EmptyLedger
<1> QED
  BY <1>2, <1>3, <1>4, <1>5 DEF IInv

\* The file reads as a ledger in every state of the invariant.
LEMMA LedgerGood ==
  ASSUME IInv
  PROVE  /\ GoodLedger(ledger)
         /\ ledger \in LedgerStates
         /\ \A s \in stable : s # Unreadable
BY SentinelAssumption DEF IInv, TypeOK, Accounts, GoodLedger

--------------------------------------------------------------------------------
\* One lemma per kind of step.

\* A process takes the lock with a record to append.
LEMMA TakeKeeps ==
  ASSUME IInv, NEW p \in Procs, NEW entries, entries \subseteq Records,
         Take(p, entries)
  PROVE  IInv'
<1>1. PICK r \in entries : Replays(ledger, r) /\ entry' = [entry EXCEPT ![p] = r]
  BY DEF Take
<1>2. r \in Records
  BY <1>1
<1>3. /\ lock = Nobody /\ ~ torn /\ lock' = p
      /\ pc' = [pc EXCEPT ![p] = "writing"]
      /\ UNCHANGED <<ledger, torn, stable, call, wire, report>>
  BY DEF Take, Readable
<1>4. \A q \in Procs : pc[q] \notin {"writing", "written"}
  BY <1>3, ProcessAssumption DEF IInv, LockProtects
<1>5. TypeOK'
  <2>1. HeldWhileWriting'
    <3>1. pc \in [Procs -> {"down", "ready", "writing", "written"}]
      BY DEF IInv, TypeOK
    <3> QED
      BY <1>3, <1>4, <3>1 DEF HeldWhileWriting
  <2> QED
    BY <1>1, <1>2, <1>3, <2>1 DEF IInv, TypeOK
<1>6. LockProtects'
  <2> SUFFICES ASSUME NEW q \in Procs
               PROVE  /\ pc'[q] \in {"writing", "written"} =>
                           lock' = q /\ entry'[q] \in Records /\ ~ torn'
                      /\ pc'[q] = "writing" => Replays(ledger', entry'[q])
                      /\ pc'[q] # "written"
    BY DEF LockProtects
  <2>1. pc \in [Procs -> {"down", "ready", "writing", "written"}]
        /\ entry \in [Procs -> Records \union {NoEntry}]
    BY DEF IInv, TypeOK
  <2>2. CASE q = p
    BY <1>1, <1>2, <1>3, <2>1, <2>2
  <2>3. CASE q # p
    BY <1>1, <1>3, <1>4, <2>1, <2>3
  <2> QED
    BY <2>2, <2>3
<1>7. (Accounts /\ CallsAdmitted /\ WireAdmitted /\ OneCallPerAdmission /\ SealLast)'
  BY <1>3 DEF IInv, Accounts, CallsAdmitted, WireAdmitted, OneCallPerAdmission, SealLast
<1>8. ReportKept'
  BY <1>3 DEF IInv, ReportKept
<1> QED
  BY <1>5, <1>6, <1>7, <1>8 DEF IInv

\* The record reaches the file: it replays there, and nothing has been sealed.
LEMMA WriteKeeps ==
  ASSUME IInv, NEW p \in Procs, Write(p)
  PROVE  IInv'
<1> DEFINE r == entry[p]
           t == Step(ledger, r)
<1>1. /\ pc[p] = "writing" /\ lock = p /\ r \in Records /\ ~ torn
      /\ Replays(ledger, r)
  BY DEF Write, IInv, LockProtects
<1>2. /\ GoodLedger(t)
      /\ DOMAIN ledger.limits \subseteq DOMAIN t.limits
      /\ r.kind = "admitted" => r.seq \in DOMAIN t.limits /\ r.seq \notin DOMAIN ledger.limits
      /\ ledger' = t
  BY <1>1, LedgerGood, StepKeepsBudget, StepExtends DEF Write
<1>3. /\ stable' = stable \union {t}
      /\ pc' = [pc EXCEPT ![p] = "written"]
      /\ UNCHANGED <<torn, lock, entry, call, wire, report>>
  BY <1>2 DEF Write
<1>4. \A s \in stable : ~ s.sealed
  <2>1. ~ ledger.sealed
    BY <1>1 DEF Replays
  <2> QED
    BY <2>1 DEF IInv, SealLast
<1> HIDE DEF t
<1>5. TypeOK'
  <2>1. HeldWhileWriting'
    BY <1>1, <1>3 DEF IInv, TypeOK, HeldWhileWriting
  <2> QED
    BY <1>2, <1>3, <2>1 DEF IInv, TypeOK, GoodLedger
<1>6. LockProtects'
  <2>1. \A c \in Callers : call[c] # 0 => call[c] \in DOMAIN ledger.limits
    BY DEF IInv, TypeOK, CallsAdmitted
  <2>2. r.kind = "admitted" => r.seq # 0 /\ \A c \in Callers : call[c] # r.seq
    <3>1. r.kind = "admitted" => r.seq # 0
      BY <1>1 DEF Records
    <3> QED
      BY <1>2, <2>1, <3>1
  <2>3. \A q \in Procs : q # p => pc'[q] \notin {"writing", "written"}
    BY <1>1, <1>3 DEF IInv, TypeOK, LockProtects
  <2>4. pc'[p] = "written"
    BY <1>3 DEF IInv, TypeOK
  <2> QED
    BY <1>1, <1>2, <1>3, <2>2, <2>3, <2>4 DEF LockProtects
<1>7. Accounts'
  BY <1>2, <1>3 DEF IInv, Accounts
<1>8. (CallsAdmitted /\ WireAdmitted)'
  BY <1>2, <1>3 DEF IInv, TypeOK, CallsAdmitted, WireAdmitted
<1>9. OneCallPerAdmission'
  BY <1>3 DEF IInv, OneCallPerAdmission
<1>10. (SealLast /\ ReportKept)'
  BY <1>2, <1>3, <1>4 DEF IInv, TypeOK, SealLast, ReportKept
<1> QED
  BY <1>5, <1>6, <1>7, <1>8, <1>9, <1>10 DEF IInv

\* Steps that end a process's operation and leave the file's records alone:
\* the process ends outside the lock, and calls only end.
Ends(p) ==
  /\ lock' = IF lock = p THEN Nobody ELSE lock
  /\ \E state \in {"down", "ready"} : pc' = [pc EXCEPT ![p] = state]
  /\ entry' = [entry EXCEPT ![p] = NoEntry]
  /\ call' \in {call, [call EXCEPT ![p] = 0]}
  /\ torn' \in BOOLEAN
  /\ torn' # torn => pc[p] = "writing"
  /\ UNCHANGED <<ledger, stable, wire, report>>

LEMMA EndsKeeps ==
  ASSUME IInv, NEW p \in Procs, Ends(p)
  PROVE  IInv'
<1>1. PICK state \in {"down", "ready"} : pc' = [pc EXCEPT ![p] = state]
  BY DEF Ends
<1>2. /\ lock' = IF lock = p THEN Nobody ELSE lock
      /\ entry' = [entry EXCEPT ![p] = NoEntry]
      /\ call' \in {call, [call EXCEPT ![p] = 0]}
      /\ torn' \in BOOLEAN
      /\ torn' # torn => pc[p] = "writing"
      /\ UNCHANGED <<ledger, stable, wire, report>>
  BY DEF Ends
<1>3. call' \in [Callers -> Nat] /\ \A c \in Callers : call'[c] \in {0, call[c]}
  BY <1>2 DEF IInv, TypeOK
<1>4. TypeOK'
  <2>1. HeldWhileWriting'
    BY <1>1, <1>2, ProcessAssumption DEF IInv, TypeOK, HeldWhileWriting
  <2> QED
    BY <1>1, <1>2, <1>3, <2>1 DEF IInv, TypeOK
<1>5. LockProtects'
  <2>0. /\ pc \in [Procs -> {"down", "ready", "writing", "written"}]
        /\ entry \in [Procs -> Records \union {NoEntry}]
    BY DEF IInv, TypeOK
  <2>1. pc'[p] \notin {"writing", "written"}
    BY <1>1, <2>0
  <2>2. \A q \in Procs : q # p => pc'[q] = pc[q] /\ entry'[q] = entry[q]
    BY <1>1, <1>2, <2>0
  <2>3. ASSUME NEW q \in Procs, q # p, pc[q] \in {"writing", "written"}
        PROVE  /\ lock' = q /\ entry'[q] \in Records /\ ~ torn'
               /\ entry[q].kind = "admitted" =>
                    \A c \in Callers : pc[q] = "written" => call'[c] # entry[q].seq
    <3>1. lock = q /\ entry[q] \in Records /\ ~ torn
      BY <2>3 DEF IInv, LockProtects
    <3>2. pc[p] # "writing"
      BY <2>3, <3>1 DEF IInv, LockProtects
    <3>3. entry[q].kind = "admitted" => entry[q].seq # 0
      BY <3>1 DEF Records
    <3>4. pc[q] = "written" /\ entry[q].kind = "admitted" =>
            \A c \in Callers : call[c] # entry[q].seq
      BY DEF IInv, LockProtects
    <3> QED
      BY <1>2, <1>3, <2>2, <2>3, <3>1, <3>2, <3>3, <3>4
  <2>4. \A q \in Procs :
          /\ pc[q] = "writing" => Replays(ledger, entry[q])
          /\ pc[q] = "written" /\ entry[q].kind = "admitted" =>
               entry[q].seq \in DOMAIN ledger.limits
    BY DEF IInv, LockProtects
  <2> QED
    BY <1>2, <2>1, <2>2, <2>3, <2>4 DEF LockProtects
<1>6. (Accounts /\ WireAdmitted /\ SealLast)'
  BY <1>2 DEF IInv, Accounts, WireAdmitted, SealLast
<1>7. CallsAdmitted' /\ OneCallPerAdmission'
  BY <1>2, <1>3 DEF IInv, CallsAdmitted, OneCallPerAdmission
<1>8. ReportKept'
  BY <1>2 DEF IInv, ReportKept
<1> QED
  BY <1>4, <1>5, <1>6, <1>7, <1>8 DEF IInv

\* The operation answers: the file is the only thing the disk can hold, and an
\* admission becomes a call.
LEMMA SyncKeeps ==
  ASSUME IInv, NEW p \in Procs, Sync(p)
  PROVE  IInv'
<1>0. /\ pc \in [Procs -> {"down", "ready", "writing", "written"}]
      /\ entry \in [Procs -> Records \union {NoEntry}]
      /\ call \in [Callers -> Nat]
      /\ ledger \in stable
  BY DEF IInv, TypeOK
<1>1. /\ pc[p] = "written" /\ stable' = {ledger} /\ lock' = Nobody
      /\ pc' = [pc EXCEPT ![p] = "ready"]
      /\ entry' = [entry EXCEPT ![p] = NoEntry]
      /\ UNCHANGED <<ledger, torn, wire, report>>
  BY DEF Sync
<1>2. entry[p] \in Records /\ lock = p
  BY <1>1 DEF IInv, LockProtects
<1>3. call' = CASE entry[p].kind = "admitted" -> [call EXCEPT ![p] = entry[p].seq]
                [] entry[p].kind = "settled"  -> [call EXCEPT ![p] = 0]
                [] OTHER                      -> call
  BY DEF Sync
<1>4. entry[p].kind = "admitted" =>
        /\ entry[p].seq \in Nat
        /\ entry[p].seq \in DOMAIN ledger.limits
        /\ \A c \in Callers : call[c] # entry[p].seq
  BY <1>1, <1>2 DEF IInv, LockProtects, Records
<1>5. /\ call' \in [Callers -> Nat]
      /\ \A c \in Callers : c # p => call'[c] \in {0, call[c]}
      /\ p \in Callers =>
           \/ call'[p] \in {0, call[p]}
           \/ entry[p].kind = "admitted" /\ call'[p] = entry[p].seq
  <2>1. CASE entry[p].kind = "admitted"
    BY <1>0, <1>3, <1>4, <2>1
  <2>2. CASE entry[p].kind = "settled"
    BY <1>0, <1>3, <2>2
  <2>3. CASE entry[p].kind \notin {"admitted", "settled"}
    <3>1. call' = call
      BY <1>3, <2>3
    <3> QED
      BY <1>0, <3>1
  <2> QED
    BY <2>1, <2>2, <2>3
<1>6. \A q \in Procs : pc'[q] \notin {"writing", "written"}
  BY <1>0, <1>1, <1>2 DEF IInv, LockProtects
<1>7. TypeOK'
  <2>1. HeldWhileWriting'
    BY <1>1, <1>6, ProcessAssumption DEF HeldWhileWriting
  <2> QED
    BY <1>0, <1>1, <1>5, <2>1 DEF IInv, TypeOK
<1>8. LockProtects'
  BY <1>6 DEF LockProtects
<1>9. (Accounts /\ WireAdmitted /\ SealLast)'
  BY <1>0, <1>1 DEF IInv, Accounts, WireAdmitted, SealLast
<1>10. CallsAdmitted'
  BY <1>0, <1>1, <1>4, <1>5 DEF IInv, CallsAdmitted
<1>11. OneCallPerAdmission'
  <2> SUFFICES ASSUME NEW c \in Callers, NEW d \in Callers, c # d, call'[c] # 0
               PROVE  call'[c] # call'[d]
    BY DEF OneCallPerAdmission
  <2>1. \A e \in Callers : entry[p].kind = "admitted" => call[e] # entry[p].seq
    BY <1>4
  <2>2. \A e \in Callers : entry[p].kind = "admitted" => entry[p].seq # 0
    BY <1>2 DEF Records
  <2>3. \A e, f \in Callers : e # f /\ call[e] # 0 => call[e] # call[f]
    BY DEF IInv, OneCallPerAdmission
  <2> QED
    BY <1>5, <2>1, <2>2, <2>3
<1>12. ReportKept'
  BY <1>0, <1>1 DEF IInv, ReportKept
<1> QED
  BY <1>7, <1>8, <1>9, <1>10, <1>11, <1>12 DEF IInv

LEMMA PowerLossKeeps ==
  ASSUME IInv, PowerLoss
  PROVE  IInv'
<1>1. /\ ledger' \in stable /\ stable' = {ledger'}
      /\ torn' \in BOOLEAN
      /\ lock' = Nobody
      /\ pc' = [p \in Procs |-> "down"]
      /\ entry' = [p \in Procs |-> NoEntry]
      /\ call' = [c \in Callers |-> 0]
      /\ UNCHANGED <<wire, report>>
  <2>1. torn' \in BOOLEAN
    BY DEF PowerLoss, IInv, TypeOK
  <2> QED
    BY <2>1 DEF PowerLoss
<1>2. TypeOK'
  <2>1. HeldWhileWriting'
    BY <1>1, ProcessAssumption DEF HeldWhileWriting
  <2> QED
    BY <1>1, <2>1 DEF IInv, TypeOK
<1>3. (LockProtects /\ CallsAdmitted /\ OneCallPerAdmission)'
  BY <1>1 DEF LockProtects, CallsAdmitted, OneCallPerAdmission
<1>4. (Accounts /\ WireAdmitted /\ SealLast)'
  BY <1>1 DEF IInv, Accounts, WireAdmitted, SealLast
<1>5. ReportKept'
  BY <1>1 DEF IInv, ReportKept
<1> QED
  BY <1>2, <1>3, <1>4, <1>5 DEF IInv

\* Steps outside the lock: a request is sent, a call ends unsettled, the run is
\* attested, a process finds the claim.
LEMMA SendKeeps ==
  ASSUME IInv, NEW c \in Callers, Send(c)
  PROVE  IInv'
<1>1. PICK usage \in Usages(CompletionTokens) :
        wire' = [q \in DOMAIN wire \union {call[c]} |->
                   IF q = call[c] THEN usage ELSE wire[q]]
  BY DEF Send
<1>2. /\ call[c] # 0
      /\ UNCHANGED <<ledger, torn, stable, lock, pc, entry, call, report>>
  BY DEF Send
<1>3. DOMAIN wire' = DOMAIN wire \union {call[c]}
  BY <1>1
<1>4. TypeOK'
  <2>1. call[c] \in Nat \ {0}
    BY <1>2 DEF IInv, TypeOK
  <2>2. \A q \in DOMAIN wire' : wire'[q] \in Usages(CompletionTokens)
    BY <1>1, <1>3 DEF IInv, TypeOK
  <2> QED
    BY <1>2, <1>3, <2>1, <2>2 DEF IInv, TypeOK, HeldWhileWriting
<1>5. WireAdmitted'
  BY <1>2, <1>3 DEF IInv, CallsAdmitted, WireAdmitted
<1>6. (Accounts /\ LockProtects /\ CallsAdmitted /\ OneCallPerAdmission /\ SealLast)'
  BY <1>2 DEF IInv, Accounts, LockProtects, CallsAdmitted, OneCallPerAdmission, SealLast
<1>7. ReportKept'
  BY <1>2 DEF IInv, ReportKept
<1> QED
  BY <1>4, <1>5, <1>6, <1>7 DEF IInv

LEMMA EndCallKeeps ==
  ASSUME IInv, NEW c \in Callers, EndCall(c)
  PROVE  IInv'
<1>1. /\ call' = [call EXCEPT ![c] = 0]
      /\ UNCHANGED <<ledger, torn, stable, lock, pc, entry, wire, report>>
  BY DEF EndCall
<1>2. call' \in [Callers -> Nat] /\ \A d \in Callers : call'[d] \in {0, call[d]}
  BY <1>1 DEF IInv, TypeOK
<1>3. TypeOK'
  BY <1>1, <1>2 DEF IInv, TypeOK, HeldWhileWriting
<1>4. LockProtects'
  <2> SUFFICES ASSUME NEW p \in Procs, pc[p] = "written", entry[p].kind = "admitted"
               PROVE  \A d \in Callers : call'[d] # entry[p].seq
    BY <1>1 DEF IInv, LockProtects
  <2>1. entry[p].seq # 0
    BY DEF IInv, LockProtects, Records
  <2> QED
    BY <1>2, <2>1 DEF IInv, LockProtects
<1>5. (Accounts /\ WireAdmitted /\ SealLast)'
  BY <1>1 DEF IInv, Accounts, WireAdmitted, SealLast
<1>6. (CallsAdmitted /\ OneCallPerAdmission)'
  BY <1>1, <1>2 DEF IInv, CallsAdmitted, OneCallPerAdmission
<1>7. ReportKept'
  BY <1>1 DEF IInv, ReportKept
<1> QED
  BY <1>3, <1>4, <1>5, <1>6, <1>7 DEF IInv

LEMMA AttestKeeps ==
  ASSUME IInv, Attest
  PROVE  IInv'
<1>1. /\ ledger.sealed
      /\ report' = [admitted |-> Len(ledger.limits), upper |-> UpperCost(ledger),
                    synced |-> stable = {ledger}]
      /\ UNCHANGED <<ledger, torn, stable, lock, pc, entry, call, wire>>
  BY DEF Attest
<1>2. ReportKept'
  <2> SUFFICES ASSUME stable = {ledger}, NEW s \in stable
               PROVE  /\ s.sealed
                      /\ report'.admitted = Len(s.limits)
                      /\ report'.upper = UpperCost(s)
    BY <1>1 DEF ReportKept
  <2> QED
    BY <1>1
<1>3. (TypeOK /\ LockProtects)'
  BY <1>1 DEF IInv, TypeOK, LockProtects, HeldWhileWriting
<1>4. (Accounts /\ CallsAdmitted /\ WireAdmitted /\ OneCallPerAdmission /\ SealLast)'
  BY <1>1 DEF IInv, Accounts, CallsAdmitted, WireAdmitted, OneCallPerAdmission, SealLast
<1> QED
  BY <1>2, <1>3, <1>4 DEF IInv

\* A step in which a process only becomes ready, from "down".
LEMMA FoundClaimKeeps ==
  ASSUME IInv, NEW c \in Callers, pc[c] = "down",
         pc' = [pc EXCEPT ![c] = "ready"],
         UNCHANGED <<ledger, torn, stable, lock, entry, call, wire, report>>
  PROVE  IInv'
<1>1. /\ pc \in [Procs -> {"down", "ready", "writing", "written"}]
      /\ c \in Procs
  BY DEF IInv, TypeOK, Procs
<1>2. TypeOK'
  BY <1>1 DEF IInv, TypeOK, HeldWhileWriting
<1>3. LockProtects'
  BY <1>1 DEF IInv, LockProtects
<1>4. (Accounts /\ CallsAdmitted /\ WireAdmitted /\ OneCallPerAdmission /\ SealLast)'
  BY DEF IInv, Accounts, CallsAdmitted, WireAdmitted, OneCallPerAdmission, SealLast
<1>5. ReportKept'
  BY DEF IInv, ReportKept
<1> QED
  BY <1>2, <1>3, <1>4, <1>5 DEF IInv

--------------------------------------------------------------------------------
LEMMA NextIInv == IInv /\ [Next]_vars => IInv'
<1> SUFFICES ASSUME IInv, [Next]_vars PROVE IInv'
  OBVIOUS
<1>0. /\ \A p \in Procs : RunOf[p] \in Runs
      /\ Callers \subseteq Procs
      /\ Harness \in Procs
      /\ ledger \in LedgerStates
  BY ProcessAssumption, LedgerGood DEF Procs
<1>1. ASSUME NEW p \in Procs, Write(p) PROVE IInv'
  BY <1>1, WriteKeeps
<1>2. ASSUME NEW p \in Procs, Sync(p) PROVE IInv'
  BY <1>2, SyncKeeps
<1>3. ASSUME NEW p \in Procs, WriteFails(p) \/ SyncFails(p) PROVE IInv'
  <2>1. lock = p
    BY <1>3 DEF WriteFails, SyncFails, IInv, LockProtects
  <2>2. torn' \in BOOLEAN /\ (torn' # torn => pc[p] = "writing")
    BY <1>3 DEF WriteFails, SyncFails, IInv, TypeOK
  <2>3. Ends(p)
    BY <1>3, <2>1, <2>2 DEF WriteFails, SyncFails, Raise, Ends
  <2> QED
    BY <2>3, EndsKeeps
<1>4. ASSUME NEW p \in Procs, Crash(p) PROVE IInv'
  <2>1. torn' \in BOOLEAN /\ (torn' # torn => pc[p] = "writing")
    BY <1>4 DEF Crash, IInv, TypeOK
  <2>2. Ends(p)
    BY <1>4, <2>1 DEF Crash, Ends
  <2> QED
    BY <2>2, EndsKeeps
<1>5. ASSUME NEW c \in Callers, Bind(c) PROVE IInv'
  <2>1. CASE Take(c, ClaimEntry(ledger, RunOf[c]))
    BY <1>0, <2>1, EntriesAreRecords, TakeKeeps
  <2>2. CASE pc' = [pc EXCEPT ![c] = "ready"]
             /\ UNCHANGED <<ledger, torn, stable, lock, entry, call, wire, report>>
    BY <1>5, <2>2, FoundClaimKeeps DEF Bind
  <2> QED
    BY <1>5, <2>1, <2>2 DEF Bind
<1>6. ASSUME NEW c \in Callers, Deny(c) PROVE IInv'
  BY <1>0, <1>6, EntriesAreRecords, TakeKeeps DEF Deny
<1>7. ASSUME NEW c \in Callers, Settle(c) PROVE IInv'
  BY <1>0, <1>7, EntriesAreRecords, TakeKeeps DEF Settle
<1>8. ASSUME NEW c \in Callers, NEW limit \in Limits, Admit(c, limit) PROVE IInv'
  BY <1>0, <1>8, EntriesAreRecords, TakeKeeps DEF Admit
<1>9. ASSUME Seal PROVE IInv'
  BY <1>0, <1>9, EntriesAreRecords, TakeKeeps DEF Seal
<1>10. ASSUME NEW c \in Callers, Send(c) \/ EndCall(c) PROVE IInv'
  BY <1>10, SendKeeps, EndCallKeeps
<1>11. ASSUME Attest \/ PowerLoss PROVE IInv'
  BY <1>11, AttestKeeps, PowerLossKeeps
<1>12. ASSUME UNCHANGED vars PROVE IInv'
  <2> USE <1>12 DEF vars
  <2>1. (TypeOK /\ LockProtects)'
    BY DEF IInv, TypeOK, LockProtects, HeldWhileWriting
  <2>2. (Accounts /\ CallsAdmitted /\ WireAdmitted /\ OneCallPerAdmission /\ SealLast)'
    BY DEF IInv, Accounts, CallsAdmitted, WireAdmitted, OneCallPerAdmission, SealLast
  <2>3. ReportKept'
    BY DEF IInv, ReportKept
  <2> QED
    BY <2>1, <2>2, <2>3 DEF IInv
<1> QED
  BY <1>1, <1>2, <1>3, <1>4, <1>5, <1>6, <1>7, <1>8, <1>9, <1>10, <1>11, <1>12 DEF Next

THEOREM Invariance == Spec => []IInv
BY InitIInv, NextIInv, PTL DEF Spec

--------------------------------------------------------------------------------
\* The state of the ledger and its processes is typed: in particular a record is
\* only ever appended with a sequence number and a usage that replay accepts.
THEOREM TypeCorrect == Spec => []TypeOK
<1>1. IInv => TypeOK
  BY DEF IInv
<1> QED
  BY <1>1, Invariance, PTL

\* Concurrent appends, crashes and losses of power never leave complete records
\* that do not replay.
THEOREM LedgerAlwaysReplays == Spec => []AlwaysReplays
<1>1. IInv => AlwaysReplays
  BY LedgerGood DEF AlwaysReplays
<1> QED
  BY <1>1, Invariance, PTL

\* No number of callers exceeds the attempt cap or the dollar bound.
THEOREM BudgetHolds == Spec => []WithinBudget
<1>1. IInv => WithinBudget
  BY DEF IInv, Accounts, GoodLedger, WithinBudget
<1> QED
  BY <1>1, Invariance, PTL

\* A request that reached the provider is an attempt of the ledger for good.
THEOREM AdmissionPrecedesWire == Spec => []AdmittedBeforeWire
<1>1. IInv => AdmittedBeforeWire
  BY DEF IInv, WireAdmitted, AdmittedBeforeWire
<1> QED
  BY <1>1, Invariance, PTL

\* Two calls never hold the same admission.
THEOREM AdmissionsAreExclusive == Spec => []OneCallPerAdmission
<1>1. IInv => OneCallPerAdmission
  BY DEF IInv
<1> QED
  BY <1>1, Invariance, PTL

\* An attestation made from a synced seal never becomes false.
THEOREM AttestationHolds == Spec => []AttestationStaysTrue
<1>1. IInv => AttestationStaysTrue
  BY LedgerGood DEF IInv, ReportKept, AttestationStaysTrue
<1> QED
  BY <1>1, Invariance, PTL

\* With a torn tail on the file no step gives a call an admission.
THEOREM TornTailFailsClosed == Spec => TornFailsClosed
<1>1. IInv /\ [Next]_vars =>
        [torn => \A c \in Callers : call'[c] \in {0, call[c]}]_vars
  <2> SUFFICES ASSUME IInv, Next, torn, NEW c \in Callers
               PROVE  call'[c] \in {0, call[c]}
    OBVIOUS
  <2>0. call \in [Callers -> Nat]
    BY DEF IInv, TypeOK
  <2>1. \A p \in Procs : ~ Sync(p)
    BY DEF IInv, LockProtects, Sync
  <2>2. ASSUME NEW p \in Procs, Write(p) \/ WriteFails(p) \/ SyncFails(p) \/ Crash(p)
        PROVE  call'[c] \in {0, call[c]}
    BY <2>0, <2>2 DEF Write, WriteFails, SyncFails, Crash, Raise
  <2>3. ASSUME NEW d \in Callers, Bind(d) \/ Deny(d) \/ Send(d) \/ Settle(d) \/ EndCall(d)
        PROVE  call'[c] \in {0, call[c]}
    BY <2>0, <2>3 DEF Bind, Deny, Send, Settle, EndCall, Take
  <2>4. ASSUME NEW d \in Callers, NEW limit \in Limits, Admit(d, limit)
        PROVE  call'[c] \in {0, call[c]}
    BY <2>4 DEF Admit, Take
  <2>5. ASSUME Seal \/ Attest \/ PowerLoss
        PROVE  call'[c] \in {0, call[c]}
    BY <2>5 DEF Seal, Take, Attest, PowerLoss
  <2> QED
    BY <2>1, <2>2, <2>3, <2>4, <2>5 DEF Next
<1> QED
  BY <1>1, Invariance, PTL DEF Spec, TornFailsClosed

\* Once only sealed ledgers can be on the disk, no step changes the account.
THEOREM SealEndsTheLedger == Spec => SealIsTerminal
<1>1. IInv /\ [Next]_vars =>
        [(\A s \in stable : s # Unreadable /\ s.sealed) => ledger' = ledger]_vars
  <2> SUFFICES ASSUME IInv, Next, \A s \in stable : s # Unreadable /\ s.sealed
               PROVE  ledger' = ledger
    OBVIOUS
  <2>0. ledger.sealed /\ \A s \in stable : s = ledger
    BY DEF IInv, TypeOK, SealLast
  <2>1. \A p \in Procs : ~ Write(p)
    BY <2>0 DEF IInv, LockProtects, Write, Replays
  <2>2. ASSUME NEW p \in Procs, Sync(p) \/ WriteFails(p) \/ SyncFails(p) \/ Crash(p)
        PROVE  ledger' = ledger
    BY <2>2 DEF Sync, WriteFails, SyncFails, Crash
  <2>3. ASSUME NEW d \in Callers, Bind(d) \/ Deny(d) \/ Send(d) \/ Settle(d) \/ EndCall(d)
        PROVE  ledger' = ledger
    BY <2>3 DEF Bind, Deny, Send, Settle, EndCall, Take
  <2>4. ASSUME NEW d \in Callers, NEW limit \in Limits, Admit(d, limit)
        PROVE  ledger' = ledger
    BY <2>4 DEF Admit, Take
  <2>5. ASSUME Seal \/ Attest
        PROVE  ledger' = ledger
    BY <2>5 DEF Seal, Take, Attest
  <2>6. ASSUME PowerLoss
        PROVE  ledger' = ledger
    BY <2>0, <2>6 DEF PowerLoss
  <2> QED
    BY <2>1, <2>2, <2>3, <2>4, <2>5, <2>6 DEF Next
<1> QED
  BY <1>1, Invariance, PTL DEF Spec, SealIsTerminal

--------------------------------------------------------------------------------
(* The money.  A ledger's settlements are the charges of the requests they    *)
(* settle, and the requests without one are fewer than its reservations.      *)

\* What a ledger has settled is what those requests cost.
Matches(s) ==
  /\ s.settled \subseteq DOMAIN wire
  /\ s.settledUpper = SumFunctionOnSet(Charges, s.settled)

\* Settlements in the file, and the one about to be written, are of the wire.
SpendInv ==
  /\ \A s \in stable : Matches(s)
  /\ \A p \in Procs : pc[p] = "writing" /\ entry[p].kind = "settled" =>
       entry[p].seq \in DOMAIN wire /\ entry[p].usage = wire[entry[p].seq]

LEMMA ChargesBounded ==
  ASSUME IInv, NEW q \in DOMAIN wire
  PROVE  Charges[q] \in Nat /\ Charges[q] <= Reservation
<1>1. CompletionTokens \in Limits /\ wire[q] \in Usages(CompletionTokens)
  BY BindingAssumption DEF Limits, IInv, TypeOK
<1>2. QED BY <1>1, ChargeWithinReservation DEF Charges

LEMMA WireFinite ==
  ASSUME IInv
  PROVE  IsFiniteSet(DOMAIN wire) /\ DOMAIN wire \subseteq 1..Len(ledger.limits)
<1>1. ledger \in LedgerStates /\ ledger \in stable
  BY LedgerGood DEF IInv, TypeOK
<1>2. ledger.limits \in Seq(Limits)
  BY <1>1 DEF LedgerStates
<1>3. DOMAIN wire \subseteq 1..Len(ledger.limits)
  BY <1>1, <1>2 DEF IInv, WireAdmitted
<1>4. QED BY <1>2, <1>3, FS_Interval, FS_Subset

LEMMA InitSpend == Init => SpendInv
<1>1. SumFunctionOnSet(Charges, {}) = 0
  BY SumEmpty
<1>2. QED BY <1>1 DEF Init, SpendInv, Matches, EmptyLedger

\* A step that leaves the wire alone and brings no ledger and no settlement.
LEMMA QuietKeepsSpend ==
  ASSUME SpendInv, UNCHANGED wire, stable' \subseteq stable,
         \A p \in Procs : pc'[p] = "writing" /\ entry'[p].kind = "settled" =>
           \/ pc[p] = "writing" /\ entry'[p] = entry[p]
           \/ entry'[p].seq \in DOMAIN wire /\ entry'[p].usage = wire[entry'[p].seq]
  PROVE  SpendInv'
<1>1. Charges' = Charges
  BY DEF Charges
<1>2. \A s \in stable' : Matches(s)'
  BY <1>1 DEF SpendInv, Matches
<1>3. QED BY <1>2 DEF SpendInv

LEMMA TakeKeepsSpend ==
  ASSUME IInv, SpendInv, NEW p \in Procs, NEW entries, Take(p, entries),
         \A r \in entries : r.kind = "settled" =>
           r.seq \in DOMAIN wire /\ r.usage = wire[r.seq]
  PROVE  SpendInv'
<1>1. PICK r \in entries : entry' = [entry EXCEPT ![p] = r]
  BY DEF Take
<1>2. pc' = [pc EXCEPT ![p] = "writing"] /\ UNCHANGED <<stable, wire>>
  BY DEF Take
<1>3. ASSUME NEW q \in Procs, pc'[q] = "writing", entry'[q].kind = "settled"
      PROVE  \/ pc[q] = "writing" /\ entry'[q] = entry[q]
             \/ entry'[q].seq \in DOMAIN wire /\ entry'[q].usage = wire[entry'[q].seq]
  <2>1. entry \in [Procs -> Records \union {NoEntry}]
        /\ pc \in [Procs -> {"down", "ready", "writing", "written"}]
    BY DEF IInv, TypeOK
  <2>2. CASE q = p
    BY <1>1, <1>3, <2>1, <2>2
  <2>3. CASE q # p
    BY <1>1, <1>2, <1>3, <2>1, <2>3
  <2>4. QED BY <2>2, <2>3
<1>4. QED BY <1>2, <1>3, QuietKeepsSpend

\* A written settlement adds the charge of its request.
LEMMA StepMatches ==
  ASSUME IInv, SpendInv, NEW r \in Records, Replays(ledger, r),
         r.kind = "settled" =>
           r.seq \in DOMAIN wire /\ r.usage = wire[r.seq]
  PROVE  Matches(Replay(ledger, r))
<1>1. /\ GoodLedger(ledger) /\ ledger \in LedgerStates /\ Matches(ledger)
  BY LedgerGood DEF IInv, TypeOK, SpendInv
<1>2. Replay(ledger, r) = Step(ledger, r)
  BY <1>1, StepExtends
<1>3. CASE r.kind = "settled"
  <2>1. Step(ledger, r) = [ledger EXCEPT !.settled = @ \union {r.seq},
                                         !.settledUpper = @ + Charge(r.usage)]
    BY <1>3 DEF Step
  <2>2. /\ Step(ledger, r).settled = ledger.settled \union {r.seq}
        /\ Step(ledger, r).settledUpper = ledger.settledUpper + Charge(r.usage)
    BY <1>1, <2>1 DEF LedgerStates
  <2>3. r.seq \in DOMAIN wire /\ r.seq \notin ledger.settled
        /\ Charge(r.usage) = Charges[r.seq]
    BY <1>3 DEF Replays, Charges
  <2>4. IsFiniteSet(ledger.settled)
    BY <1>1, SettledFinite DEF GoodLedger
  <2>5. \A q \in ledger.settled \union {r.seq} : Charges[q] \in Int
    BY <1>1, <2>3, ChargesBounded DEF Matches
  <2>6. SumFunctionOnSet(Charges, ledger.settled \union {r.seq})
          = Charges[r.seq] + SumFunctionOnSet(Charges, ledger.settled)
    BY <2>3, <2>4, <2>5, SumAdd
  <2>7. SumFunctionOnSet(Charges, ledger.settled) \in Int /\ Charges[r.seq] \in Int
    BY <2>4, <2>5, SumInt
  <2>8. QED BY <1>1, <1>2, <2>2, <2>3, <2>6, <2>7 DEF Matches
<1>4. CASE r.kind # "settled"
  <2>1. /\ Step(ledger, r).settled = ledger.settled
        /\ Step(ledger, r).settledUpper = ledger.settledUpper
    BY <1>1, <1>4 DEF Step, LedgerStates, Records
  <2>2. QED BY <1>1, <1>2, <2>1 DEF Matches
<1>5. QED BY <1>3, <1>4

LEMMA WriteKeepsSpend ==
  ASSUME IInv, SpendInv, NEW p \in Procs, Write(p)
  PROVE  SpendInv'
<1>1. /\ pc[p] = "writing" /\ entry[p] \in Records
      /\ Replays(ledger, entry[p]) /\ ledger' = Replay(ledger, entry[p])
      /\ stable' = stable \union {ledger'}
      /\ pc' = [pc EXCEPT ![p] = "written"] /\ UNCHANGED <<wire, entry>>
  BY DEF Write, IInv, LockProtects
<1>2. Matches(ledger')
  <2>1. entry[p].kind = "settled" =>
          entry[p].seq \in DOMAIN wire /\ entry[p].usage = wire[entry[p].seq]
    BY <1>1 DEF SpendInv
  <2>2. QED BY <1>1, <2>1, StepMatches
<1>3. Charges' = Charges
  BY <1>1 DEF Charges
<1>4. \A s \in stable' : Matches(s)'
  BY <1>1, <1>2, <1>3 DEF SpendInv, Matches
<1>5. \A q \in Procs : pc'[q] = "writing" => pc[q] = "writing"
  BY <1>1 DEF IInv, TypeOK
<1>6. QED BY <1>1, <1>4, <1>5 DEF SpendInv

\* A new request changes no charge of an earlier one.
LEMMA SendKeepsSpend ==
  ASSUME IInv, SpendInv, NEW c \in Callers, Send(c)
  PROVE  SpendInv'
<1>1. PICK usage \in Usages(CompletionTokens) :
        wire' = [q \in DOMAIN wire \union {call[c]} |->
                   IF q = call[c] THEN usage ELSE wire[q]]
  BY DEF Send
<1>2. call[c] \notin DOMAIN wire /\ UNCHANGED <<stable, pc, entry>>
  BY DEF Send
<1>3. ASSUME NEW s \in stable PROVE Matches(s)'
  <2>1. s \in LedgerStates /\ s.settled \subseteq 1..Len(s.limits) /\ Matches(s)
    BY DEF IInv, Accounts, GoodLedger, SpendInv
  <2>2. IsFiniteSet(s.settled)
    BY <2>1, SettledFinite
  <2>3. \A q \in s.settled : Charges[q] \in Int /\ Charges[q] = Charges'[q]
    BY <1>1, <1>2, <2>1, ChargesBounded DEF Charges, Matches
  <2>4. SumFunctionOnSet(Charges, s.settled) = SumFunctionOnSet(Charges', s.settled)
    BY <2>2, <2>3, SumSame
  <2>5. s.settled \subseteq DOMAIN wire'
    BY <1>1, <2>1 DEF Matches
  <2>6. QED BY <2>1, <2>4, <2>5 DEF Matches
<1>4. \A q \in DOMAIN wire : q \in DOMAIN wire' /\ wire'[q] = wire[q]
  BY <1>1, <1>2
<1>5. QED BY <1>2, <1>3, <1>4 DEF SpendInv

LEMMA NextSpend == IInv /\ SpendInv /\ [Next]_vars => SpendInv'
<1> SUFFICES ASSUME IInv, SpendInv, [Next]_vars PROVE SpendInv'
  OBVIOUS
<1>0. /\ Callers \subseteq Procs /\ Harness \in Procs
      /\ pc \in [Procs -> {"down", "ready", "writing", "written"}]
      /\ entry \in [Procs -> Records \union {NoEntry}]
  BY DEF Procs, IInv, TypeOK
<1>1. ASSUME NEW p \in Procs, Write(p) PROVE SpendInv'
  BY <1>1, WriteKeepsSpend
<1>2. ASSUME NEW p \in Procs, Sync(p) \/ SyncFails(p) \/ WriteFails(p) \/ Crash(p)
      PROVE  SpendInv'
  <2>1. UNCHANGED wire /\ stable' \subseteq stable
    BY <1>2 DEF Sync, SyncFails, WriteFails, Crash, IInv, TypeOK
  <2>2. /\ pc' = [pc EXCEPT ![p] = pc'[p]] /\ pc'[p] # "writing"
        /\ entry' = [entry EXCEPT ![p] = NoEntry]
    BY <1>0, <1>2 DEF Sync, SyncFails, WriteFails, Crash, Raise
  <2>3. \A q \in Procs : pc'[q] = "writing" => pc[q] = "writing" /\ entry'[q] = entry[q]
    BY <1>0, <2>2
  <2>4. QED BY <2>1, <2>3, QuietKeepsSpend
<1>3. ASSUME NEW c \in Callers, Bind(c) PROVE SpendInv'
  <2>1. CASE Take(c, ClaimEntry(ledger, RunOf[c]))
    <3>1. \A r \in ClaimEntry(ledger, RunOf[c]) : r.kind # "settled"
      BY DEF ClaimEntry, ClaimRecord
    <3>2. QED BY <1>0, <2>1, <3>1, TakeKeepsSpend
  <2>2. CASE pc' = [pc EXCEPT ![c] = "ready"]
             /\ UNCHANGED <<ledger, torn, stable, lock, entry, call, wire, report>>
    <3>1. \A q \in Procs : pc'[q] = "writing" => pc[q] = "writing"
      BY <1>0, <2>2
    <3>2. QED BY <2>2, <3>1, QuietKeepsSpend
  <2>3. QED BY <1>3, <2>1, <2>2 DEF Bind
<1>4. ASSUME NEW c \in Callers, Deny(c) PROVE SpendInv'
  <2>1. \A r \in RefuseEntry(ledger, RunOf[c]) : r.kind # "settled"
    BY DEF RefuseEntry, RefusedRecord
  <2>2. QED BY <1>0, <1>4, <2>1, TakeKeepsSpend DEF Deny
<1>5. ASSUME NEW c \in Callers, Settle(c) PROVE SpendInv'
  <2> DEFINE entries == SettleEntry(ledger, RunOf[c], call[c], wire[call[c]])
  <2>1. \A r \in entries : r.seq = call[c] /\ r.usage = wire[call[c]]
    BY DEF SettleEntry, SettledRecord
  <2>2. call[c] \in DOMAIN wire /\ Take(c, entries)
    BY <1>5 DEF Settle
  <2> HIDE DEF entries
  <2>3. QED BY <1>0, <2>1, <2>2, TakeKeepsSpend
<1>6. ASSUME NEW c \in Callers, NEW limit \in Limits, Admit(c, limit) PROVE SpendInv'
  <2>1. \A r \in AdmitEntry(ledger, RunOf[c], limit) : r.kind # "settled"
    BY DEF AdmitEntry, AdmittedRecord, RefusedRecord
  <2>2. QED BY <1>0, <1>6, <2>1, TakeKeepsSpend DEF Admit
<1>7. ASSUME Seal PROVE SpendInv'
  <2>1. \A r \in SealEntry(ledger, RunOf[Harness]) : r.kind # "settled"
    BY DEF SealEntry, SealedRecord
  <2>2. QED BY <1>0, <1>7, <2>1, TakeKeepsSpend DEF Seal
<1>8. ASSUME NEW c \in Callers, Send(c) PROVE SpendInv'
  BY <1>8, SendKeepsSpend
<1>9. ASSUME UNCHANGED <<stable, pc, entry, wire>> PROVE SpendInv'
  BY <1>9, QuietKeepsSpend
<1>10. ASSUME PowerLoss PROVE SpendInv'
  <2>1. UNCHANGED wire /\ stable' \subseteq stable /\ pc' = [p \in Procs |-> "down"]
    BY <1>10 DEF PowerLoss
  <2>2. \A p \in Procs : pc'[p] # "writing"
    BY <2>1
  <2>3. QED BY <2>1, <2>2, QuietKeepsSpend
<1>11. QED
  BY <1>1, <1>2, <1>3, <1>4, <1>5, <1>6, <1>7, <1>8, <1>9, <1>10
  DEF Next, EndCall, Attest, vars

\* The wire's requests are settled at their charge or hold a reservation.
LEMMA SpendInvCovers == IInv /\ SpendInv => SpendCovered
<1> SUFFICES ASSUME IInv, SpendInv, NEW s \in stable
             PROVE  Spent <= UpperCost(s)
  BY DEF SpendCovered
<1>1. s \in LedgerStates /\ s.settled \subseteq 1..Len(s.limits) /\ Matches(s)
  BY DEF IInv, Accounts, GoodLedger, SpendInv
<1>2. s.limits \in Seq(Limits) /\ Len(s.limits) \in Nat /\ s.settledUpper \in Nat
  BY <1>1 DEF LedgerStates
<1> DEFINE open == DOMAIN wire \ s.settled
           n == Len(s.limits)
           k == Cardinality(s.settled)
           m == Cardinality(open)
           reserved == [q \in open |-> Reservation]
<1>3. IsFiniteSet(s.settled) /\ k \in Nat /\ k <= n
  BY <1>1, SettledFinite
<1>4. IsFiniteSet(open) /\ m \in Nat
  BY WireFinite, FS_Subset, FS_CardinalityType
<1>5. m <= n - k
  <2>1. DOMAIN wire \subseteq 1..n
    BY <1>2 DEF IInv, WireAdmitted
  <2>2. open \subseteq (1..n) \ s.settled
    BY <2>1
  <2>3. IsFiniteSet(1..n) /\ Cardinality(1..n) = n
    BY <1>2, FS_Interval
  <2>4. (1..n) \intersect s.settled = s.settled
    BY <1>1
  <2>5. /\ IsFiniteSet((1..n) \ s.settled)
        /\ Cardinality((1..n) \ s.settled) = n - k
    BY <2>3, <2>4, FS_Difference
  <2> HIDE DEF n, open
  <2>6. QED BY <2>2, <2>5, FS_Subset DEF m
<1>6. /\ \A q \in DOMAIN wire : Charges[q] \in Int /\ Charges[q] <= Reservation
      /\ DOMAIN Charges = DOMAIN wire
  BY ChargesBounded DEF Charges
<1>7. Spent = SumFunctionOnSet(Charges, s.settled) + SumFunctionOnSet(Charges, open)
  <2>1. s.settled \union open = DOMAIN wire /\ s.settled \intersect open = {}
    BY <1>1 DEF Matches
  <2>2. \A q \in s.settled \union open : Charges[q] \in Int
    BY <1>6, <2>1
  <2>3. Spent = SumFunctionOnSet(Charges, s.settled \union open)
    BY <1>6, <2>1 DEF Spent, SumFunction
  <2> HIDE DEF open
  <2>4. QED BY <1>3, <1>4, <2>1, <2>2, <2>3, SumOfUnion
<1>8. SumFunctionOnSet(Charges, open) <= m * Reservation
  <2>1. \A q \in open : /\ Charges[q] \in Int /\ reserved[q] \in Int
                        /\ Charges[q] <= reserved[q] /\ reserved[q] = Reservation
    BY <1>6, ReservationNat
  <2> HIDE DEF open, reserved
  <2>2. SumFunctionOnSet(Charges, open) <= SumFunctionOnSet(reserved, open)
    BY <1>4, <2>1, SumAtMost
  <2>3. SumFunctionOnSet(reserved, open) = m * Reservation
    BY <1>4, <2>1, ReservationNat, SumOfConstant
  <2>4. QED BY <2>2, <2>3
<1>9. m * Reservation <= (n - k) * Reservation
  <2>1. \A a, b, d \in Nat : a <= b => a * d <= b * d
    OBVIOUS
  <2>2. n - k \in Nat
    BY <1>2, <1>3
  <2> HIDE DEF n, k, m
  <2>3. QED BY <1>4, <1>5, <2>1, <2>2, ReservationNat
<1>10. SumFunctionOnSet(Charges, open) \in Int
  <2>1. \A q \in open : Charges[q] \in Int
    BY <1>6
  <2> HIDE DEF open
  <2>2. QED BY <1>4, <2>1, SumInt
<1>11. UpperCost(s) = s.settledUpper + (n - k) * Reservation
  BY DEF UpperCost, Outstanding
<1>12. m * Reservation \in Int /\ (n - k) * Reservation \in Int
  <2> HIDE DEF m
  <2>1. QED BY <1>2, <1>3, <1>4, ReservationNat
<1>13. Spent = s.settledUpper + SumFunctionOnSet(Charges, open)
  BY <1>1, <1>7 DEF Matches
<1> HIDE DEF open, n, k, m
<1>14. QED BY <1>2, <1>8, <1>9, <1>10, <1>11, <1>12, <1>13

\* The provider never uses up more than the upper cost the ledger accounts for,
\* through failed, late and lost settlements, deaths and losses of power.
THEOREM SpendStaysCovered == Spec => []SpendCovered
<1>1. Spec => []SpendInv
  BY InitSpend, NextSpend, Invariance, PTL DEF Spec
<1>2. QED BY <1>1, SpendInvCovers, Invariance, PTL

\* The purpose of the ledger, end to end: the provider receives no more requests
\* than were approved, and all they use together costs no more than the approved
\* dollars (SpendBound), whatever processes, disk and power do.
ApprovedIsKept ==
  /\ IsFiniteSet(DOMAIN wire) /\ Cardinality(DOMAIN wire) <= MaxAttempts
  /\ Spent <= MaxTotal

LEMMA InvariantsKeepApproval == IInv /\ SpendCovered => ApprovedIsKept
<1> SUFFICES ASSUME IInv, SpendCovered PROVE ApprovedIsKept
  OBVIOUS
<1>1. PICK n \in Nat : /\ n = Len(ledger.limits) /\ n <= MaxAttempts
                       /\ DOMAIN ledger.limits = 1..n
  BY DEF IInv, TypeOK, Accounts, GoodLedger, LedgerStates
<1>2. /\ UpperCost(ledger) <= MaxTotal /\ ledger # Unreadable
      /\ Spent <= UpperCost(ledger)
  BY SentinelAssumption DEF IInv, TypeOK, Accounts, GoodLedger, SpendCovered
<1>3. DOMAIN wire \subseteq 1..n
  BY <1>1 DEF IInv, TypeOK, WireAdmitted
<1>4. IsFiniteSet(1..n) /\ Cardinality(1..n) = n
  BY <1>1, FS_Interval
<1>5. /\ IsFiniteSet(DOMAIN wire) /\ Cardinality(DOMAIN wire) <= n
      /\ Cardinality(DOMAIN wire) \in Nat
  BY <1>3, <1>4, FS_Subset, FS_CardinalityType
<1>6. Spent \in Int
  <2>1. \A q \in DOMAIN wire : Charges[q] \in Int
    BY ChargesBounded DEF Charges, IInv
  <2>2. Spent = SumFunctionOnSet(Charges, DOMAIN wire)
    BY DEF Spent, SumFunction, Charges
  <2> QED BY <1>5, <2>1, <2>2, SumInt
<1>7. UpperCost(ledger) \in Int
  <2>1. ledger \in LedgerStates /\ ledger.settled \subseteq 1..n
    BY <1>1 DEF IInv, TypeOK, Accounts, GoodLedger
  <2>2. Cardinality(ledger.settled) \in Nat
    BY <1>4, <2>1, FS_Subset, FS_CardinalityType
  <2> QED BY <1>1, <2>1, <2>2, ReservationNat DEF UpperCost, Outstanding, LedgerStates
<1>8. MaxAttempts \in Int /\ MaxTotal \in Int
  BY BindingAssumption
<1> QED BY <1>1, <1>2, <1>5, <1>6, <1>7, <1>8 DEF ApprovedIsKept

\* At every moment of every behaviour the provider's requests and their cost are
\* within what was approved.
THEOREM ApprovalIsKept == Spec => []ApprovedIsKept
BY InvariantsKeepApproval, SpendStaysCovered, Invariance, PTL
================================================================================
