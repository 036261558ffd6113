--------------------------- MODULE AnalystLoopProofs ---------------------------
(******************************************************************************)
(* Theorems about AnalystLoop for any limits the settings admit, any costs and *)
(* any durations.  The invariant has a part per resource: the calls that are   *)
(* still free (Room), the time that has passed (InTime), the slots that cover  *)
(* the calls (Covered), the tools of the round (Counted), and what a turn that *)
(* has not begun or has not settled has not touched (Fresh, Unsettled).        *)
(******************************************************************************)
EXTENDS AnalystLoop, Sums

--------------------------------------------------------------------------------
Investigating == {"action", "tools", "running", "answered", "review", "repair",
                  "fallbackWithin"}

Fresh ==
  stage \in {"prepare", "run"} =>
    /\ reservations = <<>> /\ costs = <<>>
    /\ rounds = 0 /\ toolCount = 0 /\ todo = 0 /\ ~ retried

\* Nothing is settled before the end, and nothing is called after it.
Unsettled ==
  settled # <<>> =>
    stage \in {"settle", "cancelled", "commit", "committed", "abort", "over"}

\* The calls whose slots belong to the first m reservations.
Upto(m) == { k \in 1..calls : k <= Before(m + 1) }

\* The settlement is at one of the reservations: what came before is settled.
SettledUpTo ==
  /\ Len(settled) <= Len(reservations)
  /\ Total(settled) = Bill(Upto(Len(settled)))
  /\ stage \in {"commit", "committed"} => Len(settled) = Len(reservations)

\* Every call has a slot.
Covered == calls <= Slots

Counted == stage = "running" => toolCount + todo <= MaxToolCalls

\* When the investigation ends is set when it begins; what follows it leaves the
\* margin, or starts without it.
InTime ==
  /\ stage \in Investigating =>
       /\ began <= elapsed /\ elapsed <= cutoff
       /\ cutoff = Most(began, Deadline - Finalization)
  /\ stage \in {"fallback", "settle"} => elapsed <= Most(Deadline - Margin, began)

\* An action asked for once costs a call of the round to come; asked for twice it
\* leaves three, of which it takes one.
Room ==
  MaxModelCalls >= MaxToolRounds + 3 =>
    /\ stage = "action" /\ ~ retried =>
         /\ calls + (MaxToolRounds - rounds) <= MaxModelCalls - 2
         /\ rounds = 0 => calls = 0
    /\ stage = "action" /\ retried =>
         /\ calls <= MaxModelCalls - 3
         /\ rounds = 0 => calls = 1
    /\ stage = "tools" =>
         /\ calls + (MaxToolRounds - rounds) <= MaxModelCalls - 1
         /\ ~ retried
    /\ stage = "running" =>
         /\ calls + (MaxToolRounds - rounds) <= MaxModelCalls - 2
         /\ rounds # 0 /\ ~ retried
    /\ stage \in {"answered", "review"} /\ wording = "proposed" =>
         calls < MaxModelCalls

\* There is an answer to review.
Worded == stage \in {"answered", "review"} => wording \in {"proposed", "repaired"}

LInv ==
  /\ TypeOK /\ Fresh /\ Unsettled /\ Covered /\ Counted /\ InTime /\ Room /\ Worded
  /\ PublishedWasReviewed /\ SettledUpTo

--------------------------------------------------------------------------------
(* Slots and calls.                                                           *)

LEMMA SumOfAppend ==
  ASSUME NEW r \in Seq(Nat), NEW n \in Nat
  PROVE  /\ Append(r, n) \in Seq(Nat) /\ Total(r) \in Nat
         /\ Total(Append(r, n)) = Total(r) + n
<1> DEFINE q == Append(r, n)
           D == DOMAIN r
           e == Len(r) + 1
<1>1. /\ q \in Seq(Nat) /\ D = 1..Len(r) /\ DOMAIN q = D \union {e} /\ e \notin D
      /\ q[e] = n /\ \A i \in D : q[i] = r[i] /\ r[i] \in Nat
  OBVIOUS
<1>2. IsFiniteSet(D)
  BY <1>1, FS_Interval
<1> HIDE DEF q, D, e
<1>3. \A i \in D : r[i] \in Int /\ q[i] = r[i]
  BY <1>1
<1>4. SumFunctionOnSet(q, D \union {e}) = SumFunctionOnSet(r, D) + q[e]
  BY <1>1, <1>2, <1>3, SumExtend
<1>5. SumFunctionOnSet(r, D) \in Int /\ 0 <= SumFunctionOnSet(r, D)
  BY <1>1, <1>2, <1>3, SumInt, SumNotNegative
<1>6. Total(r) = SumFunctionOnSet(r, D) /\ Total(q) = SumFunctionOnSet(q, D \union {e})
  BY <1>1 DEF Total, SumFunction, D
<1>7. QED BY <1>1, <1>4, <1>5, <1>6 DEF q

LEMMA ReserveAdds ==
  ASSUME TypeOK, NEW n \in Nat, Reserve(n)
  PROVE  Slots' = Slots + n /\ reservations' \in Seq(Nat)
BY SumOfAppend DEF TypeOK, Reserve, Slots

LEMMA SlotsNat == ASSUME TypeOK PROVE Slots \in Nat /\ calls \in Nat
BY SumOfAppend DEF TypeOK, Slots, calls

\* A slot is there for the next call.
LEMMA SlotTaken ==
  ASSUME TypeOK, Covered, TakeSlot
  PROVE  reservations' \in Seq(Nat) /\ calls + 1 <= Slots' /\ Slots' \in Nat
<1>1. Slots \in Nat /\ calls \in Nat /\ calls <= Slots
  BY SlotsNat DEF Covered
<1>2. CASE calls >= Slots
  <2>1. Slots' = Slots + 1 /\ reservations' \in Seq(Nat)
    BY <1>2, ReserveAdds DEF TakeSlot
  <2>2. QED BY <1>1, <2>1
<1>3. CASE ~ (calls >= Slots)
  <2>1. reservations' = reservations
    BY <1>3 DEF TakeSlot
  <2>2. Slots' = Slots
    BY <2>1 DEF Slots
  <2>3. QED BY <1>1, <1>3, <2>1, <2>2 DEF TypeOK
<1>4. QED BY <1>2, <1>3

LEMMA TwoKept ==
  ASSUME TypeOK, Covered, KeepTwo, costs' = costs
  PROVE  reservations' \in Seq(Nat) /\ Covered'
<1>1. Slots \in Nat /\ calls \in Nat /\ calls <= Slots /\ calls' = calls
  BY SlotsNat DEF Covered, calls
<1>2. CASE Available < 2
  <2>1. 2 - Available \in Nat
    BY <1>1, <1>2 DEF Available
  <2>2. Slots' = Slots + (2 - Available) /\ reservations' \in Seq(Nat)
    BY <1>2, <2>1, ReserveAdds DEF KeepTwo
  <2>3. QED BY <1>1, <2>1, <2>2 DEF Covered
<1>3. CASE ~ (Available < 2)
  <2>1. reservations' = reservations
    BY <1>3 DEF KeepTwo
  <2>2. Slots' = Slots
    BY <2>1 DEF Slots
  <2>3. QED BY <1>1, <2>1, <2>2 DEF TypeOK, Covered
<1>4. QED BY <1>2, <1>3

\* A call that is recorded.
LEMMA CallAdds ==
  ASSUME TypeOK, NEW c \in Costs \union {Unknown}, costs' = Append(costs, c)
  PROVE  costs' \in Seq(Costs \union {Unknown}) /\ calls' = calls + 1
BY DEF TypeOK, calls

\* What request_model leaves behind, whatever it returns or raises.
LEMMA Requested ==
  ASSUME TypeOK, Covered, elapsed <= cutoff, NEW result, Request(result)
  PROVE  /\ reservations' \in Seq(Nat) /\ costs' \in Seq(Costs \union {Unknown})
         /\ calls' \in {calls, calls + 1} /\ calls' <= MaxModelCalls /\ Covered'
         /\ elapsed' \in 0..Deadline /\ elapsed <= elapsed' /\ elapsed' <= cutoff
         /\ slowest' \in Nat
         /\ result \in {"value", "malformed"} => calls' = calls + 1
<1>0. /\ Slots \in Nat /\ calls \in Nat /\ calls <= Slots /\ calls <= MaxModelCalls
      /\ elapsed \in 0..Deadline /\ cutoff \in 0..Deadline /\ slowest \in Nat
      /\ patience \in Nat /\ Deadline \in Nat /\ RequestTimeout \in Nat
      /\ reservations \in Seq(Nat) /\ costs \in Seq(Costs \union {Unknown})
      /\ MaxModelCalls \in Nat
  BY SlotsNat, LoopAssumption DEF TypeOK, Covered
<1>1. CASE /\ UNCHANGED <<reservations, costs, elapsed, slowest>>
           /\ result \notin {"value", "malformed"}
  <2>1. calls' = calls /\ Slots' = Slots
    BY <1>1 DEF calls, Slots
  <2>2. QED BY <1>0, <1>1, <2>1 DEF Covered
<1>2. CASE DoesNotFit(result)
  <2>1. /\ TakeSlot /\ UNCHANGED <<costs, elapsed, slowest>>
        /\ result \notin {"value", "malformed"}
    BY <1>2 DEF DoesNotFit
  <2>2. calls' = calls
    BY <2>1 DEF calls
  <2>3. reservations' \in Seq(Nat) /\ calls + 1 <= Slots' /\ Slots' \in Nat
    BY <2>1, SlotTaken
  <2>4. QED BY <1>0, <2>1, <2>2, <2>3 DEF Covered
<1>3. CASE ~ LimitReached /\ (Called(result) \/ TimedOut(result))
  <2>1. calls < MaxModelCalls /\ Remaining > 0
    BY <1>0, <1>3 DEF LimitReached, Remaining
  <2>2. TakeSlot /\ \E c \in Costs \union {Unknown} : costs' = Append(costs, c)
    BY <1>3 DEF Called, TimedOut
  <2>3. /\ costs' \in Seq(Costs \union {Unknown}) /\ calls' = calls + 1
        /\ reservations' \in Seq(Nat) /\ calls + 1 <= Slots' /\ Slots' \in Nat
    BY <2>2, CallAdds, SlotTaken
  <2>4. /\ elapsed' \in 0..Deadline /\ elapsed <= elapsed' /\ elapsed' <= cutoff
        /\ slowest' \in Nat
    <3>1. CASE Called(result)
      <4>1. PICK d \in Durations : /\ Passes(d, cutoff)
                                   /\ slowest' = Most(slowest, d)
        BY <3>1 DEF Called
      <4>2. d \in Nat
        BY LoopAssumption
      <4>3. QED BY <1>0, <4>1, <4>2 DEF Passes, Most
    <3>2. CASE TimedOut(result)
      <4>1. CallTimeout \in Nat
        BY <1>0, <2>1 DEF CallTimeout, Least, Remaining
      <4>2. \/ elapsed' = Most(elapsed, cutoff)
            \/ elapsed + CallTimeout <= cutoff /\ elapsed' = elapsed + CallTimeout
        BY <3>2 DEF TimedOut, CutAt, Passes
      <4>3. elapsed' \in 0..Deadline /\ elapsed <= elapsed' /\ elapsed' <= cutoff
        BY <1>0, <4>1, <4>2 DEF Most
      <4>4. QED BY <1>0, <3>2, <4>3 DEF TimedOut
    <3>3. QED BY <1>3, <3>1, <3>2
  <2>5. QED BY <1>0, <2>1, <2>3, <2>4 DEF Covered
<1>4. QED BY <1>1, <1>2, <1>3 DEF Request, NotAdmitted, ledger

--------------------------------------------------------------------------------
(* The settlement.                                                            *)

PriceList == [k \in 1..calls |-> PriceOf(k)]

LEMMA Prices ==
  ASSUME TypeOK
  PROVE  /\ IsFiniteSet(1..calls) /\ \A k \in 1..calls : PriceList[k] \in Nat
         /\ \A S \in SUBSET (1..calls) :
              Bill(S) = SumFunctionOnSet(PriceList, S) /\ Bill(S) \in Nat
<1>1. IsFiniteSet(1..calls) /\ calls \in Nat
  BY FS_Interval, SlotsNat
<1>2. \A k \in 1..calls : PriceList[k] = PriceOf(k) /\ PriceOf(k) \in Nat
  <2>1. \A k \in 1..calls : costs[k] \in Costs \union {Unknown}
    BY DEF TypeOK, calls
  <2>2. \A k \in 1..calls : PriceOf(k) \in Nat
    BY <2>1, LoopAssumption DEF PriceOf
  <2>3. QED BY <2>2 DEF PriceList
<1>3. ASSUME NEW S \in SUBSET (1..calls)
      PROVE  Bill(S) = SumFunctionOnSet(PriceList, S) /\ Bill(S) \in Nat
  <2> DEFINE f == [k \in S |-> PriceOf(k)]
  <2>1. IsFiniteSet(S)
    BY <1>1, FS_Subset
  <2>2. \A k \in S : f[k] = PriceList[k] /\ f[k] \in Int /\ f[k] \in Nat
    BY <1>2
  <2>3. Bill(S) = SumFunctionOnSet(f, S)
    BY DEF Bill, Total, SumFunction
  <2> HIDE DEF f
  <2>4. /\ SumFunctionOnSet(f, S) = SumFunctionOnSet(PriceList, S)
        /\ SumFunctionOnSet(f, S) \in Int /\ 0 <= SumFunctionOnSet(f, S)
    BY <2>1, <2>2, SumSame, SumInt, SumNotNegative
  <2>5. QED BY <2>3, <2>4
<1>4. QED BY <1>1, <1>2, <1>3

\* The slots before a reservation end where those of the one before it do.
LEMMA SlotsBefore ==
  ASSUME TypeOK
  PROVE  /\ Before(1) = 0 /\ Before(Len(reservations) + 1) = Slots
         /\ \A i \in 1..Len(reservations) :
              /\ Before(i) \in Nat
              /\ Before(i + 1) = Before(i) + reservations[i]
<1> DEFINE N == Len(reservations)
<1>1. /\ N \in Nat /\ DOMAIN reservations = 1..N
      /\ \A i \in 1..N : reservations[i] \in Nat
  BY DEF TypeOK
<1>2. ASSUME NEW m \in 0..N
      PROVE  /\ Before(m + 1) = SumFunctionOnSet(reservations, 1..m)
             /\ Before(m + 1) \in Nat
  <2> DEFINE f == [j \in 1..m |-> reservations[j]]
  <2>1. IsFiniteSet(1..m) /\ (m + 1) - 1 = m
    BY FS_Interval
  <2>2. \A j \in 1..m : f[j] = reservations[j] /\ f[j] \in Int /\ f[j] \in Nat
    BY <1>1
  <2>3. Before(m + 1) = SumFunctionOnSet(f, 1..m)
    BY <2>1 DEF Before, Total, SumFunction
  <2> HIDE DEF f
  <2>4. /\ SumFunctionOnSet(f, 1..m) = SumFunctionOnSet(reservations, 1..m)
        /\ SumFunctionOnSet(f, 1..m) \in Int /\ 0 <= SumFunctionOnSet(f, 1..m)
    BY <2>1, <2>2, SumSame, SumInt, SumNotNegative
  <2>5. QED BY <2>3, <2>4
<1>3. Before(1) = 0
  <2>1. 1..0 = {} /\ 0 + 1 = 1 /\ 0 \in 0..N
    BY <1>1
  <2>2. Before(0 + 1) = SumFunctionOnSet(reservations, 1..0)
    BY <1>2, <2>1
  <2>3. QED BY <2>1, <2>2, SumEmpty
<1>4. Before(N + 1) = Slots
  <2>1. Before(N + 1) = SumFunctionOnSet(reservations, 1..N)
    BY <1>1, <1>2
  <2>2. Slots = SumFunctionOnSet(reservations, 1..N)
    BY <1>1 DEF Slots, Total, SumFunction
  <2>3. QED BY <2>1, <2>2
<1>5. ASSUME NEW i \in 1..N
      PROVE  Before(i) \in Nat /\ Before(i + 1) = Before(i) + reservations[i]
  <2>1. /\ i - 1 \in 0..N /\ (i - 1) + 1 = i /\ i \in 0..N
        /\ 1..i = 1..(i - 1) \union {i} /\ i \notin 1..(i - 1)
    OBVIOUS
  <2>2. /\ Before(i) = SumFunctionOnSet(reservations, 1..(i - 1)) /\ Before(i) \in Nat
        /\ Before(i + 1) = SumFunctionOnSet(reservations, 1..i)
    <3> HIDE DEF N
    <3>1. /\ Before((i - 1) + 1) = SumFunctionOnSet(reservations, 1..(i - 1))
          /\ Before((i - 1) + 1) \in Nat
      BY <1>2, <2>1
    <3>2. QED BY <1>2, <2>1, <3>1
  <2>3. IsFiniteSet(1..(i - 1))
        /\ \A x \in 1..(i - 1) \union {i} : reservations[x] \in Int
    <3>1. IsFiniteSet(1..(i - 1))
      BY FS_Interval
    <3>2. 1..(i - 1) \union {i} \subseteq 1..N
      OBVIOUS
    <3>3. QED BY <1>1, <3>1, <3>2
  <2>4. SumFunctionOnSet(reservations, 1..(i - 1) \union {i})
          = reservations[i] + SumFunctionOnSet(reservations, 1..(i - 1))
    <3> DEFINE S == 1..(i - 1)
    <3>1. IsFiniteSet(S) /\ i \notin S /\ \A x \in S \union {i} : reservations[x] \in Int
      BY <2>1, <2>3
    <3> HIDE DEF S
    <3>2. SumFunctionOnSet(reservations, S \union {i})
            = reservations[i] + SumFunctionOnSet(reservations, S)
      BY <3>1, SumAdd
    <3>3. QED BY <3>2 DEF S
  <2>5. SumFunctionOnSet(reservations, 1..i)
          = reservations[i] + SumFunctionOnSet(reservations, 1..(i - 1))
    BY <2>1, <2>4
  <2>6. QED BY <1>1, <2>2, <2>5
<1>6. QED BY <1>3, <1>4, <1>5

\* The slices follow each other: what one settlement adds is the bill of the next
\* calls, and the last leaves none.
LEMMA SettlementAdds ==
  ASSUME TypeOK, NEW m \in 0..(Len(reservations) - 1)
  PROVE  /\ Bill(Slice(m + 1)) \in Nat
         /\ Bill(Upto(m + 1)) = Bill(Upto(m)) + Bill(Slice(m + 1))
<1>0. /\ m + 1 \in 1..Len(reservations) /\ m \in Nat /\ calls \in Nat
      /\ reservations[m + 1] \in Nat
  BY SlotsNat DEF TypeOK
<1>1. /\ Before(m + 1) \in Nat
      /\ Before((m + 1) + 1) = Before(m + 1) + reservations[m + 1]
  BY <1>0, SlotsBefore
<1> DEFINE A == Upto(m)
           B == Slice(m + 1)
<1>2. /\ A \in SUBSET (1..calls) /\ B \in SUBSET (1..calls)
      /\ A \union B \in SUBSET (1..calls) /\ A \intersect B = {}
      /\ Upto(m + 1) = A \union B
  BY <1>0, <1>1 DEF Upto, Slice
<1> HIDE DEF A, B
<1>3. IsFiniteSet(A) /\ IsFiniteSet(B)
      /\ \A x \in A \union B : PriceList[x] \in Int
  <2>1. IsFiniteSet(1..calls) /\ \A k \in 1..calls : PriceList[k] \in Nat
    BY Prices
  <2>2. IsFiniteSet(A) /\ IsFiniteSet(B)
    BY <1>2, <2>1, FS_Subset
  <2>3. QED BY <1>2, <2>1, <2>2
<1>4. SumFunctionOnSet(PriceList, A \union B)
        = SumFunctionOnSet(PriceList, A) + SumFunctionOnSet(PriceList, B)
  BY <1>2, <1>3, SumOfUnion
<1>5. /\ Bill(A) = SumFunctionOnSet(PriceList, A)
      /\ Bill(B) = SumFunctionOnSet(PriceList, B) /\ Bill(B) \in Nat
      /\ Bill(A \union B) = SumFunctionOnSet(PriceList, A \union B)
  BY <1>2, Prices
<1>6. QED BY <1>2, <1>4, <1>5 DEF A, B

\* Every call has a slot: those of all reservations are all the calls.
LEMMA AllSettled ==
  ASSUME TypeOK, Covered
  PROVE  Upto(Len(reservations)) = 1..calls
BY SlotsBefore, SlotsNat DEF Covered, Upto

--------------------------------------------------------------------------------
(* The invariant: the beginning, and what the actions have in common.         *)

\* The settlement and what follows it.
Ends == {"settle", "cancelled", "commit", "committed", "abort", "over"}

\* Nothing is settled yet: the account of the settlement is empty.
NoneSettled ==
  settled = <<>> /\ reservations \in Seq(Nat) /\ stage \notin {"commit", "committed"}

LEMMA NothingSettled == NoneSettled => SettledUpTo
<1> SUFFICES ASSUME NoneSettled PROVE SettledUpTo
  OBVIOUS
<1> USE DEF NoneSettled
<1>1. Before(1) = 0
  <2>1. 1..(1 - 1) = {}
    OBVIOUS
  <2>2. SumFunction([j \in {} |-> reservations[j]]) = 0
    BY SumEmpty DEF SumFunction
  <2>3. QED BY <2>1, <2>2 DEF Before, Total
<1>2. Upto(0) = {}
  <2>1. 0 + 1 = 1 /\ \A k \in 1..calls : ~ (k <= 0)
    BY DEF calls
  <2>2. QED BY <1>1, <2>1 DEF Upto
<1>3. Bill({}) = 0
  BY SumEmpty DEF Bill, Total, SumFunction
<1>4. Total(settled) = 0
  <2>1. DOMAIN settled = {}
    OBVIOUS
  <2>2. QED BY <2>1, SumEmpty DEF Total, SumFunction
<1>5. Len(settled) = 0 /\ 0 <= Len(reservations)
  OBVIOUS
<1>6. QED BY <1>2, <1>3, <1>4, <1>5 DEF SettledUpTo

LEMMA NothingSettledThen == NoneSettled' => SettledUpTo'
BY NothingSettled, PTL

LEMMA InitLInv == Init => LInv
<1> SUFFICES ASSUME Init PROVE LInv
  OBVIOUS
<1>0. /\ stage = "prepare" /\ turn \in [mode : Modes, session : BOOLEAN]
      /\ trial = FALSE /\ elapsed = 0 /\ began = 0 /\ cutoff = 0
      /\ reservations = <<>> /\ costs = <<>> /\ settled = <<>>
      /\ rounds = 0 /\ toolCount = 0 /\ todo = 0 /\ retried = FALSE
      /\ wording = None /\ approved = {} /\ patience = Forever /\ slowest = 0
      /\ recoveryRan = FALSE /\ facts = FALSE /\ published = None
  BY DEF Init
<1>1. calls = 0 /\ Slots = 0
  <2>1. DOMAIN reservations = {}
    BY <1>0
  <2>2. SumFunctionOnSet(reservations, {}) = 0
    BY SumEmpty
  <2>3. QED BY <1>0, <2>1, <2>2 DEF calls, Slots, Total, SumFunction
<1>2. TypeOK
  <2>1. /\ stage \in {"prepare", "run"} /\ turn \in [mode : Modes, session : BOOLEAN]
        /\ wording \in {None} /\ approved \subseteq {} /\ published \in {None}
    BY <1>0
  <2>2. /\ reservations \in Seq(Nat) /\ costs \in Seq(Costs \union {Unknown})
        /\ settled \in Seq(Nat)
    BY <1>0
  <2>3. /\ elapsed \in 0..Deadline /\ began \in 0..Deadline /\ cutoff \in 0..Deadline
        /\ slowest \in Nat /\ calls <= MaxModelCalls /\ rounds \in 0..MaxToolRounds
        /\ toolCount \in 0..MaxToolCalls /\ todo \in 0..MaxTools /\ patience \in Nat
    BY <1>0, <1>1, LoopAssumption DEF Forever
  <2>4. QED BY <1>0, <2>1, <2>2, <2>3 DEF TypeOK
<1>3. Fresh /\ Unsettled /\ Covered /\ Counted /\ InTime
  BY <1>0, <1>1 DEF Fresh, Unsettled, Covered, Counted, InTime, Investigating
<1>4. Room /\ Worded /\ PublishedWasReviewed
  BY <1>0 DEF Room, Worded, PublishedWasReviewed
<1>5. SettledUpTo
  BY <1>0, <1>2, NothingSettled DEF NoneSettled, TypeOK
<1>6. QED BY <1>2, <1>3, <1>4, <1>5 DEF LInv

\* The ledger stands still.
LEMMA SameLedger ==
  ASSUME TypeOK, Covered, UNCHANGED <<reservations, costs>>
  PROVE  /\ calls' = calls /\ Slots' = Slots /\ Covered'
         /\ calls \in Nat /\ Slots \in Nat
BY SlotsNat DEF calls, Slots, Covered

\* Before the settlement nothing is settled, and no step but settle changes that.
LEMMA NotSettledYet ==
  ASSUME Unsettled, stage \notin Ends, settled' = settled, TypeOK',
         stage' \notin {"commit", "committed"}
  PROVE  settled = <<>> /\ Unsettled' /\ SettledUpTo'
BY NothingSettledThen DEF NoneSettled, Unsettled, Ends, TypeOK

\* What the end leaves alone stays settled at its cost.
LEMMA StaysSettled ==
  ASSUME SettledUpTo, UNCHANGED <<settled, costs, reservations>>,
         stage' \in {"commit", "committed"} => Len(settled) = Len(reservations)
  PROVE  SettledUpTo'
BY DEF SettledUpTo, Upto, Before, Bill, PriceOf, calls, Total

\* The numbers an action reads.
LEMMA Numbers ==
  ASSUME TypeOK
  PROVE  /\ Slots \in Nat /\ calls \in Nat /\ elapsed \in 0..Deadline
         /\ began \in 0..Deadline /\ cutoff \in 0..Deadline /\ slowest \in Nat
         /\ rounds \in 0..MaxToolRounds /\ toolCount \in 0..MaxToolCalls
         /\ todo \in 0..MaxTools /\ patience \in Nat /\ MaxModelCalls \in Nat
         /\ MaxToolRounds \in {1, 2} /\ MaxToolCalls \in Nat
         /\ MaxTools \in Nat \ {0} /\ Deadline \in Nat /\ Margin \in Nat
         /\ Finalization \in Nat /\ Margin <= Finalization /\ Finalization <= Deadline
         /\ RequestTimeout \in Nat \ {0} /\ RetryTime \in Nat /\ Forever \in Nat
BY SlotsNat, LoopAssumption DEF TypeOK, Forever

\* What is inside the investigation leaves the margin.
LEMMA KeepsInTime ==
  ASSUME TypeOK, elapsed' \in 0..Deadline, elapsed <= elapsed', elapsed' <= cutoff,
         began <= elapsed, UNCHANGED <<began, cutoff>>,
         cutoff = Most(began, Deadline - Finalization)
  PROVE  InTime'
<1>1. /\ began \in 0..Deadline /\ Deadline \in Nat /\ Margin \in Nat
      /\ Finalization \in Nat /\ Margin <= Finalization /\ elapsed \in 0..Deadline
  BY Numbers
<1>2. began' <= elapsed' /\ elapsed' <= cutoff' /\ cutoff' = Most(began', Deadline - Finalization)
  BY <1>1
<1>3. elapsed' <= Most(Deadline - Margin, began')
  BY <1>1, <1>2 DEF Most
<1>4. QED BY <1>2, <1>3 DEF InTime

--------------------------------------------------------------------------------
(* Before the loop.                                                           *)

LEMMA PrepareKeeps == ASSUME LInv, Prepare PROVE LInv'
<1>0. /\ stage = "prepare" /\ stage' \in {"run", "abort"}
      /\ UNCHANGED <<turn, trial, began, cutoff, reservations, costs, settled, rounds,
                     toolCount, todo, retried, wording, approved, patience, slowest,
                     recoveryRan, facts, published>>
  BY DEF Prepare, request, window, ledger, investigated, answering, outcome
<1>1. TypeOK /\ Fresh /\ Unsettled /\ Covered /\ PublishedWasReviewed
  BY DEF LInv
<1>2. calls' = calls /\ Covered'
  BY <1>0, <1>1, SameLedger
<1>3. elapsed' \in 0..Deadline
  <2>1. PICK d \in Durations : Passes(d, Deadline) \/ CutAt(d, Deadline)
    BY DEF Prepare
  <2>2. d \in Nat
    BY LoopAssumption
  <2>3. QED BY <1>1, <2>1, <2>2, Numbers DEF Passes, CutAt, Most
<1>4. TypeOK'
  BY <1>0, <1>1, <1>2, <1>3 DEF TypeOK
<1>5. settled = <<>> /\ Unsettled' /\ SettledUpTo'
  BY <1>0, <1>1, <1>4, NotSettledYet DEF Ends
<1>6. Fresh' /\ Counted' /\ InTime' /\ Room' /\ PublishedWasReviewed' /\ Worded'
  BY <1>0, <1>1 DEF Worded, Fresh, Counted, InTime, Investigating, Room, PublishedWasReviewed
<1>7. QED BY <1>2, <1>4, <1>5, <1>6 DEF LInv

LEMMA RunFactsKeeps == ASSUME LInv, RunFacts PROVE LInv'
<1>0. /\ stage = "run" /\ stage' = "fallback" /\ began' = elapsed
      /\ UNCHANGED <<turn, trial, elapsed, cutoff, reservations, costs, settled,
                     rounds, toolCount, todo, retried, wording, approved, patience,
                     slowest, recoveryRan, facts, published>>
  BY DEF RunFacts, request, ledger, investigated, answering, outcome
<1>1. TypeOK /\ Fresh /\ Unsettled /\ Covered /\ PublishedWasReviewed
  BY DEF LInv
<1>2. calls' = calls /\ Covered'
  BY <1>0, <1>1, SameLedger
<1>3. TypeOK'
  BY <1>0, <1>1, <1>2 DEF TypeOK, FallbackStages
<1>4. settled = <<>> /\ Unsettled' /\ SettledUpTo'
  BY <1>0, <1>1, <1>3, NotSettledYet DEF Ends
<1>5. InTime'
  BY <1>0, <1>1, Numbers DEF InTime, Investigating, Most
<1>6. Fresh' /\ Counted' /\ Room' /\ PublishedWasReviewed' /\ Worded'
  BY <1>0, <1>1 DEF Worded, Fresh, Counted, Room, PublishedWasReviewed
<1>7. QED BY <1>2, <1>3, <1>4, <1>5, <1>6 DEF LInv

LEMMA RunModelKeeps == ASSUME LInv, RunModel PROVE LInv'
<1>0. /\ stage = "run" /\ stage' \in {"action", "fallback"}
      /\ began' = elapsed /\ cutoff' = Window
      /\ Reserve(3) \/ UNCHANGED reservations
      /\ UNCHANGED <<turn, trial, elapsed, costs, settled, rounds, toolCount, todo,
                     retried, wording, approved, patience, slowest, recoveryRan,
                     facts, published>>
  BY DEF RunModel, request, investigated, answering, outcome
<1>1. TypeOK /\ Fresh /\ Unsettled /\ Covered /\ PublishedWasReviewed
  BY DEF LInv
<1>2. calls = 0 /\ calls' = 0 /\ rounds = 0 /\ retried = FALSE
  BY <1>0, <1>1 DEF Fresh, calls, TypeOK
<1>3. reservations' \in Seq(Nat) /\ Covered'
  <2>1. CASE Reserve(3)
    BY <1>1, <1>2, <2>1, ReserveAdds, Numbers DEF Covered
  <2>2. CASE UNCHANGED reservations
    <3>1. Covered'
      BY <1>0, <1>1, <2>2, SameLedger
    <3>2. QED BY <1>1, <2>2, <3>1 DEF TypeOK
  <2>3. QED BY <1>0, <2>1, <2>2
<1>4. cutoff' \in 0..Deadline /\ cutoff' = Most(elapsed, Deadline - Finalization)
      /\ elapsed <= cutoff'
  BY <1>0, <1>1, Numbers DEF Window, Most
<1>5. TypeOK'
  BY <1>0, <1>1, <1>2, <1>3, <1>4, Numbers DEF TypeOK, FallbackStages
<1>6. settled = <<>> /\ Unsettled' /\ SettledUpTo'
  BY <1>0, <1>1, <1>5, NotSettledYet DEF Ends
<1>7. InTime'
  BY <1>0, <1>1, <1>4, Numbers DEF InTime, Investigating, Most
<1>8. Room'
  BY <1>0, <1>1, <1>2, Numbers DEF Room
<1>9. Fresh' /\ Counted' /\ PublishedWasReviewed' /\ Worded'
  BY <1>0, <1>1 DEF Worded, Fresh, Counted, PublishedWasReviewed
<1>10. QED BY <1>3, <1>5, <1>6, <1>7, <1>8, <1>9 DEF LInv

--------------------------------------------------------------------------------
(* The investigation.                                                         *)

LEMMA NextActionKeeps ==
  ASSUME LInv, NEW result, NextAction(result) PROVE LInv'
<1>0. /\ stage = "action" /\ Request(result)
      /\ \/ result = "value" /\ stage' = "answered" /\ wording' = "proposed"
            /\ todo' = todo /\ retried' = FALSE
         \/ result = "value" /\ stage' = "tools" /\ todo' \in 1..MaxTools
            /\ wording' = wording /\ retried' = FALSE
         \/ result = "malformed" /\ ~ retried /\ ~ Exhausted' /\ stage' = "action"
            /\ retried' = TRUE /\ wording' = wording /\ todo' = todo
         \/ stage' = "fallback" /\ retried' = retried /\ wording' = wording
            /\ todo' = todo
      /\ UNCHANGED <<turn, trial, began, cutoff, settled, rounds, toolCount, approved,
                     patience, recoveryRan, facts, published>>
  BY DEF NextAction, request, window, outcome
<1>1. /\ TypeOK /\ Unsettled /\ Covered /\ InTime /\ Room /\ PublishedWasReviewed
      /\ retried \in BOOLEAN
  BY DEF LInv, TypeOK
<1>2. /\ began <= elapsed /\ elapsed <= cutoff
      /\ cutoff = Most(began, Deadline - Finalization)
  BY <1>0, <1>1 DEF InTime, Investigating
<1>3. /\ reservations' \in Seq(Nat) /\ costs' \in Seq(Costs \union {Unknown})
      /\ calls' \in {calls, calls + 1} /\ calls' <= MaxModelCalls /\ Covered'
      /\ elapsed' \in 0..Deadline /\ elapsed <= elapsed' /\ elapsed' <= cutoff
      /\ slowest' \in Nat
      /\ result \in {"value", "malformed"} => calls' = calls + 1
  BY <1>0, <1>1, <1>2, Requested
<1>4. /\ stage' \in {"answered", "tools", "action", "fallback"}
      /\ todo' \in 0..MaxTools /\ retried' \in BOOLEAN
      /\ wording' \in {wording, "proposed"}
  <2>1. todo \in 0..MaxTools /\ MaxTools \in Nat
    BY <1>1, Numbers
  <2>2. todo' \in 0..MaxTools
    <3>1. todo' = todo \/ todo' \in 1..MaxTools
      BY <1>0
    <3>2. QED BY <2>1, <3>1
  <2>3. retried' \in {FALSE, TRUE, retried}
    BY <1>0
  <2>4. /\ stage' \in {"answered", "tools", "action", "fallback"}
        /\ wording' \in {wording, "proposed"}
    BY <1>0
  <2>5. QED BY <1>1, <2>2, <2>3, <2>4
<1>5. TypeOK'
  BY <1>0, <1>1, <1>3, <1>4 DEF TypeOK, FallbackStages
<1>6. settled = <<>> /\ Unsettled' /\ SettledUpTo'
  BY <1>0, <1>1, <1>5, NotSettledYet DEF Ends
<1>7. InTime'
  BY <1>0, <1>1, <1>2, <1>3, KeepsInTime
<1>8. Room'
  <2> SUFFICES ASSUME MaxModelCalls >= MaxToolRounds + 3
               PROVE  Room'
    BY DEF Room
  <2>1. /\ ~ retried => /\ calls + (MaxToolRounds - rounds) <= MaxModelCalls - 2
                        /\ rounds = 0 => calls = 0
        /\ retried => /\ calls <= MaxModelCalls - 3
                      /\ rounds = 0 => calls = 1
    BY <1>0, <1>1 DEF Room
  <2>2. CASE stage' = "fallback"
    BY <2>2 DEF Room
  <2>3. CASE stage' = "answered"
    <3>1. calls' = calls + 1
      BY <1>0, <1>3, <2>3
    <3>2. calls < MaxModelCalls - 1
      <4>1. CASE retried
        BY <1>1, <2>1, <4>1, Numbers
      <4>2. CASE ~ retried
        BY <1>1, <2>1, <4>2, Numbers
      <4>3. QED BY <4>1, <4>2
    <3>3. calls' < MaxModelCalls
      BY <1>1, <3>1, <3>2, Numbers
    <3>4. QED BY <2>3, <3>3 DEF Room
  <2>4. CASE stage' = "tools"
    <3>1. calls' = calls + 1 /\ retried' = FALSE /\ rounds' = rounds
      BY <1>0, <1>3, <2>4
    <3>2. calls' + (MaxToolRounds - rounds) <= MaxModelCalls - 1
      BY <1>1, <2>1, <3>1, Numbers
    <3>3. QED BY <2>4, <3>1, <3>2 DEF Room
  <2>5. CASE stage' = "action"
    <3>1. calls' = calls + 1 /\ ~ retried /\ retried' = TRUE /\ rounds' = rounds
          /\ ~ (calls' > MaxModelCalls - 3)
      BY <1>0, <1>3, <2>5 DEF Exhausted
    <3>2. calls' <= MaxModelCalls - 3 /\ (rounds = 0 => calls' = 1)
      BY <1>1, <2>1, <3>1, Numbers
    <3>3. QED BY <2>5, <3>1, <3>2 DEF Room
  <2>6. QED BY <1>4, <2>2, <2>3, <2>4, <2>5
<1>9. Fresh' /\ Counted' /\ PublishedWasReviewed' /\ Worded'
  BY <1>0, <1>1, <1>4 DEF Worded, Fresh, Counted, PublishedWasReviewed
<1>10. QED BY <1>3, <1>5, <1>6, <1>7, <1>8, <1>9 DEF LInv

LEMMA StartRoundKeeps == ASSUME LInv, StartRound PROVE LInv'
<1>0. /\ stage = "tools"
      /\ \/ stage' \in FallbackStages /\ todo' = 0 /\ UNCHANGED <<rounds, reservations>>
         \/ /\ rounds < MaxToolRounds /\ ~ TooManyTools /\ KeepTwo
            /\ rounds' = rounds + 1 /\ stage' = "running" /\ UNCHANGED todo
      /\ UNCHANGED <<turn, trial, elapsed, began, cutoff, costs, settled, toolCount,
                     retried, wording, approved, patience, slowest, recoveryRan, facts,
                     published>>
  BY DEF StartRound, FallbackStages, request, window, answering, outcome
<1>1. /\ TypeOK /\ Unsettled /\ Covered /\ InTime /\ Room /\ PublishedWasReviewed
      /\ calls' = calls
  BY <1>0 DEF LInv, calls
<1>2. /\ reservations' \in Seq(Nat) /\ Covered'
  <2>1. CASE KeepTwo
    BY <1>0, <1>1, <2>1, TwoKept
  <2>2. CASE UNCHANGED reservations
    <3>1. Covered'
      BY <1>0, <1>1, <2>2, SameLedger
    <3>2. QED BY <1>1, <2>2, <3>1 DEF TypeOK
  <2>3. QED BY <1>0, <2>1, <2>2
<1>3. /\ stage' \in FallbackStages \union {"running"}
      /\ todo' \in 0..MaxTools /\ rounds' \in 0..MaxToolRounds
      /\ stage' = "running" => rounds' = rounds + 1 /\ rounds' # 0
  <2>1. todo \in 0..MaxTools /\ rounds \in 0..MaxToolRounds /\ MaxTools \in Nat
        /\ MaxToolRounds \in Nat
    BY <1>1, Numbers
  <2>2. stage' \in FallbackStages \union {"running"} /\ todo' \in {0, todo}
    BY <1>0
  <2>3. rounds' \in 0..MaxToolRounds
        /\ (stage' = "running" => rounds' = rounds + 1 /\ rounds' # 0)
    BY <1>0, <2>1 DEF FallbackStages
  <2>4. QED BY <2>1, <2>2, <2>3
<1>4. TypeOK'
  BY <1>0, <1>1, <1>2, <1>3 DEF TypeOK, FallbackStages
<1>5. settled = <<>> /\ Unsettled' /\ SettledUpTo'
  BY <1>0, <1>1, <1>4, NotSettledYet DEF Ends, FallbackStages
<1>6. InTime'
  BY <1>0, <1>1, Numbers, KeepsInTime DEF InTime, Investigating
<1>7. Counted'
  BY <1>0, <1>1, Numbers DEF Counted, TooManyTools, FallbackStages
<1>8. Room'
  BY <1>0, <1>1, <1>3, Numbers DEF Room, FallbackStages
<1>9. Fresh' /\ PublishedWasReviewed' /\ Worded'
  BY <1>0, <1>1, <1>3 DEF Worded, Fresh, PublishedWasReviewed, FallbackStages
<1>10. QED BY <1>2, <1>4, <1>5, <1>6, <1>7, <1>8, <1>9 DEF LInv

LEMMA RunToolKeeps == ASSUME LInv, RunTool PROVE LInv'
<1>0. /\ stage = "running" /\ todo > 0 /\ toolCount' = toolCount + 1
      /\ facts' \in FactsGained
      /\ \/ todo' = todo - 1 /\ stage' = "running"
         \/ todo' = 0 /\ stage' = "fallback"
      /\ UNCHANGED <<turn, trial, began, cutoff, reservations, costs, settled, rounds,
                     retried, wording, approved, patience, slowest, recoveryRan,
                     published>>
  BY DEF RunTool, FactsGained, request, window, ledger, answering
<1>1. /\ TypeOK /\ Unsettled /\ Covered /\ Counted /\ InTime /\ Room
      /\ PublishedWasReviewed
  BY DEF LInv
<1>2. calls' = calls /\ Covered'
  BY <1>0, <1>1, SameLedger
<1>3. /\ began <= elapsed /\ elapsed <= cutoff
      /\ cutoff = Most(began, Deadline - Finalization)
      /\ toolCount + todo <= MaxToolCalls
  BY <1>0, <1>1 DEF InTime, Investigating, Counted
<1>4. elapsed' \in 0..Deadline /\ elapsed <= elapsed' /\ elapsed' <= cutoff
  <2>1. PICK d \in Durations : Passes(d, cutoff) \/ CutAt(d, cutoff)
    BY DEF RunTool
  <2>2. d \in Nat
    BY LoopAssumption
  <2>3. QED BY <1>1, <1>3, <2>1, <2>2, Numbers DEF Passes, CutAt, Most
<1>5. /\ stage' \in {"running", "fallback"} /\ facts' \in BOOLEAN
      /\ todo' \in 0..MaxTools /\ toolCount' \in 0..MaxToolCalls
      /\ stage' = "running" => toolCount' + todo' <= MaxToolCalls
  <2>1. facts' \in BOOLEAN /\ stage' \in {"running", "fallback"}
    <3>1. facts \in BOOLEAN
      BY <1>1 DEF TypeOK
    <3>2. QED BY <1>0, <3>1 DEF FactsGained
  <2>2. todo' \in 0..MaxTools /\ toolCount' \in 0..MaxToolCalls
    BY <1>0, <1>1, <1>3, Numbers
  <2>3. stage' = "running" => toolCount' + todo' <= MaxToolCalls
    BY <1>0, <1>1, <1>3, Numbers
  <2>4. QED BY <2>1, <2>2, <2>3
<1>6. TypeOK'
  BY <1>0, <1>1, <1>2, <1>4, <1>5 DEF TypeOK, FallbackStages
<1>7. settled = <<>> /\ Unsettled' /\ SettledUpTo'
  BY <1>0, <1>1, <1>6, NotSettledYet DEF Ends
<1>8. InTime'
  BY <1>0, <1>1, <1>3, <1>4, KeepsInTime
<1>9. Counted' /\ Room' /\ Fresh' /\ PublishedWasReviewed' /\ Worded'
  BY <1>0, <1>1, <1>2, <1>5 DEF Worded, Counted, Room, Fresh, PublishedWasReviewed
<1>10. QED BY <1>2, <1>6, <1>7, <1>8, <1>9 DEF LInv

LEMMA EndRoundKeeps == ASSUME LInv, EndRound PROVE LInv'
<1>0. /\ stage = "running" /\ stage' = "action" /\ todo' = 0
      /\ UNCHANGED <<turn, trial, elapsed, began, cutoff, reservations, costs, settled,
                     rounds, toolCount, retried, wording, approved, patience, slowest,
                     recoveryRan, facts, published>>
  BY DEF EndRound, request, window, ledger, answering, outcome
<1>1. /\ TypeOK /\ Unsettled /\ Covered /\ InTime /\ Room /\ PublishedWasReviewed
  BY DEF LInv
<1>2. calls' = calls /\ Covered'
  BY <1>0, <1>1, SameLedger
<1>3. TypeOK'
  BY <1>0, <1>1, <1>2, Numbers DEF TypeOK
<1>4. settled = <<>> /\ Unsettled' /\ SettledUpTo'
  BY <1>0, <1>1, <1>3, NotSettledYet DEF Ends
<1>5. InTime'
  BY <1>0, <1>1, Numbers, KeepsInTime DEF InTime, Investigating
<1>6. Counted' /\ Room' /\ Fresh' /\ PublishedWasReviewed' /\ Worded'
  BY <1>0, <1>1, <1>2 DEF Worded, Counted, Room, Fresh, PublishedWasReviewed
<1>7. QED BY <1>2, <1>3, <1>4, <1>5, <1>6 DEF LInv

--------------------------------------------------------------------------------
(* The answer and its review.                                                 *)

LEMMA StructureKeeps == ASSUME LInv, Structure PROVE LInv'
<1>0. /\ stage = "answered" /\ stage' \in {"review", "repair", "fallbackWithin"}
      /\ UNCHANGED <<turn, trial, elapsed, began, cutoff, reservations, costs, settled,
                     rounds, toolCount, todo, retried, wording, approved, patience,
                     slowest, recoveryRan, facts, published>>
  BY DEF Structure, Unsupported, rest, request, window, ledger, investigated,
         answering, outcome
<1>1. /\ TypeOK /\ Unsettled /\ Covered /\ InTime /\ Room /\ Worded
      /\ PublishedWasReviewed
  BY DEF LInv
<1>2. calls' = calls /\ Covered'
  BY <1>0, <1>1, SameLedger
<1>3. TypeOK'
  BY <1>0, <1>1, <1>2 DEF TypeOK, FallbackStages
<1>4. settled = <<>> /\ Unsettled' /\ SettledUpTo'
  BY <1>0, <1>1, <1>3, NotSettledYet DEF Ends
<1>5. InTime'
  BY <1>0, <1>1, Numbers, KeepsInTime DEF InTime, Investigating
<1>6. Counted' /\ Room' /\ Fresh' /\ PublishedWasReviewed' /\ Worded'
  BY <1>0, <1>1, <1>2 DEF Worded, Counted, Room, Fresh, PublishedWasReviewed
<1>7. QED BY <1>2, <1>3, <1>4, <1>5, <1>6 DEF LInv

LEMMA ReviewKeeps == ASSUME LInv, NEW result, Review(result) PROVE LInv'
<1>0. /\ stage = "review" /\ Request(result)
      /\ \/ /\ stage' = "settle" /\ approved' = approved \union {wording}
            /\ published' = wording
         \/ /\ stage' \in {"repair", "fallbackWithin", "fallback"}
            /\ UNCHANGED <<approved, published>>
      /\ UNCHANGED <<turn, trial, began, cutoff, settled, rounds, toolCount, todo,
                     retried, wording, patience, recoveryRan, facts>>
  BY DEF Review, Unsupported, Rendered, request, window, investigated
<1>1. /\ TypeOK /\ Unsettled /\ Covered /\ InTime /\ Worded
      /\ PublishedWasReviewed
  BY DEF LInv
<1>2. /\ began <= elapsed /\ elapsed <= cutoff
      /\ cutoff = Most(began, Deadline - Finalization)
  BY <1>0, <1>1 DEF InTime, Investigating
<1>3. /\ reservations' \in Seq(Nat) /\ costs' \in Seq(Costs \union {Unknown})
      /\ calls' <= MaxModelCalls /\ Covered'
      /\ elapsed' \in 0..Deadline /\ elapsed <= elapsed' /\ elapsed' <= cutoff
      /\ slowest' \in Nat
  BY <1>0, <1>1, <1>2, Requested
<1>4. /\ stage' \in {"settle", "repair", "fallbackWithin", "fallback"}
      /\ approved' \subseteq {"proposed", "repaired"}
      /\ published' \in {None, "proposed", "repaired", "facts"}
  BY <1>0, <1>1 DEF TypeOK, Worded
<1>5. TypeOK'
  BY <1>0, <1>1, <1>3, <1>4 DEF TypeOK, FallbackStages
<1>6. settled = <<>> /\ Unsettled' /\ SettledUpTo'
  BY <1>0, <1>1, <1>5, NotSettledYet DEF Ends
<1>7. InTime'
  BY <1>0, <1>1, <1>2, <1>3, KeepsInTime
<1>8. Counted' /\ Room' /\ Fresh' /\ PublishedWasReviewed' /\ Worded'
  BY <1>0, <1>1, <1>4 DEF Worded, Counted, Room, Fresh, PublishedWasReviewed
<1>9. QED BY <1>3, <1>5, <1>6, <1>7, <1>8 DEF LInv

LEMMA PlanRepairKeeps == ASSUME LInv, PlanRepair PROVE LInv'
<1>0. /\ stage = "repair"
      /\ \/ stage' = "repair" /\ KeepTwo /\ patience' = RepairTimeout
            /\ RepairTimeout >= Most(1, slowest)
         \/ stage' = "fallbackWithin" /\ UNCHANGED <<patience, reservations>>
      /\ UNCHANGED <<turn, trial, elapsed, began, cutoff, costs, settled, rounds,
                     toolCount, todo, retried, wording, approved, slowest, recoveryRan,
                     facts, published>>
  BY DEF PlanRepair, request, window, investigated, outcome
<1>1. /\ TypeOK /\ Unsettled /\ Covered /\ InTime /\ PublishedWasReviewed
      /\ calls' = calls
  BY <1>0 DEF LInv, calls
<1>2. /\ reservations' \in Seq(Nat) /\ Covered'
  <2>1. CASE KeepTwo
    BY <1>0, <1>1, <2>1, TwoKept
  <2>2. CASE UNCHANGED reservations
    <3>1. Covered'
      BY <1>0, <1>1, <2>2, SameLedger
    <3>2. QED BY <1>1, <2>2, <3>1 DEF TypeOK
  <2>3. QED BY <1>0, <2>1, <2>2
\* The call's timeout is at least a unit, so it is a time.
<1>3. patience' \in Nat
  <2>1. CASE patience' = RepairTimeout /\ RepairTimeout >= Most(1, slowest)
    <3>1. Remaining \in Int /\ Margin \in Nat /\ RequestTimeout \in Nat /\ slowest \in Nat
      BY <1>1, Numbers DEF Remaining
    <3>2. RepairTimeout \in Int
      BY <3>1 DEF RepairTimeout, Least
    <3>3. Most(1, slowest) >= 1 /\ Most(1, slowest) \in Nat
      BY <3>1 DEF Most
    <3>4. QED BY <2>1, <3>2, <3>3
  <2>2. CASE UNCHANGED patience
    BY <1>1, <2>2 DEF TypeOK
  <2>3. QED BY <1>0, <2>1, <2>2
<1>4. TypeOK'
  BY <1>0, <1>1, <1>2, <1>3 DEF TypeOK, FallbackStages
<1>5. settled = <<>> /\ Unsettled' /\ SettledUpTo'
  BY <1>0, <1>1, <1>4, NotSettledYet DEF Ends
<1>6. InTime'
  BY <1>0, <1>1, Numbers, KeepsInTime DEF InTime, Investigating
<1>7. Counted' /\ Room' /\ Fresh' /\ PublishedWasReviewed' /\ Worded'
  BY <1>0, <1>1 DEF Worded, Counted, Room, Fresh, PublishedWasReviewed
<1>8. QED BY <1>2, <1>4, <1>5, <1>6, <1>7 DEF LInv

LEMMA RepairKeeps == ASSUME LInv, NEW result, Repair(result) PROVE LInv'
<1>0. /\ stage = "repair" /\ Request(result)
      /\ \/ stage' = "answered" /\ wording' = "repaired"
         \/ stage' = "fallback" /\ UNCHANGED wording
      /\ UNCHANGED <<turn, trial, began, cutoff, settled, rounds, toolCount, todo,
                     retried, approved, patience, recoveryRan, facts, published>>
  BY DEF Repair, request, window, investigated, outcome
<1>1. /\ TypeOK /\ Unsettled /\ Covered /\ InTime /\ PublishedWasReviewed
  BY DEF LInv
<1>2. /\ began <= elapsed /\ elapsed <= cutoff
      /\ cutoff = Most(began, Deadline - Finalization)
  BY <1>0, <1>1 DEF InTime, Investigating
<1>3. /\ reservations' \in Seq(Nat) /\ costs' \in Seq(Costs \union {Unknown})
      /\ calls' <= MaxModelCalls /\ Covered'
      /\ elapsed' \in 0..Deadline /\ elapsed <= elapsed' /\ elapsed' <= cutoff
      /\ slowest' \in Nat
  BY <1>0, <1>1, <1>2, Requested
<1>4. TypeOK'
  BY <1>0, <1>1, <1>3 DEF TypeOK, FallbackStages
<1>5. settled = <<>> /\ Unsettled' /\ SettledUpTo'
  BY <1>0, <1>1, <1>4, NotSettledYet DEF Ends
<1>6. InTime'
  BY <1>0, <1>1, <1>2, <1>3, KeepsInTime
<1>7. Counted' /\ Room' /\ Fresh' /\ PublishedWasReviewed' /\ Worded'
  BY <1>0, <1>1 DEF Worded, Counted, Room, Fresh, PublishedWasReviewed
<1>8. QED BY <1>3, <1>4, <1>5, <1>6, <1>7 DEF LInv

--------------------------------------------------------------------------------
(* Facts, settlement and the end.                                             *)

LEMMA RenderFactsKeeps == ASSUME LInv, RenderFacts PROVE LInv'
<1>0. /\ stage \in {"fallback", "fallbackWithin"} /\ stage' = "settle"
      /\ published' = "facts"
      /\ UNCHANGED <<turn, trial, elapsed, began, cutoff, reservations, costs, settled,
                     rounds, toolCount, todo, retried, wording, approved, patience,
                     slowest, recoveryRan, facts>>
  BY DEF RenderFacts, FallbackStages, request, window, ledger, investigated, answering
<1>1. /\ TypeOK /\ Unsettled /\ Covered /\ InTime
  BY DEF LInv
<1>2. calls' = calls /\ Covered'
  BY <1>0, <1>1, SameLedger
<1>3. TypeOK'
  BY <1>0, <1>1, <1>2 DEF TypeOK
<1>4. settled = <<>> /\ Unsettled' /\ SettledUpTo'
  BY <1>0, <1>1, <1>3, NotSettledYet DEF Ends
<1>5. InTime'
  BY <1>0, <1>1, Numbers DEF InTime, Investigating, Most
<1>6. Counted' /\ Room' /\ Fresh' /\ PublishedWasReviewed' /\ Worded'
  BY <1>0, <1>1 DEF Worded, Counted, Room, Fresh, PublishedWasReviewed
<1>7. QED BY <1>2, <1>3, <1>4, <1>5, <1>6 DEF LInv

LEMMA RecoverKeeps == ASSUME LInv, Recover PROVE LInv'
<1>0. /\ stage \in {"fallback", "fallbackWithin"}
      /\ stage' \in {stage, "fallback"} /\ recoveryRan' = TRUE
      /\ facts' \in {facts, TRUE}
      /\ UNCHANGED <<turn, trial, began, cutoff, reservations, costs, settled, rounds,
                     toolCount, todo, retried, wording, approved, patience, slowest,
                     published>>
  BY DEF Recover, FallbackStages, FactsGained, request, window, ledger, investigated,
         answering
<1>1. /\ TypeOK /\ Unsettled /\ Covered /\ InTime /\ PublishedWasReviewed
      /\ Remaining > Margin
  BY DEF LInv, Recover, RecoveryDue
<1>2. calls' = calls /\ Covered'
  BY <1>0, <1>1, SameLedger
<1>3. /\ elapsed' \in 0..Deadline /\ elapsed <= elapsed'
      /\ elapsed' <= Deadline - Margin
      /\ stage' = "fallbackWithin" => elapsed' <= cutoff
  <2> DEFINE end == Deadline - Margin
             within == stage = "fallbackWithin"
  <2>1. PICK d \in Durations :
          \/ Passes(d, IF within THEN Least(end, cutoff) ELSE end)
          \/ (~ within \/ end <= cutoff) /\ CutAt(d, end) /\ stage' = stage
          \/ within /\ CutAt(d, cutoff) /\ stage' = "fallback"
    BY DEF Recover
  <2>2. /\ d \in Nat /\ elapsed \in 0..Deadline /\ cutoff \in 0..Deadline
        /\ end \in 0..Deadline /\ elapsed < end
    BY <1>1, Numbers, LoopAssumption DEF Remaining
  <2>3. within => elapsed <= cutoff /\ cutoff <= Most(end, elapsed)
    <3>1. SUFFICES ASSUME within PROVE elapsed <= cutoff /\ cutoff <= Most(end, elapsed)
      OBVIOUS
    <3>2. /\ began <= elapsed /\ elapsed <= cutoff
          /\ cutoff = Most(began, Deadline - Finalization)
      BY <1>1, <3>1 DEF InTime, Investigating
    <3>3. QED BY <1>1, <2>2, <3>2, Numbers DEF Most
  <2> HIDE DEF end
  <2>4. CASE ~ within
    BY <1>0, <1>1, <2>1, <2>2, <2>4, Numbers DEF Passes, CutAt, Least, Most, end
  <2>5. CASE within
    <3>1. CASE Passes(d, Least(end, cutoff))
      BY <1>1, <2>2, <3>1, Numbers DEF Passes, Least, end
    <3>2. CASE end <= cutoff /\ CutAt(d, end) /\ stage' = stage
      BY <1>1, <2>2, <3>2, Numbers DEF CutAt, Most, end
    <3>3. CASE CutAt(d, cutoff) /\ stage' = "fallback"
      BY <1>1, <2>2, <2>3, <2>5, <3>3, Numbers DEF CutAt, Most, end
    <3>4. QED BY <2>1, <2>5, <3>1, <3>2, <3>3
  <2>6. QED BY <2>4, <2>5
<1>4. TypeOK'
  BY <1>0, <1>1, <1>2, <1>3 DEF TypeOK, FallbackStages
<1>5. settled = <<>> /\ Unsettled' /\ SettledUpTo'
  BY <1>0, <1>1, <1>4, NotSettledYet DEF Ends
<1>6. InTime'
  BY <1>0, <1>1, <1>3, Numbers DEF InTime, Investigating, Most
<1>7. Counted' /\ Room' /\ Fresh' /\ PublishedWasReviewed' /\ Worded'
  BY <1>0, <1>1 DEF Worded, Counted, Room, Fresh, PublishedWasReviewed
<1>8. QED BY <1>2, <1>4, <1>5, <1>6, <1>7 DEF LInv

\* One reservation is settled at the bill of its calls.
LEMMA NextSettled ==
  ASSUME TypeOK, SettledUpTo, SettlementOpen, SettleNext,
         UNCHANGED <<reservations, costs>>, stage' \notin {"commit", "committed"}
  PROVE  settled' \in Seq(Nat) /\ SettledUpTo'
<1> DEFINE m == Len(settled)
           bill == Bill(Slice(m + 1))
<1>1. /\ settled \in Seq(Nat) /\ m \in 0..(Len(reservations) - 1)
      /\ Len(reservations) \in Nat
  BY DEF TypeOK, SettlementOpen
<1>2. bill \in Nat /\ Bill(Upto(m + 1)) = Bill(Upto(m)) + bill
  BY <1>1, SettlementAdds
<1>3. /\ settled' = Append(settled, bill) /\ settled' \in Seq(Nat)
      /\ Len(settled') = m + 1 /\ Total(settled') = Total(settled) + bill
  <2> HIDE DEF bill
  <2>1. settled' = Append(settled, bill)
    BY DEF SettleNext, bill
  <2>2. QED BY <1>1, <1>2, <2>1, SumOfAppend
<1>4. Total(settled') = Bill(Upto(m + 1))
  BY <1>2, <1>3 DEF SettledUpTo
<1>5. Total(settled') = Bill(Upto(Len(settled)))'
  <2>1. Upto(Len(settled))' = Upto(m + 1)
    BY <1>3 DEF Upto, Before, calls, Total
  <2>2. Bill(Upto(m + 1)) = Bill(Upto(Len(settled)))'
    BY <2>1 DEF Bill, PriceOf, Total
  <2>3. QED BY <1>4, <2>2
<1>6. m + 1 <= Len(reservations)
  BY <1>1
<1>7. QED BY <1>3, <1>5, <1>6 DEF SettledUpTo

\* Settle and its cut: what is settled grows by one reservation, or stands.
LEMMA SettlementKeeps == ASSUME LInv, Settle \/ SettlementCut PROVE LInv'
<1>0. /\ stage \in {"settle", "cancelled"} /\ stage' \in {stage, "abort"}
      /\ SettlementOpen /\ (SettleNext \/ settled' = settled)
      /\ UNCHANGED <<turn, trial, elapsed, began, cutoff, reservations, costs, rounds,
                     toolCount, todo, retried, wording, approved, patience, slowest,
                     recoveryRan, facts, published>>
  BY DEF Settle, SettlementCut, SettlementOpen, request, window, ledger, investigated,
         answering, outcome
<1>1. TypeOK /\ Covered /\ InTime /\ PublishedWasReviewed /\ SettledUpTo
  BY DEF LInv
<1>2. calls' = calls /\ Covered'
  BY <1>0, <1>1, SameLedger
<1>3. settled' \in Seq(Nat) /\ SettledUpTo'
  <2>1. CASE SettleNext
    BY <1>0, <1>1, <2>1, NextSettled
  <2>2. CASE settled' = settled
    BY <1>0, <1>1, <2>2, StaysSettled DEF TypeOK
  <2>3. QED BY <1>0, <2>1, <2>2
<1>4. TypeOK'
  BY <1>0, <1>1, <1>2, <1>3 DEF TypeOK
<1>5. Unsettled' /\ InTime'
  BY <1>0, <1>1 DEF Unsettled, InTime, Investigating
<1>6. Counted' /\ Room' /\ Fresh' /\ PublishedWasReviewed' /\ Worded'
  BY <1>0, <1>1 DEF Worded, Counted, Room, Fresh, PublishedWasReviewed
<1>7. QED BY <1>2, <1>3, <1>4, <1>5, <1>6 DEF LInv

LEMMA CancelledKeeps == ASSUME LInv, Cancelled PROVE LInv'
<1>0. /\ stage' = "cancelled" /\ stage \notin Ends
      /\ \/ UNCHANGED <<reservations, costs>>
         \/ /\ calls < MaxModelCalls /\ TakeSlot
            /\ costs' = Append(costs, Unknown)
      /\ UNCHANGED <<turn, trial, elapsed, began, cutoff, settled, rounds, toolCount,
                     todo, retried, wording, approved, patience, slowest, recoveryRan,
                     facts, published>>
  BY DEF Cancelled, Ends, request, window, ledger, investigated, answering, outcome
<1>1. TypeOK /\ Unsettled /\ Covered /\ PublishedWasReviewed
  BY DEF LInv
<1>2. /\ reservations' \in Seq(Nat) /\ costs' \in Seq(Costs \union {Unknown})
      /\ calls' <= MaxModelCalls /\ Covered'
  <2>1. CASE UNCHANGED <<reservations, costs>>
    <3>1. calls' = calls /\ Covered'
      BY <1>1, <2>1, SameLedger
    <3>2. QED BY <1>1, <2>1, <3>1 DEF TypeOK
  <2>2. CASE calls < MaxModelCalls /\ TakeSlot /\ costs' = Append(costs, Unknown)
    <3>1. costs' \in Seq(Costs \union {Unknown}) /\ calls' = calls + 1
      BY <1>1, <2>2, CallAdds
    <3>2. reservations' \in Seq(Nat) /\ calls + 1 <= Slots' /\ Slots' \in Nat
      BY <1>1, <2>2, SlotTaken
    <3>3. calls' <= MaxModelCalls /\ Covered'
      <4>1. calls \in Nat /\ MaxModelCalls \in Nat /\ calls < MaxModelCalls
        BY <1>1, <2>2, Numbers
      <4>2. QED BY <3>1, <3>2, <4>1 DEF Covered
    <3>4. QED BY <3>1, <3>2, <3>3
  <2>3. QED BY <1>0, <2>1, <2>2
<1>3. TypeOK'
  BY <1>0, <1>1, <1>2 DEF TypeOK
<1>4. settled = <<>> /\ Unsettled' /\ SettledUpTo'
  BY <1>0, <1>1, <1>3, NotSettledYet DEF Ends
<1>5. InTime'
  BY <1>0 DEF InTime, Investigating
<1>6. Counted' /\ Room' /\ Fresh' /\ PublishedWasReviewed' /\ Worded'
  BY <1>0, <1>1 DEF Worded, Counted, Room, Fresh, PublishedWasReviewed
<1>7. QED BY <1>2, <1>3, <1>4, <1>5, <1>6 DEF LInv

\* The end moves the stage alone.
LEMMA EndKeeps ==
  ASSUME LInv, EndSettlement \/ Commit \/ Abort \/ (StartTrial /\ stage' = "over")
  PROVE  LInv'
<1>0. /\ stage \in Ends /\ stage' \in {"abort", "over", "commit", "committed"}
      /\ stage' \in {"commit", "committed"} =>
           stage = "commit" \/ Len(settled) = Len(reservations)
      /\ UNCHANGED <<turn, trial, elapsed, began, cutoff, reservations, costs, settled,
                     rounds, toolCount, todo, retried, wording, approved, patience,
                     slowest, recoveryRan, facts, published>>
  BY DEF EndSettlement, AfterSettle, Commit, Abort, StartTrial, Ends, rest, request,
         window, ledger, investigated, answering, outcome
<1>1. TypeOK /\ Covered /\ PublishedWasReviewed /\ SettledUpTo
  BY DEF LInv
<1>2. calls' = calls /\ Covered'
  BY <1>0, <1>1, SameLedger
<1>3. TypeOK'
  BY <1>0, <1>1, <1>2 DEF TypeOK
<1>4. SettledUpTo'
  BY <1>0, <1>1, StaysSettled DEF SettledUpTo
<1>5. Unsettled' /\ InTime'
  BY <1>0 DEF Unsettled, InTime, Investigating
<1>6. Counted' /\ Room' /\ Fresh' /\ PublishedWasReviewed' /\ Worded'
  BY <1>0, <1>1 DEF Worded, Counted, Room, Fresh, PublishedWasReviewed
<1>7. QED BY <1>2, <1>3, <1>4, <1>5, <1>6 DEF LInv

\* A trial begins where a turn does.
LEMMA TrialKeeps == ASSUME LInv, StartTrial, stage' # "over" PROVE LInv'
<1>0. /\ stage' = "prepare" /\ turn' = turn /\ trial' = TRUE
      /\ elapsed' = 0 /\ began' = 0 /\ cutoff' = 0
      /\ reservations' = <<>> /\ costs' = <<>> /\ settled' = <<>>
      /\ rounds' = 0 /\ toolCount' = 0 /\ todo' = 0 /\ retried' = FALSE
      /\ wording' = None /\ approved' = {} /\ patience' = Forever /\ slowest' = 0
      /\ recoveryRan' = FALSE /\ facts' = FALSE /\ published' = None
  BY DEF StartTrial
<1>1. turn \in [mode : Modes, session : BOOLEAN]
  BY DEF LInv, TypeOK
<1>2. calls' = 0 /\ Slots' = 0
  <2>1. DOMAIN reservations' = {}
    BY <1>0
  <2>2. SumFunctionOnSet(reservations', {}) = 0
    BY SumEmpty
  <2>3. QED BY <1>0, <2>1, <2>2 DEF calls, Slots, Total, SumFunction
<1>3. TypeOK'
  <2>1. /\ reservations' \in Seq(Nat) /\ costs' \in Seq(Costs \union {Unknown})
        /\ settled' \in Seq(Nat)
    BY <1>0
  <2>2. /\ elapsed' \in 0..Deadline /\ began' \in 0..Deadline /\ cutoff' \in 0..Deadline
        /\ slowest' \in Nat /\ calls' <= MaxModelCalls
        /\ rounds' \in 0..MaxToolRounds /\ toolCount' \in 0..MaxToolCalls
        /\ todo' \in 0..MaxTools /\ patience' \in Nat
    BY <1>0, <1>2, LoopAssumption DEF Forever
  <2>3. QED BY <1>0, <1>1, <2>1, <2>2 DEF TypeOK
<1>4. Fresh' /\ Unsettled' /\ Covered' /\ Counted' /\ InTime'
  BY <1>0, <1>2 DEF Fresh, Unsettled, Covered, Counted, InTime, Investigating
<1>5. Room' /\ Worded' /\ PublishedWasReviewed'
  BY <1>0 DEF Room, Worded, PublishedWasReviewed
<1>6. SettledUpTo'
  BY <1>0, <1>3, NothingSettledThen DEF NoneSettled, TypeOK
<1>7. QED BY <1>3, <1>4, <1>5, <1>6 DEF LInv

--------------------------------------------------------------------------------
(* The theorems.                                                              *)

LEMMA NextLInv == LInv /\ [Next]_vars => LInv'
<1> SUFFICES ASSUME LInv, [Next]_vars PROVE LInv'
  OBVIOUS
<1>1. CASE Prepare \/ RunFacts \/ RunModel
  BY <1>1, PrepareKeeps, RunFactsKeeps, RunModelKeeps
<1>2. ASSUME NEW result, NextAction(result) \/ Review(result) \/ Repair(result)
      PROVE  LInv'
  BY <1>2, NextActionKeeps, ReviewKeeps, RepairKeeps
<1>3. CASE StartRound \/ RunTool \/ EndRound
  BY <1>3, StartRoundKeeps, RunToolKeeps, EndRoundKeeps
<1>4. CASE Structure \/ PlanRepair \/ RenderFacts \/ Recover
  BY <1>4, StructureKeeps, PlanRepairKeeps, RenderFactsKeeps, RecoverKeeps
<1>5. CASE Settle \/ SettlementCut \/ Cancelled
  BY <1>5, SettlementKeeps, CancelledKeeps
<1>6. CASE EndSettlement \/ Commit \/ Abort \/ StartTrial
  BY <1>6, EndKeeps, TrialKeeps
<1>7. CASE UNCHANGED vars
  <2>1. /\ stage' = stage
        /\ UNCHANGED <<turn, trial, elapsed, began, cutoff, reservations, costs, settled,
                       rounds, toolCount, todo, retried, wording, approved, patience,
                       slowest, recoveryRan, facts, published>>
    BY <1>7 DEF vars, rest, request, window, ledger, investigated, answering, outcome
  <2>2. TypeOK /\ Covered /\ SettledUpTo
    BY DEF LInv
  <2>3. calls' = calls /\ Covered'
    BY <2>1, <2>2, SameLedger
  <2>4. TypeOK'
    BY <2>1, <2>2, <2>3 DEF TypeOK
  <2>5. SettledUpTo'
    BY <2>1, <2>2, StaysSettled DEF SettledUpTo
  <2>6. Fresh' /\ Unsettled' /\ Counted' /\ InTime' /\ Worded' /\ PublishedWasReviewed'
    BY <2>1 DEF LInv, Fresh, Unsettled, Counted, InTime, Worded, PublishedWasReviewed
  <2>7. Room'
    BY <2>1, <2>3 DEF LInv, Room
  <2>8. QED BY <2>3, <2>4, <2>5, <2>6, <2>7 DEF LInv
<1>8. QED BY <1>1, <1>2, <1>3, <1>4, <1>5, <1>6, <1>7 DEF Next

THEOREM LoopInvariance == Spec => []LInv
BY InitLInv, NextLInv, PTL DEF Spec

\* A turn keeps to its limits: its calls to the calls it may make, its rounds and
\* tools to theirs, its clock to the deadline.
THEOREM LoopTypeCorrect == Spec => []TypeOK
<1>1. LInv => TypeOK
  BY DEF LInv
<1>2. QED BY <1>1, LoopInvariance, PTL

\* Whatever reservations were made, for three calls, for two that were kept or for
\* one more, and whatever the calls cost: cutting the costs by slots in the order
\* of the reservations settles every call once, at its cost or the reserved price,
\* when the settlement comes to its end, and the first calls, each once, when a
\* timeout or a shutdown cuts it between two reservations.
THEOREM SettlementIsTheCost == Spec => []SettledAtCost
<1>1. LInv => SettledAtCost
  <2> SUFFICES ASSUME LInv PROVE SettledAtCost
    OBVIOUS
  <2>1. Upto(Len(reservations)) = 1..calls
    BY AllSettled DEF LInv
  <2>2. QED BY <2>1 DEF LInv, SettledUpTo, SettledAtCost, Upto
<1>2. QED BY <1>1, LoopInvariance, PTL

\* What a turn renders is the backend's facts or a wording its reviewer accepted.
THEOREM ReviewedIsPublished == Spec => []PublishedWasReviewed
<1>1. LInv => PublishedWasReviewed
  BY DEF LInv
<1>2. QED BY <1>1, LoopInvariance, PTL

\* With three calls more than tool rounds, a proposed answer has a call left for
\* its review, for the one or two rounds the settings admit.
THEOREM ReviewIsAffordable == Spec => []ReviewStaysAffordable
<1>1. LInv => ReviewStaysAffordable
  BY DEF LInv, Room, ReviewStaysAffordable
<1>2. QED BY <1>1, LoopInvariance, PTL

\* An answer is ready with the margin before the deadline, or as soon as the loop
\* began: cutting the investigation and recovery is enough for any durations.
THEOREM AnswerLeavesTheMargin == Spec => []AnsweredBeforeDeadline
<1>1. LInv => AnsweredBeforeDeadline
  BY DEF LInv, InTime, AnsweredBeforeDeadline
<1>2. QED BY <1>1, LoopInvariance, PTL
================================================================================
