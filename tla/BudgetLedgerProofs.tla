--------------------------- MODULE BudgetLedgerProofs ---------------------------
(******************************************************************************)
(* Theorems about BudgetLedger for any calls, amounts, costs and cutoff, any  *)
(* number of copies of a script and any number of losses.  The account of the *)
(* calls is the invariant: a script moves the total by what it changes in the *)
(* account of one call.  What makes that so is said by Fresh and Unsettled (a *)
(* call's amount and cost are fixed before they are charged and settled) and  *)
(* Held (an entry of the hash is the amount of its call), whatever key was    *)
(* evicted and however late or often a script ran.                            *)
(******************************************************************************)
EXTENDS BudgetLedger, Sums

--------------------------------------------------------------------------------
\* The account's two sums, as functions on the calls.
Bills == [c \in Calls |-> Bill(c)]
Excess == [c \in Calls |-> settlements[c] * Overrun(c)]

\* Nothing knows a call before it asks.
Fresh ==
  \A c \in Calls : caller[c] = "new" =>
    /\ charges[c] = 0 /\ settlements[c] = 0 /\ reserves[c] = 0
    /\ c \notin Outstanding

\* A caller that has not finished has settled nothing.
Unsettled ==
  \A c \in Calls : caller[c] # "done" => settlements[c] = 0 /\ settles[c] = 0

Asked == \A c \in Calls : caller[c] # "new" => amount[c] \in Amounts

\* An outstanding reservation is what its call asked for.
Held == \A c \in Outstanding : reservations[c] = amount[c]

Calm == TypeOK /\ Fresh /\ Unsettled /\ Asked /\ Held /\ IsFiniteSet(Billed)

BInv == Calm /\ EveryChargeHasOneEnd /\ TotalIsTheAccount /\ CutoffHolds

--------------------------------------------------------------------------------
LEMMA InitBInv == Init => BInv
<1> SUFFICES ASSUME Init PROVE BInv
  OBVIOUS
<1>1. Billed = {} /\ Total = 0 /\ Outstanding = {}
  BY BudgetAssumption
  DEF Init, Billed, Total, Zero, Outstanding, NoReservations
<1>2. Calm
  <2>1. TypeOK
    BY <1>1, BudgetAssumption DEF Init, TypeOK, Zero
  <2>2. Fresh /\ Unsettled /\ Asked /\ Held
    BY <1>1 DEF Init, Fresh, Unsettled, Asked, Held, Zero
  <2>3. QED BY <1>1, <2>1, <2>2, FS_EmptySet DEF Calm
<1>3. EveryChargeHasOneEnd
  BY <1>1 DEF Init, EveryChargeHasOneEnd, Zero
<1>4. /\ SumFunction([c \in Billed |-> Bill(c)]) = 0
      /\ SumFunction([c \in Billed |-> settlements[c] * Overrun(c)]) = 0
  BY <1>1, SumEmpty DEF SumFunction
<1>5. QED
  BY <1>1, <1>2, <1>3, <1>4, BudgetAssumption
  DEF BInv, TotalIsTheAccount, CutoffHolds

--------------------------------------------------------------------------------
(* The account.                                                               *)

LEMMA OneMore ==
  ASSUME NEW n \in Int, NEW k \in Int
  PROVE  (n + 1) * k = n * k + k
OBVIOUS

\* The products are integers, and nothing of a factor that is zero.
LEMMA Products ==
  ASSUME NEW n \in Nat, NEW k \in Int
  PROVE  n * k \in Int /\ (k \in Nat => n * k \in Nat) /\ 0 * k = 0
OBVIOUS

\* The two sums are sums of integers over a finite set.
Summable ==
  /\ IsFiniteSet(Billed) /\ Billed \subseteq Calls
  /\ \A c \in Calls : Bills[c] = Bill(c) /\ Bills[c] \in Int
  /\ \A c \in Calls : Excess[c] \in Nat
  /\ \A c \in Calls \ Billed : Bills[c] = 0 /\ Excess[c] = 0
  /\ Total \in Int

LEMMA SumsDefined == Calm => Summable
<1> SUFFICES ASSUME Calm PROVE Summable
  OBVIOUS
<1>1. IsFiniteSet(Billed) /\ Billed \subseteq Calls
  BY DEF Calm, Billed
<1>2. ASSUME NEW c \in Calls
      PROVE  /\ Bills[c] = Bill(c) /\ Bills[c] \in Int /\ Excess[c] \in Nat
             /\ c \notin Billed => Bills[c] = 0 /\ Excess[c] = 0
  <2>1. /\ charges[c] \in Nat /\ settlements[c] \in Nat
        /\ amount[c] \in Nat /\ cost[c] - amount[c] \in Int
        /\ Overrun(c) \in Nat
    BY DEF Calm, TypeOK, Overrun
  <2>2. c \notin Billed => charges[c] = 0 /\ settlements[c] = 0
    BY <2>1 DEF Billed
  <2>3. /\ Bills[c] = charges[c] * amount[c] + settlements[c] * (cost[c] - amount[c])
        /\ Excess[c] = settlements[c] * Overrun(c)
        /\ Bills[c] = Bill(c)
    BY DEF Bills, Bill, Excess
  <2>4. /\ charges[c] * amount[c] \in Int
        /\ settlements[c] * (cost[c] - amount[c]) \in Int
        /\ settlements[c] * Overrun(c) \in Nat
        /\ 0 * amount[c] = 0 /\ 0 * (cost[c] - amount[c]) = 0 /\ 0 * Overrun(c) = 0
    BY <2>1, Products
  <2>5. QED BY <2>2, <2>3, <2>4
<1>3. Total \in Int
  BY DEF Calm, TypeOK, Total
<1>4. QED BY <1>1, <1>2, <1>3 DEF Summable

\* What the two properties say of the sums.
LEMMA AccountIs ==
  Calm =>
    /\ TotalIsTheAccount <=> Total = SumFunctionOnSet(Bills, Billed)
    /\ CutoffHolds <=> Total <= Cutoff + SumFunctionOnSet(Excess, Billed)
<1> SUFFICES ASSUME Calm
             PROVE  /\ TotalIsTheAccount <=> Total = SumFunctionOnSet(Bills, Billed)
                    /\ CutoffHolds <=>
                         Total <= Cutoff + SumFunctionOnSet(Excess, Billed)
  OBVIOUS
<1> DEFINE bills == [c \in Billed |-> Bill(c)]
           excess == [c \in Billed |-> settlements[c] * Overrun(c)]
<1>1. SumFunctionOnSet(bills, Billed) = SumFunctionOnSet(Bills, Billed)
  <2>1. \A c \in Billed : bills[c] \in Int /\ bills[c] = Bills[c]
    BY SumsDefined DEF Summable
  <2> HIDE DEF bills
  <2>2. QED BY <2>1, SumSame, SumsDefined DEF Summable
<1>2. SumFunctionOnSet(excess, Billed) = SumFunctionOnSet(Excess, Billed)
  <2>1. \A c \in Billed : excess[c] \in Int /\ excess[c] = Excess[c]
    BY SumsDefined DEF Summable, Excess
  <2> HIDE DEF excess
  <2>2. QED BY <2>1, SumSame, SumsDefined DEF Summable
<1>3. /\ SumFunction(bills) = SumFunctionOnSet(bills, Billed)
      /\ SumFunction(excess) = SumFunctionOnSet(excess, Billed)
  BY DEF SumFunction
<1>4. QED BY <1>1, <1>2, <1>3 DEF TotalIsTheAccount, CutoffHolds

\* Both facts hold after a step as before it.
LEMMA After ==
  /\ Calm' => Summable'
  /\ Calm' => /\ TotalIsTheAccount' <=> Total' = SumFunctionOnSet(Bills', Billed')
              /\ CutoffHolds' <=>
                   Total' <= Cutoff + SumFunctionOnSet(Excess', Billed')
<1>1. Calm' => Summable'
  BY SumsDefined, PTL
<1>2. (/\ TotalIsTheAccount <=> Total = SumFunctionOnSet(Bills, Billed)
       /\ CutoffHolds <=> Total <= Cutoff + SumFunctionOnSet(Excess, Billed))'
      <=> /\ TotalIsTheAccount' <=> Total' = SumFunctionOnSet(Bills', Billed')
          /\ CutoffHolds' <=>
               Total' <= Cutoff + SumFunctionOnSet(Excess', Billed')
  OBVIOUS
<1>3. QED BY <1>1, <1>2, AccountIs, PTL

\* One entry enters or changes; outside the set it counts as zero.
LEMMA OneEntry ==
  ASSUME NEW S, IsFiniteSet(S), NEW e, NEW f, NEW g,
         \A x \in S \union {e} : f[x] \in Int /\ g[x] \in Int,
         e \notin S => f[e] = 0,
         \A x \in S : x # e => g[x] = f[x]
  PROVE  SumFunctionOnSet(g, S \union {e})
           = SumFunctionOnSet(f, S) + (g[e] - f[e])
<1>1. SumFunctionOnSet(f, S) \in Int
  BY SumInt
<1>2. CASE e \in S
  <2>1. S \union {e} = S
    BY <1>2
  <2>2. \A x \in S : f[x] \in Int /\ g[x] \in Int
    OBVIOUS
  <2>3. SumFunctionOnSet(g, S) = SumFunctionOnSet(f, S) + (g[e] - f[e])
    BY <1>2, <2>2, SumChange
  <2>4. QED BY <2>1, <2>3
<1>3. CASE e \notin S
  <2>1. g[e] \in Int /\ f[e] = 0 /\ \A x \in S : f[x] \in Int /\ g[x] = f[x]
    BY <1>3
  <2>2. SumFunctionOnSet(g, S \union {e}) = SumFunctionOnSet(f, S) + g[e]
    BY <1>3, <2>1, SumExtend
  <2>3. QED BY <1>1, <2>1, <2>2
<1>4. QED BY <1>2, <1>3

\* A step that moves the total by what it changes in the account of one call; it
\* passes the cutoff by no more than what it adds to the excess.
LEMMA EntryKeeps ==
  ASSUME Calm, Calm', TotalIsTheAccount, CutoffHolds,
         NEW c \in Calls, NEW change \in Int,
         Total' = Total + change,
         Billed' = Billed \union {c},
         \A d \in Calls \ {c} : Bills'[d] = Bills[d] /\ Excess'[d] = Excess[d],
         Bills'[c] = Bills[c] + change,
         \/ Excess'[c] = Excess[c] /\ Total' <= Cutoff
         \/ Excess'[c] >= Excess[c] + change
  PROVE  TotalIsTheAccount' /\ CutoffHolds'
<1>1. /\ IsFiniteSet(Billed) /\ Billed \subseteq Calls
      /\ \A d \in Calls : /\ Bills[d] \in Int /\ Bills'[d] \in Int
                          /\ Excess[d] \in Nat /\ Excess'[d] \in Nat
      /\ c \notin Billed => Bills[c] = 0 /\ Excess[c] = 0
      /\ Total \in Int /\ Cutoff \in Nat
  BY SumsDefined, After, BudgetAssumption DEF Summable
<1>2. SumFunctionOnSet(Bills', Billed')
        = SumFunctionOnSet(Bills, Billed) + (Bills'[c] - Bills[c])
  <2>1. SumFunctionOnSet(Bills', Billed \union {c})
          = SumFunctionOnSet(Bills, Billed) + (Bills'[c] - Bills[c])
    <3>1. \A x \in Billed \union {c} : Bills[x] \in Int /\ Bills'[x] \in Int
      BY <1>1
    <3>2. \A x \in Billed : x # c => Bills'[x] = Bills[x]
      BY <1>1
    <3>3. QED BY <1>1, <3>1, <3>2, OneEntry
  <2>2. QED BY <2>1
<1>3. SumFunctionOnSet(Excess', Billed')
        = SumFunctionOnSet(Excess, Billed) + (Excess'[c] - Excess[c])
  <2>1. SumFunctionOnSet(Excess', Billed \union {c})
          = SumFunctionOnSet(Excess, Billed) + (Excess'[c] - Excess[c])
    <3>1. \A x \in Billed \union {c} : Excess[x] \in Int /\ Excess'[x] \in Int
      BY <1>1
    <3>2. \A x \in Billed : x # c => Excess'[x] = Excess[x]
      BY <1>1
    <3>3. QED BY <1>1, <3>1, <3>2, OneEntry
  <2>2. QED BY <2>1
<1>4. /\ SumFunctionOnSet(Bills, Billed) \in Int
      /\ SumFunctionOnSet(Excess, Billed) \in Int
      /\ 0 <= SumFunctionOnSet(Excess, Billed)
  <2>1. \A d \in Billed : /\ Bills[d] \in Int
                          /\ Excess[d] \in Int /\ Excess[d] \in Nat
    BY <1>1
  <2>2. QED BY <1>1, <2>1, SumInt, SumNotNegative
<1>5. /\ Total = SumFunctionOnSet(Bills, Billed)
      /\ Total <= Cutoff + SumFunctionOnSet(Excess, Billed)
  BY AccountIs
<1>6. /\ Bills[c] \in Int /\ Excess[c] \in Nat /\ Excess'[c] \in Nat
  BY <1>1
<1>7. /\ Total' = SumFunctionOnSet(Bills', Billed')
      /\ Total' <= Cutoff + SumFunctionOnSet(Excess', Billed')
  BY <1>1, <1>2, <1>3, <1>4, <1>5, <1>6
<1>8. QED BY <1>7, After

\* A step that changes neither the total nor what the account is made of.
LEMMA QuietKeeps ==
  ASSUME TotalIsTheAccount, CutoffHolds, Total' = Total, Billed' = Billed,
         \A d \in Billed : /\ Bill(d)' = Bill(d)
                           /\ settlements'[d] * Overrun(d)'
                                = settlements[d] * Overrun(d)
  PROVE  TotalIsTheAccount' /\ CutoffHolds'
<1>1. /\ [c \in Billed' |-> Bill(c)'] = [c \in Billed |-> Bill(c)]
      /\ [c \in Billed' |-> settlements'[c] * Overrun(c)']
           = [c \in Billed |-> settlements[c] * Overrun(c)]
  OBVIOUS
<1>2. QED BY <1>1 DEF TotalIsTheAccount, CutoffHolds
--------------------------------------------------------------------------------
(* The writes of the two scripts.                                             *)

\* An accepted reservation adds its amount, below the cutoff.
LEMMA ChargeKeeps ==
  ASSUME Calm, Calm', TotalIsTheAccount, CutoffHolds,
         NEW c \in Calls, Admits(c), Charge(c), UNCHANGED <<amount, cost>>
  PROVE  TotalIsTheAccount' /\ CutoffHolds'
<1>1. /\ amount[c] \in Nat /\ charges[c] \in Nat /\ settlements[c] \in Nat
      /\ charges' = [charges EXCEPT ![c] = @ + 1]
      /\ charges \in [Calls -> Nat] /\ settlements' = settlements
      /\ Total \in Int /\ Cutoff \in Nat
      /\ total' = Total + amount[c] /\ Total + amount[c] <= Cutoff
  BY BudgetAssumption DEF Calm, TypeOK, Charge, Admits, Total
<1>2. Total' = Total + amount[c] /\ Total' <= Cutoff
  BY <1>1, BudgetAssumption DEF Total
<1>3. Billed' = Billed \union {c}
  BY <1>1 DEF Billed, Calm, TypeOK
<1>4. \A d \in Calls \ {c} : Bills'[d] = Bills[d] /\ Excess'[d] = Excess[d]
  BY <1>1 DEF Bills, Bill, Excess, Overrun
<1>5. Excess'[c] = Excess[c]
  BY <1>1 DEF Excess, Overrun
<1>6. Bills'[c] = Bills[c] + amount[c]
  <2>1. /\ Bills[c] = charges[c] * amount[c] + settlements[c] * (cost[c] - amount[c])
        /\ Bills'[c] = (charges[c] + 1) * amount[c]
                         + settlements[c] * (cost[c] - amount[c])
    BY <1>1 DEF Bills, Bill
  <2>2. cost[c] - amount[c] \in Int
    BY DEF Calm, TypeOK
  <2>3. /\ charges[c] * amount[c] \in Int
        /\ settlements[c] * (cost[c] - amount[c]) \in Int
        /\ (charges[c] + 1) * amount[c] = charges[c] * amount[c] + amount[c]
    <3>1. charges[c] \in Int /\ amount[c] \in Int
      BY <1>1
    <3>2. (charges[c] + 1) * amount[c] = charges[c] * amount[c] + amount[c]
      BY <3>1, OneMore
    <3>3. /\ charges[c] * amount[c] \in Int
          /\ settlements[c] * (cost[c] - amount[c]) \in Int
      BY <1>1, <2>2, Products
    <3>4. QED BY <3>2, <3>3
  <2>4. QED BY <1>1, <2>1, <2>3
<1>7. QED BY <1>1, <1>2, <1>3, <1>4, <1>5, <1>6, EntryKeeps

\* A settlement adds its cost less what was reserved, and the excess of that.
LEMMA ApplyKeeps ==
  ASSUME Calm, Calm', TotalIsTheAccount, CutoffHolds,
         NEW c \in Calls, Settles(c), Apply(c), UNCHANGED <<amount, cost>>
  PROVE  TotalIsTheAccount' /\ CutoffHolds'
<1> DEFINE gap == cost[c] - amount[c]
<1>1. /\ amount[c] \in Nat /\ cost[c] \in Nat /\ gap \in Int
      /\ charges[c] \in Nat /\ settlements[c] \in Nat
      /\ settlements' = [settlements EXCEPT ![c] = @ + 1]
      /\ settlements \in [Calls -> Nat] /\ charges' = charges
      /\ total \in Int /\ total # Absent /\ reservations[c] = amount[c]
      /\ total' = total + gap
  BY BudgetAssumption DEF Calm, TypeOK, Held, Settles, Apply, Settled
<1>2. Total' = Total + gap
  BY <1>1, BudgetAssumption DEF Total
<1>3. Billed' = Billed \union {c}
  BY <1>1 DEF Billed, Calm, TypeOK
<1>4. \A d \in Calls \ {c} : Bills'[d] = Bills[d] /\ Excess'[d] = Excess[d]
  BY <1>1 DEF Bills, Bill, Excess, Overrun
<1>5. Bills'[c] = Bills[c] + gap
  <2>1. /\ Bills[c] = charges[c] * amount[c] + settlements[c] * gap
        /\ Bills'[c] = charges[c] * amount[c] + (settlements[c] + 1) * gap
    BY <1>1 DEF Bills, Bill
  <2> HIDE DEF gap
  <2>2. /\ charges[c] * amount[c] \in Int /\ settlements[c] * gap \in Int
        /\ (settlements[c] + 1) * gap = settlements[c] * gap + gap
    <3>1. settlements[c] \in Int /\ gap \in Int
      BY <1>1
    <3>2. (settlements[c] + 1) * gap = settlements[c] * gap + gap
      BY <3>1, OneMore
    <3>3. charges[c] * amount[c] \in Int /\ settlements[c] * gap \in Int
      BY <1>1, Products
    <3>4. QED BY <3>2, <3>3
  <2>3. QED BY <1>1, <2>1, <2>2
<1>6. Excess'[c] >= Excess[c] + gap
  <2>1. /\ Excess[c] = settlements[c] * Overrun(c)
        /\ Excess'[c] = (settlements[c] + 1) * Overrun(c)
    BY <1>1 DEF Excess, Overrun
  <2>2. Overrun(c) \in Nat /\ gap <= Overrun(c)
    BY <1>1 DEF Overrun
  <2> HIDE DEF gap
  <2>3. /\ settlements[c] * Overrun(c) \in Int
        /\ (settlements[c] + 1) * Overrun(c)
             = settlements[c] * Overrun(c) + Overrun(c)
    <3>1. settlements[c] \in Int /\ Overrun(c) \in Int
      BY <1>1, <2>2
    <3>2. QED BY <1>1, <3>1, Products, OneMore
  <2>4. QED BY <1>1, <2>1, <2>2, <2>3
<1>7. QED
  <2> HIDE DEF gap
  <2>1. QED BY <1>1, <1>2, <1>3, <1>4, <1>5, <1>6, EntryKeeps

--------------------------------------------------------------------------------
(* The invariant, action by action.                                           *)

\* A step of a caller, which touches no key.
LEMMA CallerKeeps ==
  ASSUME BInv, NEW c \in Calls,
         UNCHANGED <<total, reservations, account>>,
         \A d \in Calls \ {c} :
           /\ caller'[d] = caller[d] /\ amount'[d] = amount[d]
           /\ cost'[d] = cost[d] /\ reserves'[d] = reserves[d]
           /\ settles'[d] = settles[d],
         TypeOK',
         caller[c] # "done",
         caller'[c] # "new" /\ amount'[c] \in Amounts,
         caller'[c] # "done" => settles'[c] = 0,
         caller[c] # "new" => amount'[c] = amount[c],
         cost'[c] = cost[c] \/ caller[c] = "calling"
  PROVE  BInv'
<1>1. /\ TypeOK /\ Fresh /\ Unsettled /\ Asked /\ Held /\ IsFiniteSet(Billed)
      /\ TotalIsTheAccount /\ CutoffHolds /\ EveryChargeHasOneEnd
      /\ UNCHANGED <<charges, settlements, evicted, carried>>
      /\ Outstanding' = Outstanding /\ Outstanding \subseteq Calls
  BY DEF BInv, Calm, account, Outstanding, TypeOK
<1>2. Fresh' /\ Unsettled' /\ Asked'
  BY <1>1 DEF Fresh, Unsettled, Asked
<1>3. Held'
  <2>1. \A d \in Outstanding : amount'[d] = amount[d]
    BY <1>1 DEF Fresh
  <2>2. QED BY <1>1, <2>1 DEF Held
<1>4. EveryChargeHasOneEnd'
  BY <1>1 DEF EveryChargeHasOneEnd
<1>5. Billed' = Billed /\ Total' = Total
  BY <1>1 DEF Billed, Total
<1>6. \A d \in Billed : /\ Bill(d)' = Bill(d)
                        /\ settlements'[d] * Overrun(d)' = settlements[d] * Overrun(d)
  <2>1. SUFFICES ASSUME NEW d \in Billed
                 PROVE  /\ Bill(d)' = Bill(d)
                        /\ settlements'[d] * Overrun(d)'
                             = settlements[d] * Overrun(d)
    OBVIOUS
  <2>2. CASE d # c
    BY <1>1, <2>2 DEF Billed, Bill, Overrun
  <2>3. CASE d = c
    <3>1. settlements[c] = 0 /\ amount'[c] = amount[c]
      BY <1>1, <2>3 DEF Billed, Fresh, Unsettled
    <3>2. /\ cost[c] - amount[c] \in Int /\ cost'[c] - amount[c] \in Int
          /\ Overrun(c) \in Int /\ Overrun(c)' \in Int
      BY <1>1, <3>1 DEF TypeOK, Overrun
    <3>3. /\ 0 * (cost[c] - amount[c]) = 0 /\ 0 * (cost'[c] - amount[c]) = 0
          /\ 0 * Overrun(c) = 0 /\ 0 * Overrun(c)' = 0
      BY <3>2, Products
    <3>4. QED BY <1>1, <2>3, <3>1, <3>3 DEF Bill
  <2>4. QED BY <2>2, <2>3
<1>7. TotalIsTheAccount' /\ CutoffHolds'
  BY <1>1, <1>5, <1>6, QuietKeeps
<1>8. QED BY <1>1, <1>2, <1>3, <1>4, <1>5, <1>7 DEF BInv, Calm

\* A copy of _RESERVE runs, the first or another, heard or not.
LEMMA ReservationKeeps ==
  ASSUME BInv, NEW c \in Calls, RunReserve(c)
  PROVE  BInv'
<1>1. /\ TypeOK /\ Fresh /\ Unsettled /\ Asked /\ Held /\ IsFiniteSet(Billed)
      /\ Calm /\ TotalIsTheAccount /\ CutoffHolds /\ EveryChargeHasOneEnd
      /\ UNCHANGED <<amount, cost, settles>>
      /\ reserves' = [reserves EXCEPT ![c] = @ - 1] /\ reserves[c] > 0
      /\ caller[c] # "new" /\ amount[c] \in Amounts /\ amount[c] \in Nat \ {0}
  BY BudgetAssumption DEF BInv, Calm, RunReserve, Fresh, Asked, TypeOK
<1>2. /\ \/ caller' = caller
         \/ caller[c] = "reserving" /\ caller' = [caller EXCEPT ![c] = "calling"]
         \/ caller[c] = "reserving" /\ caller' = [caller EXCEPT ![c] = "done"]
      /\ caller' \in [Calls -> {"new", "reserving", "calling", "done"}]
      /\ \A d \in Calls : caller'[d] = "new" <=> caller[d] = "new"
      /\ \A d \in Calls : caller'[d] # "done" => caller[d] # "done"
      /\ reserves' \in [Calls -> 0..MaxSends]
      /\ \A d \in Calls : caller[d] = "new" => reserves'[d] = 0
  <2>1. /\ \/ caller' = caller
           \/ caller[c] = "reserving" /\ caller' = [caller EXCEPT ![c] = "calling"]
           \/ caller[c] = "reserving" /\ caller' = [caller EXCEPT ![c] = "done"]
    BY DEF RunReserve, Answered
  <2>2. /\ caller' \in [Calls -> {"new", "reserving", "calling", "done"}]
        /\ \A d \in Calls : caller'[d] = "new" <=> caller[d] = "new"
        /\ \A d \in Calls : caller'[d] # "done" => caller[d] # "done"
    BY <1>1, <2>1 DEF TypeOK
  <2>3. /\ reserves' \in [Calls -> 0..MaxSends]
        /\ \A d \in Calls : caller[d] = "new" => reserves'[d] = 0
    BY <1>1, BudgetAssumption DEF TypeOK, Fresh
  <2>4. QED BY <2>1, <2>2, <2>3
<1>3. CASE Admits(c) /\ Charge(c)
  <2>1. /\ total' = Total + amount[c] /\ c \notin Outstanding
        /\ reservations' = [d \in Outstanding \union {c} |->
                              IF d = c THEN amount[c] ELSE reservations[d]]
        /\ charges' = [charges EXCEPT ![c] = @ + 1]
        /\ UNCHANGED <<settlements, evicted, carried>>
    BY <1>3 DEF Admits, Charge
  <2>2. Outstanding' = Outstanding \union {c}
    BY <2>1 DEF Outstanding
  <2>3. TypeOK'
    <3>1. /\ total' \in Int /\ Outstanding' \subseteq Calls
          /\ charges' \in [Calls -> Nat]
      BY <1>1, <2>1, <2>2 DEF TypeOK, Total
    <3>2. \A d \in Outstanding' : reservations'[d] \in Nat \ {0}
      BY <1>1, <2>1, <2>2 DEF TypeOK, Outstanding
    <3>3. QED BY <1>1, <1>2, <2>1, <3>1, <3>2 DEF TypeOK
  <2>4. Fresh'
    BY <1>1, <1>2, <2>1, <2>2 DEF Fresh, TypeOK
  <2>5. Unsettled' /\ Asked'
    BY <1>1, <1>2, <2>1 DEF Unsettled, Asked
  <2>6. Held'
    BY <1>1, <2>1, <2>2 DEF Held
  <2>7. IsFiniteSet(Billed')
    <3>1. Billed' = Billed \union {c}
      BY <1>1, <2>1 DEF Billed, TypeOK
    <3>2. QED BY <1>1, <3>1, FS_AddElement
  <2>8. EveryChargeHasOneEnd'
    BY <1>1, <2>1, <2>2 DEF EveryChargeHasOneEnd, TypeOK
  <2>9. Calm'
    BY <2>3, <2>4, <2>5, <2>6, <2>7 DEF Calm
  <2>10. TotalIsTheAccount' /\ CutoffHolds'
    BY <1>1, <1>3, <2>9, ChargeKeeps
  <2>11. QED BY <2>8, <2>9, <2>10 DEF BInv
<1>4. CASE UNCHANGED <<total, reservations, account>>
  <2>1. /\ UNCHANGED <<charges, settlements, evicted, carried>>
        /\ Outstanding' = Outstanding /\ Total' = Total /\ Billed' = Billed
    BY <1>4 DEF account, Outstanding, Total, Billed
  <2>2. TypeOK' /\ Fresh' /\ Unsettled' /\ Asked' /\ Held'
    <3>1. TypeOK'
      BY <1>1, <1>2, <1>4, <2>1 DEF TypeOK
    <3>2. Fresh' /\ Unsettled' /\ Asked'
      BY <1>1, <1>2, <2>1 DEF Fresh, Unsettled, Asked
    <3>3. Held'
      BY <1>1, <1>4, <2>1 DEF Held
    <3>4. QED BY <3>1, <3>2, <3>3
  <2>3. EveryChargeHasOneEnd'
    BY <1>1, <2>1 DEF EveryChargeHasOneEnd
  <2>4. TotalIsTheAccount' /\ CutoffHolds'
    BY <1>1, <2>1, QuietKeeps DEF Bill, Overrun
  <2>5. QED BY <1>1, <2>1, <2>2, <2>3, <2>4 DEF BInv, Calm
<1>5. QED BY <1>3, <1>4 DEF RunReserve

\* A copy of _SETTLE runs, the first or another.
LEMMA SettlementKeeps ==
  ASSUME BInv, NEW c \in Calls, RunSettle(c)
  PROVE  BInv'
<1>1. /\ TypeOK /\ Fresh /\ Unsettled /\ Asked /\ Held /\ IsFiniteSet(Billed)
      /\ Calm /\ TotalIsTheAccount /\ CutoffHolds /\ EveryChargeHasOneEnd
      /\ UNCHANGED <<caller, amount, cost, reserves>>
      /\ settles' = [settles EXCEPT ![c] = @ - 1] /\ settles[c] > 0
      /\ settles' \in [Calls -> 0..MaxSends]
      /\ caller[c] = "done"
  BY BudgetAssumption DEF BInv, Calm, RunSettle, Unsettled, TypeOK
<1>2. CASE Settles(c) /\ Apply(c)
  <2>1. /\ c \in Outstanding /\ total # Absent
        /\ total' = total + (cost[c] - reservations[c])
        /\ reservations' = [d \in Outstanding \ {c} |-> reservations[d]]
        /\ settlements' = [settlements EXCEPT ![c] = @ + 1]
        /\ UNCHANGED <<charges, evicted, carried>>
    BY <1>2 DEF Settles, Apply, Settled, Without
  <2>2. Outstanding' = Outstanding \ {c}
    BY <2>1 DEF Outstanding
  <2>3. TypeOK'
    <3>1. /\ total' \in Int /\ settlements' \in [Calls -> Nat]
      BY <1>1, <2>1 DEF TypeOK
    <3>2. /\ Outstanding' \subseteq Calls
          /\ \A d \in Outstanding' : reservations'[d] \in Nat \ {0}
      BY <1>1, <2>1, <2>2 DEF TypeOK
    <3>3. QED BY <1>1, <2>1, <3>1, <3>2 DEF TypeOK
  <2>4. Fresh' /\ Unsettled' /\ Asked'
    BY <1>1, <2>1, <2>2 DEF Fresh, Unsettled, Asked, TypeOK
  <2>5. Held'
    BY <1>1, <2>1, <2>2 DEF Held
  <2>6. IsFiniteSet(Billed')
    <3>1. Billed' = Billed \union {c}
      BY <1>1, <2>1 DEF Billed, TypeOK
    <3>2. QED BY <1>1, <3>1, FS_AddElement
  <2>7. EveryChargeHasOneEnd'
    BY <1>1, <2>1, <2>2 DEF EveryChargeHasOneEnd, TypeOK
  <2>8. Calm'
    BY <2>3, <2>4, <2>5, <2>6 DEF Calm
  <2>9. TotalIsTheAccount' /\ CutoffHolds'
    BY <1>1, <1>2, <2>8, ApplyKeeps
  <2>10. QED BY <2>7, <2>8, <2>9 DEF BInv
<1>3. CASE UNCHANGED <<total, reservations, account>>
  <2>1. /\ UNCHANGED <<charges, settlements, evicted, carried>>
        /\ Outstanding' = Outstanding /\ Total' = Total /\ Billed' = Billed
    BY <1>3 DEF account, Outstanding, Total, Billed
  <2>2. TypeOK' /\ Fresh' /\ Unsettled' /\ Asked' /\ Held'
    <3>1. TypeOK'
      BY <1>1, <1>3, <2>1 DEF TypeOK
    <3>2. Fresh' /\ Unsettled' /\ Asked'
      BY <1>1, <2>1 DEF Fresh, Unsettled, Asked
    <3>3. Held'
      BY <1>1, <1>3, <2>1 DEF Held
    <3>4. QED BY <3>1, <3>2, <3>3
  <2>3. EveryChargeHasOneEnd'
    BY <1>1, <2>1 DEF EveryChargeHasOneEnd
  <2>4. TotalIsTheAccount' /\ CutoffHolds'
    BY <1>1, <2>1, QuietKeeps DEF Bill, Overrun
  <2>5. QED BY <1>1, <2>1, <2>2, <2>3, <2>4 DEF BInv, Calm
<1>4. QED BY <1>2, <1>3 DEF RunSettle

\* The total disappears, with the hash or without: nothing is charged under the
\* next one yet.
LEMMA TotalLossKeeps ==
  ASSUME BInv, TotalLost
  PROVE  BInv'
<1>1. /\ TypeOK /\ Fresh /\ Unsettled /\ Asked /\ Held /\ IsFiniteSet(Billed)
      /\ UNCHANGED <<caller, amount, cost, reserves, settles>>
      /\ reservations' \in {reservations, NoReservations} /\ total' = Absent
      /\ charges' = Zero /\ settlements' = Zero /\ evicted' = Zero
      /\ carried' = Outstanding'
  BY DEF BInv, Calm, TotalLost, Outstanding
<1>2. /\ Outstanding' \in {Outstanding, {}}
      /\ Outstanding' # {} => reservations' = reservations
  BY <1>1 DEF Outstanding, NoReservations
<1>3. TypeOK'
  BY <1>1, <1>2 DEF TypeOK, Zero
<1>4. Fresh' /\ Unsettled' /\ Asked'
  BY <1>1, <1>2 DEF Fresh, Unsettled, Asked, Zero
<1>5. Held'
  BY <1>1, <1>2 DEF Held
<1>6. Billed' = {} /\ Total' = 0
  BY <1>1 DEF Billed, Zero, Total
<1>7. EveryChargeHasOneEnd'
  BY <1>1 DEF EveryChargeHasOneEnd, Zero
<1>8. /\ SumFunction([c \in Billed |-> Bill(c)])' = 0
      /\ SumFunction([c \in Billed |-> settlements[c] * Overrun(c)])' = 0
  BY <1>6, SumEmpty DEF SumFunction
<1>9. TotalIsTheAccount' /\ CutoffHolds'
  BY <1>6, <1>8, BudgetAssumption DEF TotalIsTheAccount, CutoffHolds
<1>10. QED
  BY <1>3, <1>4, <1>5, <1>6, <1>7, <1>9, FS_EmptySet DEF BInv, Calm

\* The hash disappears under the total: its entries end there.
LEMMA EvictionKeeps ==
  ASSUME BInv, ReservationsEvicted
  PROVE  BInv'
<1>1. /\ TypeOK /\ Fresh /\ Unsettled /\ Asked /\ Held /\ IsFiniteSet(Billed)
      /\ TotalIsTheAccount /\ CutoffHolds /\ EveryChargeHasOneEnd
      /\ UNCHANGED <<total, caller, amount, cost, reserves, settles, charges,
                     settlements, carried>>
      /\ reservations' = NoReservations
      /\ evicted' = [c \in Calls |->
                       IF c \in Outstanding THEN evicted[c] + 1 ELSE evicted[c]]
  BY DEF BInv, Calm, ReservationsEvicted
<1>2. Outstanding' = {} /\ Total' = Total /\ Billed' = Billed
  BY <1>1 DEF Outstanding, NoReservations, Total, Billed
<1>3. TypeOK' /\ Fresh' /\ Unsettled' /\ Asked' /\ Held'
  BY <1>1, <1>2 DEF TypeOK, Fresh, Unsettled, Asked, Held
<1>4. EveryChargeHasOneEnd'
  BY <1>1, <1>2 DEF EveryChargeHasOneEnd, TypeOK
<1>5. TotalIsTheAccount' /\ CutoffHolds'
  BY <1>1, <1>2, QuietKeeps DEF Bill, Overrun
<1>6. QED BY <1>1, <1>2, <1>3, <1>4, <1>5 DEF BInv, Calm

LEMMA NextBInv == BInv /\ [Next]_vars => BInv'
<1> SUFFICES ASSUME BInv, [Next]_vars PROVE BInv'
  OBVIOUS
<1>0. TypeOK /\ Fresh /\ Unsettled /\ Asked /\ MaxSends \in Nat \ {0}
  BY BudgetAssumption DEF BInv, Calm
<1>1. ASSUME NEW c \in Calls, NEW amt \in Amounts, Reserve(c, amt)
      PROVE  BInv'
  <2>1. TypeOK'
    BY <1>0, <1>1, BudgetAssumption
    DEF Reserve, TypeOK, account, Outstanding
  <2>2. settles[c] = 0
    BY <1>0, <1>1 DEF Reserve, Unsettled
  <2>3. QED BY <1>0, <1>1, <2>1, <2>2, CallerKeeps DEF Reserve, TypeOK
<1>2. ASSUME NEW c \in Calls, NEW reported \in Costs, Settle(c, reported)
      PROVE  BInv'
  <2>1. TypeOK'
    BY <1>0, <1>2, BudgetAssumption
    DEF Settle, TypeOK, account, Outstanding
  <2>2. amount[c] \in Amounts
    BY <1>0, <1>2 DEF Settle, Asked
  <2>3. QED BY <1>0, <1>2, <2>1, <2>2, CallerKeeps DEF Settle, TypeOK
<1>3. ASSUME NEW c \in Calls, ReserveUnanswered(c) \/ NotSettled(c)
      PROVE  BInv'
  <2>1. TypeOK'
    BY <1>0, <1>3
    DEF ReserveUnanswered, NotSettled, TypeOK, account, Outstanding
  <2>2. amount[c] \in Amounts
    BY <1>0, <1>3 DEF ReserveUnanswered, NotSettled, Asked
  <2>3. QED
    BY <1>0, <1>3, <2>1, <2>2, CallerKeeps
    DEF ReserveUnanswered, NotSettled, TypeOK
<1>4. ASSUME NEW c \in Calls, RunReserve(c)
      PROVE  BInv'
  BY <1>4, ReservationKeeps
<1>5. ASSUME NEW c \in Calls, RunSettle(c)
      PROVE  BInv'
  BY <1>5, SettlementKeeps
<1>6. ASSUME TotalLost \/ ReservationsEvicted
      PROVE  BInv'
  BY <1>6, TotalLossKeeps, EvictionKeeps
<1>7. CASE UNCHANGED vars
  BY <1>7 DEF vars, account, BInv, Calm, TypeOK, Fresh, Unsettled, Asked, Held,
              EveryChargeHasOneEnd, TotalIsTheAccount, CutoffHolds, Billed, Bill,
              Overrun, Total, Outstanding
<1>8. QED BY <1>1, <1>2, <1>3, <1>4, <1>5, <1>6, <1>7 DEF Next

--------------------------------------------------------------------------------
LEMMA BudgetInvariance == Spec => []BInv
BY InitBInv, NextBInv, PTL DEF Spec

\* Type correctness of the ledger, its callers and its scripts.
THEOREM BudgetTypeCorrect == Spec => []TypeOK
<1>1. BInv => TypeOK
  BY DEF BInv, Calm
<1>2. QED BY <1>1, BudgetInvariance, PTL

\* The account of the month: whatever answer was lost, copy of _RESERVE or _SETTLE
\* ran late or again, or key was evicted between them, the total is what each call
\* reserved, as often as it was charged, and what its settlements made of it.
THEOREM AccountHolds == Spec => []TotalIsTheAccount
<1>1. BInv => TotalIsTheAccount
  BY DEF BInv
<1>2. QED BY <1>1, BudgetInvariance, PTL

\* A reservation sent again charges again only where the first charge has ended: it
\* was settled, or its entry was evicted, or its total lost; and no charge has two
\* ends.
THEOREM ChargesEndOnce == Spec => []EveryChargeHasOneEnd
<1>1. BInv => EveryChargeHasOneEnd
  BY DEF BInv
<1>2. QED BY <1>1, BudgetInvariance, PTL

\* The cutoff of _RESERVE bounds the total for any number of concurrent calls:
\* only a settlement above its own reservation can pass it, and by no more than
\* that excess.
THEOREM CutoffIsKept == Spec => []CutoffHolds
<1>1. BInv => CutoffHolds
  BY DEF BInv
<1>2. QED BY <1>1, BudgetInvariance, PTL
================================================================================
