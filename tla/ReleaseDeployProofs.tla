-------------------------- MODULE ReleaseDeployProofs --------------------------
(******************************************************************************)
(* Theorems about ReleaseDeploy for any three releases.  The invariant says    *)
(* where the rollout stands when the coordinator is at each label (Stages),    *)
(* that what it has not touched, or has put back, is as its snapshot had it    *)
(* (Untouched), what is true while the candidate may be served (Promotion),    *)
(* and what a transaction in flight has seen (Transactions).                   *)
(******************************************************************************)
EXTENDS ReleaseDeploy, SequenceTheorems, FiniteSetTheorems, TLAPS

--------------------------------------------------------------------------------
\* What the rollout may have changed, oldest first, and the same when restoring.
OutPaths == {<<>>, <<"api">>, <<"api", "web">>, <<"api", "web", "data">>,
             <<"api", "web", "aliases">>, <<"api", "web", "data", "aliases">>}
BackPaths == {<<"api">>, <<"web", "api">>, <<"data", "web", "api">>,
              <<"aliases", "web", "api">>, <<"aliases", "data", "web", "api">>}

Restoring == {"restore", "reactivating", "rollback"}

Stages ==
  /\ pc \in {"idle", "refused"} => changed = <<>>
  /\ pc = "request" => \/ at = "api" /\ changed = <<>>
                       \/ at = "web" /\ changed = <<"api">>
  /\ pc = "wait" => \/ at = "api" /\ changed = <<"api">>
                    \/ at = "web" /\ changed = <<"api", "web">>
  /\ pc = "data" => at = "data" /\ changed = <<"api", "web">>
  /\ pc = "activating" => at = "data" /\ changed = <<"api", "web", "data">>
  /\ pc = "aliases" =>
       at = "aliases" /\ changed \in {<<"api", "web">>, <<"api", "web", "data">>}
  /\ pc = "smoke" => changed \in {<<"api", "web">>, <<"api", "web", "data">>,
                                  <<"api", "web", "aliases">>,
                                  <<"api", "web", "data", "aliases">>}
  /\ pc \in Restoring => changed \in BackPaths /\ at = changed[1]
  /\ pc = "reactivating" => at = "data"
  /\ pc = "rollback" => at \in Services
  /\ changed \in OutPaths \union BackPaths
  /\ pc \notin Restoring \union {"ended", "crashed"} => failures = {}

\* All but the components of the set are as the snapshot had them.
AsBefore(set, running, inFlight, served, aliased) ==
  /\ \A s \in Services \ set : running[s] = "old" /\ s \notin inFlight
  /\ "data" \notin set => served = {Old}
  /\ "aliases" \notin set => aliased = Old

Untouched ==
  /\ pc \in Running /\ failures = {} =>
       AsBefore(Range(changed), live, building, Active, aliases)
  /\ pc = "rollback" /\ failures = {} => at \notin building

\* The services run the tested commit, and no build is left to replace it.
Tested == building = {} /\ \A s \in Services : live[s] = "new"

Serving ==
  \/ pc \in {"data", "activating", "aliases", "smoke"}
  \/ pc \in {"restore", "reactivating"} /\ at \in {"data", "aliases"}

Promotion ==
  /\ pc \in {"request", "wait"} /\ at = "web" =>
       live["api"] = "new" /\ "api" \notin building
  /\ Serving => Tested
  /\ failures = {} /\ (New \in Active \/ aliases = New) => Tested
  /\ pc = "aliases" => plan.aliases # "none"
  /\ pc = "smoke" => aliases = IF plan.aliases = "none" THEN Old ELSE New

\* One transaction at a time: the rows it scanned stay the active ones.
Transaction == [pc : {"idle", "lock", "scan", "update", "commit", "done", "failed"},
                target : Versions \union {"none"},
                scan : SUBSET Versions, held : SUBSET Versions]

Transactions ==
  /\ txn \in [Writers -> Transaction]
  /\ \A w \in Writers :
       /\ Open(w) => txn[w].target \in Versions
       /\ ~ Open(w) => txn[w].held = {}
       /\ txn[w].pc \in {"update", "commit"} =>
            txn[w].scan = Active \ {txn[w].target}
  /\ Open(Loader) => pc \notin Running /\ txn[Loader].target = Loaded
  /\ Open(Deployer) =>
       \/ pc = "activating" /\ txn[Deployer].target = New
       \/ pc = "reactivating" /\ txn[Deployer].target = Old

OneActive == \E v \in Versions : Active = {v}

Basics ==
  /\ status \in [Versions -> Statuses]
  /\ plan \in [data : BOOLEAN, aliases : {"none", "same names", "new names"}]
  /\ live \in [Services -> Code]
  /\ building \subseteq Services
  /\ aliases \in {Old, New}
  /\ pc \in Running \union {"idle", "refused", "ended", "crashed"}
  /\ at \in Components \union {None}
  /\ rollout \in {"none", "starting", "live", "restoring", "restored",
                  "restoration_failed"}
  /\ failures \subseteq Components

\* The step of RestoredMeansRestored.
RestoredStep == (rollout' = "restored" /\ rollout # "restored") => SnapshotHolds'

RInv ==
  Basics /\ Stages /\ Untouched /\ Promotion /\ Transactions /\ OneActive

--------------------------------------------------------------------------------
(* Short sequences.                                                           *)

LEMMA Appends ==
  ASSUME NEW a, NEW b, NEW c
  PROVE  /\ Append(<<>>, a) = <<a>>
         /\ Append(<<a>>, b) = <<a, b>>
         /\ Append(<<a, b>>, c) = <<a, b, c>>
<1> DEFINE S == {a, b, c}
<1>1. <<>> \in Seq(S) /\ <<a>> \in Seq(S) /\ <<a, b>> \in Seq(S)
  OBVIOUS
<1>2. /\ \A q \in Seq(S) : Len(q) = 1 => q = <<q[1]>>
      /\ \A q \in Seq(S) : Len(q) = 2 => q = <<q[1], q[2]>>
      /\ \A q \in Seq(S) : Len(q) = 3 => q = <<q[1], q[2], q[3]>>
  OBVIOUS
<1>3. Append(<<>>, a) = <<a>>
  BY <1>1, <1>2, AppendProperties
<1>4. Append(<<a>>, b) = <<a, b>>
  <2> DEFINE p == <<a>>
             q == Append(p, b)
  <2>1. p \in Seq(S) /\ b \in S
    BY <1>1
  <2>2. /\ q \in Seq(S) /\ Len(q) = Len(p) + 1 /\ q[Len(p) + 1] = b
        /\ \A i \in 1..Len(p) : q[i] = p[i]
    <3> HIDE DEF p, S
    <3> QED BY <2>1, AppendProperties
  <2> HIDE DEF q
  <2>3. Len(q) = 2 /\ q[1] = a /\ q[2] = b
    BY <2>2
  <2>4. QED BY <1>2, <2>2, <2>3 DEF q
<1>5. Append(<<a, b>>, c) = <<a, b, c>>
  <2> DEFINE p == <<a, b>>
             q == Append(p, c)
  <2>1. p \in Seq(S) /\ c \in S
    BY <1>1
  <2>2. /\ q \in Seq(S) /\ Len(q) = Len(p) + 1 /\ q[Len(p) + 1] = c
        /\ \A i \in 1..Len(p) : q[i] = p[i]
    <3> HIDE DEF p, S
    <3> QED BY <2>1, AppendProperties
  <2> HIDE DEF q
  <2>3. Len(q) = 3 /\ q[1] = a /\ q[2] = b /\ q[3] = c
    BY <2>2
  <2>4. QED BY <1>2, <2>2, <2>3 DEF q
<1>6. QED BY <1>3, <1>4, <1>5

LEMMA AppendToThree ==
  ASSUME NEW a, NEW b, NEW c, NEW d
  PROVE  Append(<<a, b, c>>, d) = <<a, b, c, d>>
<1> DEFINE S == {a, b, c, d}
           p == <<a, b, c>>
           q == Append(p, d)
<1>1. p \in Seq(S) /\ d \in S
  OBVIOUS
<1>2. /\ q \in Seq(S) /\ Len(q) = Len(p) + 1 /\ q[Len(p) + 1] = d
      /\ \A i \in 1..Len(p) : q[i] = p[i]
  <2> HIDE DEF p, S
  <2> QED BY <1>1, AppendProperties
<1> HIDE DEF q
<1>3. Len(q) = 4 /\ q[1] = a /\ q[2] = b /\ q[3] = c /\ q[4] = d
  BY <1>2
<1>4. \A s \in Seq(S) : Len(s) = 4 => s = <<s[1], s[2], s[3], s[4]>>
  OBVIOUS
<1>5. QED BY <1>2, <1>3, <1>4 DEF q

LEMMA Tails ==
  ASSUME NEW a, NEW b, NEW c, NEW d
  PROVE  /\ Tail(<<a>>) = <<>>
         /\ Tail(<<a, b>>) = <<b>>
         /\ Tail(<<a, b, c>>) = <<b, c>>
         /\ Tail(<<a, b, c, d>>) = <<b, c, d>>
OBVIOUS

LEMMA Heads ==
  ASSUME NEW a, NEW b, NEW c, NEW d
  PROVE  /\ Head(<<a>>) = a
         /\ Head(<<a, b>>) = a
         /\ Head(<<a, b, c>>) = a
         /\ Head(<<a, b, c, d>>) = a
OBVIOUS

LEMMA Ranges ==
  ASSUME NEW a, NEW b, NEW c, NEW d
  PROVE  /\ Range(<<>>) = {}
         /\ Range(<<a>>) = {a}
         /\ Range(<<a, b>>) = {a, b}
         /\ Range(<<a, b, c>>) = {a, b, c}
         /\ Range(<<a, b, c, d>>) = {a, b, c, d}
BY DEF Range

LEMMA PathTypes ==
  \A p \in OutPaths \union BackPaths : p \in Seq(Components) /\ IsInjective(p)
<1>1. \A p \in OutPaths \union BackPaths : p \in Seq(Components)
  <2>1. \A a, b, c, d \in Components :
          /\ <<>> \in Seq(Components) /\ <<a>> \in Seq(Components)
          /\ <<a, b>> \in Seq(Components) /\ <<a, b, c>> \in Seq(Components)
          /\ <<a, b, c, d>> \in Seq(Components)
    OBVIOUS
  <2>2. {"api", "web", "data", "aliases"} = Components
    BY DEF Components, Services
  <2>3. QED BY <2>1, <2>2 DEF OutPaths, BackPaths
<1>2. \A p \in OutPaths : IsInjective(p)
  BY DEF OutPaths, IsInjective
<1>3. \A p \in BackPaths : IsInjective(p)
  BY DEF BackPaths, IsInjective
<1>4. QED BY <1>1, <1>2, <1>3

LEMMA ThreeReleases ==
  /\ Writers = {Deployer, Loader} /\ Versions = {Old, New, Loaded}
  /\ Old # New /\ Old # Loaded /\ New # Loaded
<1>1. \A x, y : Cardinality({x, y}) <= 2 /\ Cardinality({x, y}) \in Nat
  <2> TAKE x, y
  <2>1. IsFiniteSet({x}) /\ Cardinality({x}) = 1
    BY FS_Singleton
  <2>2. IsFiniteSet({x} \union {y})
        /\ (Cardinality({x} \union {y}) = 1 \/ Cardinality({x} \union {y}) = 2)
    BY <2>1, FS_AddElement
  <2>3. {x} \union {y} = {x, y}
    OBVIOUS
  <2>4. QED BY <2>2, <2>3
<1>2. Writers = {Deployer, Loader} /\ Versions = {Old, New, Loaded}
      /\ Cardinality({Old, New, Loaded}) = 3
  BY ReleasesAssumption
<1>3. /\ Old = New => {Old, New, Loaded} = {Old, Loaded}
      /\ Old = Loaded => {Old, New, Loaded} = {Old, New}
      /\ New = Loaded => {Old, New, Loaded} = {Old, New}
  OBVIOUS
<1>4. Cardinality({Old, Loaded}) # 3 /\ Cardinality({Old, New}) # 3
  <2>1. /\ Cardinality({Old, Loaded}) <= 2 /\ Cardinality({Old, Loaded}) \in Nat
        /\ Cardinality({Old, New}) <= 2 /\ Cardinality({Old, New}) \in Nat
    BY <1>1, Zenon
  <2>2. QED BY <2>1
<1>5. QED BY <1>2, <1>3, <1>4

\* What the paths have to do with each other.
LEMMA OutSteps ==
  \A p \in OutPaths \ {<<>>} :
    /\ Reverse(p) \in BackPaths
    /\ Range(Reverse(p)) = Range(p)
    /\ Head(Reverse(p)) = Reverse(p)[1]
<1> TAKE p \in OutPaths \ {<<>>}
<1>1. CASE p = <<"api">>
  <2>1. Reverse(p) = <<"api">>
    BY <1>1 DEF Reverse
  <2>2. Range(p) = {"api"} /\ Range(Reverse(p)) = {"api"}
    BY <1>1, <2>1 DEF Range
  <2>3. Head(Reverse(p)) = "api" /\ Reverse(p)[1] = "api"
    BY <2>1, Heads
  <2>4. QED BY <2>1, <2>2, <2>3 DEF BackPaths
<1>2. CASE p = <<"api", "web">>
  <2>1. Reverse(p) = <<"web", "api">>
    BY <1>2 DEF Reverse
  <2>2. Range(p) = {"api", "web"} /\ Range(Reverse(p)) = {"web", "api"}
    BY <1>2, <2>1 DEF Range
  <2>3. Head(Reverse(p)) = "web" /\ Reverse(p)[1] = "web"
    BY <2>1, Heads
  <2>4. QED BY <2>1, <2>2, <2>3 DEF BackPaths
<1>3. CASE p = <<"api", "web", "data">>
  <2>1. Reverse(p) = <<"data", "web", "api">>
    BY <1>3 DEF Reverse
  <2>2. Range(p) = {"api", "web", "data"} /\ Range(Reverse(p)) = {"data", "web", "api"}
    BY <1>3, <2>1 DEF Range
  <2>3. Head(Reverse(p)) = "data" /\ Reverse(p)[1] = "data"
    BY <2>1, Heads
  <2>4. QED BY <2>1, <2>2, <2>3 DEF BackPaths
<1>4. CASE p = <<"api", "web", "aliases">>
  <2>1. Reverse(p) = <<"aliases", "web", "api">>
    BY <1>4 DEF Reverse
  <2>2. Range(p) = {"api", "web", "aliases"} /\ Range(Reverse(p)) = {"aliases", "web", "api"}
    BY <1>4, <2>1 DEF Range
  <2>3. Head(Reverse(p)) = "aliases" /\ Reverse(p)[1] = "aliases"
    BY <2>1, Heads
  <2>4. QED BY <2>1, <2>2, <2>3 DEF BackPaths
<1>5. CASE p = <<"api", "web", "data", "aliases">>
  <2>1. Reverse(p) = <<"aliases", "data", "web", "api">>
    BY <1>5 DEF Reverse
  <2>2. Range(p) = {"api", "web", "data", "aliases"} /\ Range(Reverse(p)) = {"aliases", "data", "web", "api"}
    BY <1>5, <2>1 DEF Range
  <2>3. Head(Reverse(p)) = "aliases" /\ Reverse(p)[1] = "aliases"
    BY <2>1, Heads
  <2>4. QED BY <2>1, <2>2, <2>3 DEF BackPaths
<1>6. QED BY <1>1, <1>2, <1>3, <1>4, <1>5 DEF OutPaths

LEMMA BackSteps ==
  \A p \in BackPaths :
    /\ Tail(p) = <<>> \/ Tail(p) \in BackPaths
    /\ Head(p) = p[1] /\ p[1] \in Components
    /\ Range(p) = {p[1]} \union Range(Tail(p)) /\ p[1] \notin Range(Tail(p))
    /\ p[1] \in Services => "data" \notin Range(p) /\ "aliases" \notin Range(p)
    /\ p[1] = "data" => "aliases" \notin Range(p)
    /\ Tail(p) # <<>> /\ Tail(p)[1] \in {"data", "aliases"} => p[1] = "aliases"
<1> TAKE p \in BackPaths
<1>1. CASE p = <<"api">>
  <2>1. Tail(p) = <<>>
    BY <1>1, Tails
  <2>2. Range(p) = {"api"} /\ Range(Tail(p)) = {}
    BY <1>1, <2>1 DEF Range
  <2>3. Head(p) = "api" /\ p[1] = "api"
    BY <1>1, <2>1, Heads
  <2>4. QED BY <2>1, <2>2, <2>3 DEF BackPaths, Components, Services
<1>2. CASE p = <<"web", "api">>
  <2>1. Tail(p) = <<"api">>
    BY <1>2, Tails
  <2>2. Range(p) = {"web", "api"} /\ Range(Tail(p)) = {"api"}
    BY <1>2, <2>1 DEF Range
  <2>3. Head(p) = "web" /\ p[1] = "web" /\ Tail(p)[1] = "api"
    BY <1>2, <2>1, Heads
  <2>4. QED BY <2>1, <2>2, <2>3 DEF BackPaths, Components, Services
<1>3. CASE p = <<"data", "web", "api">>
  <2>1. Tail(p) = <<"web", "api">>
    BY <1>3, Tails
  <2>2. Range(p) = {"data", "web", "api"} /\ Range(Tail(p)) = {"web", "api"}
    BY <1>3, <2>1 DEF Range
  <2>3. Head(p) = "data" /\ p[1] = "data" /\ Tail(p)[1] = "web"
    BY <1>3, <2>1, Heads
  <2>4. QED BY <2>1, <2>2, <2>3 DEF BackPaths, Components, Services
<1>4. CASE p = <<"aliases", "web", "api">>
  <2>1. Tail(p) = <<"web", "api">>
    BY <1>4, Tails
  <2>2. Range(p) = {"aliases", "web", "api"} /\ Range(Tail(p)) = {"web", "api"}
    BY <1>4, <2>1 DEF Range
  <2>3. Head(p) = "aliases" /\ p[1] = "aliases" /\ Tail(p)[1] = "web"
    BY <1>4, <2>1, Heads
  <2>4. QED BY <2>1, <2>2, <2>3 DEF BackPaths, Components, Services
<1>5. CASE p = <<"aliases", "data", "web", "api">>
  <2>1. Tail(p) = <<"data", "web", "api">>
    BY <1>5, Tails
  <2>2. Range(p) = {"aliases", "data", "web", "api"} /\ Range(Tail(p)) = {"data", "web", "api"}
    BY <1>5, <2>1 DEF Range
  <2>3. Head(p) = "aliases" /\ p[1] = "aliases" /\ Tail(p)[1] = "data"
    BY <1>5, <2>1, Heads
  <2>4. QED BY <2>1, <2>2, <2>3 DEF BackPaths, Components, Services
<1>6. QED BY <1>1, <1>2, <1>3, <1>4, <1>5 DEF BackPaths

--------------------------------------------------------------------------------
LEMMA InitRInv == Init => RInv
<1> SUFFICES ASSUME Init PROVE RInv
  OBVIOUS
<1>0. Active = {Old}
  BY ThreeReleases DEF Init, WritersInit, Active
<1>1. Basics
  BY ThreeReleases DEF Init, WritersInit, Basics, Statuses, Code
<1>2. Stages /\ Untouched
  BY DEF Init, Stages, Untouched, OutPaths, Restoring, Running
<1>3. Promotion
  BY <1>0, ThreeReleases DEF Init, Promotion, Serving
<1>4. Transactions
  <2>1. \A w \in Writers : txn[w] = [pc |-> "idle", target |-> "none",
                                   scan |-> {}, held |-> {}]
    BY DEF Init, WritersInit, Idle, Closed
  <2>2. txn \in [Writers -> Transaction]
    <3>1. [pc |-> "idle", target |-> "none", scan |-> {}, held |-> {}] \in Transaction
      BY DEF Transaction
    <3>2. QED BY <3>1 DEF Init, WritersInit, Idle, Closed
  <2>3. QED BY <2>1, <2>2, ThreeReleases DEF Transactions, Open
<1>5. OneActive
  BY <1>0, ThreeReleases DEF OneActive
<1>6. QED BY <1>1, <1>2, <1>3, <1>4, <1>5 DEF RInv

--------------------------------------------------------------------------------
(* Steps between transactions.                                                *)

LEMMA NoneOpen ==
  ASSUME Transactions, pc \in Running,
         pc \in {"activating", "reactivating"} => ~ Open(Deployer)
  PROVE  \A w \in Writers : ~ Open(w)
BY ThreeReleases DEF Transactions

LEMMA Quiet ==
  ASSUME Transactions, OneActive, \A w \in Writers : ~ Open(w),
         UNCHANGED <<status, txn>>
  PROVE  Transactions' /\ OneActive' /\ Active' = Active
<1>1. Active' = Active
  BY DEF Active
<1>2. \A w \in Writers : ~ Open(w)'
  BY DEF Open
<1>3. Transactions'
  BY <1>1, <1>2, ThreeReleases DEF Transactions, Open
<1>4. QED BY <1>1, <1>3 DEF OneActive

\* The rollout fails: what it may have changed is restored in reverse.
LEMMA FailKeeps ==
  ASSUME RInv, pc \in Running \ Restoring, \A w \in Writers : ~ Open(w),
         NEW done \in OutPaths \ {<<>>}, Fail(done),
         UNCHANGED <<status, txn, plan, live>>,
         building' \subseteq Services, aliases' \in {Old, New},
         AsBefore(Range(done), live', building', Active, aliases'),
         Reverse(done)[1] \in {"data", "aliases"} => Tested',
         New \in Active \/ aliases' = New => Tested'
  PROVE  RInv'
<1>0. /\ Basics /\ Stages /\ Untouched /\ Promotion /\ Transactions /\ OneActive
      /\ failures = {}
  BY DEF RInv, Stages, Running
<1>1. /\ pc' = "restore" /\ at' = Reverse(done)[1] /\ changed' = Reverse(done)
      /\ rollout' = "restoring" /\ failures' = {} /\ changed' \in BackPaths
      /\ Range(changed') = Range(done) /\ at' \in Components
  BY <1>0, OutSteps, BackSteps DEF Fail, Order, Undo, Goto
<1>2. Transactions' /\ OneActive' /\ Active' = Active
  BY <1>0, Quiet
<1>3. Basics'
  BY <1>0, <1>1 DEF Basics, Running
<1>4. Stages'
  BY <1>1 DEF Stages, Restoring
<1>5. Untouched'
  BY <1>1, <1>2 DEF Untouched
<1>6. Promotion'
  BY <1>1, <1>2 DEF Promotion, Serving
<1>7. QED BY <1>2, <1>3, <1>4, <1>5, <1>6 DEF RInv

\* A component is done with in the restoration; without a failure it is as the
\* snapshot had it, and so is everything when it was the last one.
LEMMA RestoreKeeps ==
  ASSUME RInv, pc \in Restoring, \A w \in Writers : ~ Open(w),
         NEW failed \in SUBSET Components, failures \subseteq failed,
         RestoreNext(failed),
         UNCHANGED <<status, txn, plan, building>>,
         live' \in [Services -> Code], aliases' \in {aliases, Old},
         at \notin Services => live' = live,
         failed = {} =>
           AsBefore(Range(Tail(changed)), live', building', Active, aliases')
  PROVE  RInv' /\ RestoredStep
<1>0. /\ Basics /\ Stages /\ Untouched /\ Promotion /\ Transactions /\ OneActive
      /\ changed \in BackPaths /\ at = changed[1]
  BY DEF RInv, Stages
<1>1. /\ failures' = failed /\ changed' = Tail(changed)
      /\ at \in Components
  BY <1>0, BackSteps DEF RestoreNext, Remaining, NextOf
<1>2. Transactions' /\ OneActive' /\ Active' = Active
  BY <1>0, Quiet
<1>3. at \notin Services => (pc # "rollback" /\ Tested')
  <2>1. at \notin Services => at \in {"data", "aliases"} /\ pc \in {"restore", "reactivating"}
    BY <1>0, <1>1 DEF Stages, Components, Restoring
  <2>2. QED BY <1>0, <2>1 DEF Promotion, Serving, Tested
<1>4. failures' = {} /\ (New \in Active' \/ aliases' = New) => Tested'
  <2>1. CASE at \in Services
    <3>1. "data" \notin Range(Tail(changed)) /\ "aliases" \notin Range(Tail(changed))
      BY <1>0, <2>1, BackSteps
    <3>2. QED BY <1>1, <1>2, <3>1, ThreeReleases DEF AsBefore
  <2>2. CASE at \notin Services
    BY <1>3, <2>2
  <2>3. QED BY <2>1, <2>2
<1>5. CASE Tail(changed) = <<>>
  <2>1. /\ pc' = "ended" /\ at' = None
        /\ rollout' = IF failed = {} THEN "restored" ELSE "restoration_failed"
    BY <1>5 DEF RestoreNext, Finish, Goto
  <2>2. Basics'
    BY <1>0, <1>1, <2>1 DEF Basics
  <2>3. Stages'
    BY <1>1, <1>5, <2>1 DEF Stages, Restoring, OutPaths
  <2>4. Untouched' /\ Promotion'
    BY <1>4, <2>1 DEF Untouched, Promotion, Serving, Running
  <2>5. failed = {} => SnapshotHolds'
    <3>1. Range(Tail(changed)) = {}
      BY <1>5, Ranges
    <3>2. ASSUME failed = {} PROVE SnapshotHolds'
      <4>1. AsBefore({}, live', building', Active', aliases')
        BY <1>2, <3>1, <3>2
      <4>2. QED BY <1>0, <4>1 DEF AsBefore, SnapshotHolds, Basics
    <3>3. QED BY <3>2
  <2>6. QED BY <1>2, <2>1, <2>2, <2>3, <2>4, <2>5 DEF RInv, RestoredStep
<1>6. CASE Tail(changed) # <<>>
  <2>1. /\ Tail(changed) \in BackPaths /\ changed' \in BackPaths
        /\ pc' = "restore" /\ at' = Head(Tail(changed)) /\ at' = changed'[1]
        /\ UNCHANGED rollout /\ at' \in Components
    <3>1. Tail(changed) \in BackPaths
      BY <1>0, <1>6, BackSteps
    <3>2. pc' = "restore" /\ at' = Head(Tail(changed)) /\ UNCHANGED rollout
      BY <1>6 DEF RestoreNext, Goto
    <3>3. Head(Tail(changed)) = Tail(changed)[1] /\ Tail(changed)[1] \in Components
      BY <3>1, BackSteps
    <3>4. QED BY <1>1, <3>1, <3>2, <3>3
  <2>2. Basics'
    BY <1>0, <1>1, <2>1 DEF Basics, Running
  <2>3. Stages'
    BY <1>1, <2>1 DEF Stages, Restoring
  <2>4. Untouched'
    BY <1>1, <1>2, <2>1 DEF Untouched
  <2>5. Promotion'
    <3>1. at' \in {"data", "aliases"} => at = "aliases"
      BY <1>0, <1>1, <1>6, <2>1, BackSteps
    <3>2. Serving' => Tested'
      BY <1>3, <2>1, <3>1 DEF Serving, Services
    <3>3. QED BY <1>4, <2>1, <3>2 DEF Promotion
  <2>6. QED BY <1>2, <2>1, <2>2, <2>3, <2>4, <2>5 DEF RInv, RestoredStep
<1>7. QED BY <1>5, <1>6

--------------------------------------------------------------------------------
(* The rollout, action by action.                                             *)

LEMMA StartKeeps ==
  ASSUME RInv, Start
  PROVE  RInv' /\ RestoredStep
<1>0. /\ Basics /\ Stages /\ Untouched /\ Promotion /\ Transactions /\ OneActive
      /\ pc = "idle" /\ changed = <<>> /\ failures = {} /\ ~ Open(Loader)
      /\ UNCHANGED <<status, txn, plan, live, building, aliases, changed, failures>>
  BY DEF RInv, Start, Stages, Restoring
<1>1. Transactions' /\ OneActive' /\ Active' = Active
  <2>1. \A w \in Writers : ~ Open(w)
    BY <1>0, ThreeReleases DEF Transactions
  <2>2. QED BY <1>0, <2>1, Quiet
<1>2. CASE SnapshotHolds /\ Goto("request", "api") /\ rollout' = "starting"
  <2>1. Basics' /\ Stages' /\ Promotion'
    BY <1>0, <1>1, <1>2 DEF Goto, Basics, Stages, Promotion, Running, Components,
                            Services, Restoring, OutPaths, Serving, Tested
  <2>2. Untouched'
    BY <1>0, <1>1, <1>2 DEF Goto, Untouched, AsBefore, SnapshotHolds, Services
  <2>3. QED BY <1>1, <1>2, <2>1, <2>2 DEF RInv, RestoredStep
<1>3. CASE Goto("refused", None) /\ UNCHANGED rollout
  <2>1. Basics' /\ Stages' /\ Promotion' /\ Untouched'
    BY <1>0, <1>1, <1>3 DEF Goto, Basics, Stages, Promotion, Running, Untouched,
                            Restoring, OutPaths, Serving, Tested
  <2>2. QED BY <1>1, <1>3, <2>1 DEF RInv, RestoredStep
<1>4. QED BY <1>2, <1>3 DEF Start

LEMMA RequestKeeps ==
  ASSUME RInv, Request
  PROVE  RInv' /\ RestoredStep
<1>0. /\ Basics /\ Stages /\ Untouched /\ Promotion /\ Transactions /\ OneActive
      /\ pc = "request" /\ failures = {} /\ at \in Services
      /\ UNCHANGED <<status, txn, plan, live, aliases>>
      /\ building' \in {building, building \union {at}}
      /\ building' \subseteq Services
  BY DEF RInv, Request, Stages, Restoring, Services, Basics
<1>1. \A w \in Writers : ~ Open(w)
  BY <1>0, NoneOpen DEF Running
<1>2. /\ Append(changed, at) \in {<<"api">>, <<"api", "web">>}
      /\ Range(Append(changed, at)) = Range(changed) \union {at}
      /\ Reverse(Append(changed, at))[1] \in Services
      /\ at = "api" => changed = <<>> /\ Append(changed, at) = <<"api">>
      /\ at = "web" => changed = <<"api">> /\ Append(changed, at) = <<"api", "web">>
  <2>1. CASE at = "api" /\ changed = <<>>
    <3>1. Append(changed, at) = <<"api">>
      BY <2>1, Appends
    <3>2. QED BY <2>1, <3>1 DEF Range, Reverse, Services
  <2>2. CASE at = "web" /\ changed = <<"api">>
    <3>1. Append(changed, at) = <<"api", "web">>
      BY <2>2, Appends
    <3>2. QED BY <2>2, <3>1 DEF Range, Reverse, Services
  <2>3. QED BY <1>0, <2>1, <2>2 DEF Stages
<1>3. AsBefore(Range(changed) \union {at}, live', building', Active, aliases')
  BY <1>0 DEF Untouched, Running, AsBefore
<1>4. New \notin Active /\ aliases' # New
  <2>1. "data" \notin Range(changed) /\ "aliases" \notin Range(changed)
    BY <1>0, <1>2 DEF Range, Services
  <2>2. QED BY <1>0, <2>1, ThreeReleases DEF Untouched, Running, AsBefore
<1>5. CASE Change(at) /\ Goto("wait", at) /\ UNCHANGED <<rollout, failures>>
  <2>1. Transactions' /\ OneActive' /\ Active' = Active
    BY <1>0, <1>1, Quiet
  <2>2. Basics'
    BY <1>0, <1>5 DEF Goto, Basics, Running
  <2>3. Stages'
    BY <1>0, <1>2, <1>5 DEF Goto, Change, Stages, Restoring, OutPaths, Services
  <2>4. Untouched'
    BY <1>0, <1>2, <1>3, <1>5, <2>1 DEF Goto, Change, Untouched
  <2>5. Promotion'
    BY <1>0, <1>4, <1>5, <2>1 DEF Goto, Promotion, Serving
  <2>6. QED BY <1>5, <2>1, <2>2, <2>3, <2>4, <2>5 DEF RInv, RestoredStep
<1>6. CASE Fail(Append(changed, at))
  <2>1. PICK done : done = Append(changed, at)
    OBVIOUS
  <2>2. done \in OutPaths \ {<<>>}
    BY <1>2, <2>1 DEF OutPaths
  <2>3. AsBefore(Range(done), live', building', Active, aliases')
    BY <1>2, <1>3, <2>1
  <2>4. Reverse(done)[1] \notin {"data", "aliases"} /\ aliases' \in {Old, New}
    BY <1>0, <1>2, <2>1 DEF Services, Basics
  <2>5. RInv'
    BY <1>0, <1>1, <1>4, <1>6, <2>1, <2>2, <2>3, <2>4, FailKeeps
       DEF Running, Restoring
  <2>6. QED BY <1>6, <2>5 DEF Fail, RestoredStep
<1>7. QED BY <1>0, <1>5, <1>6 DEF Request

LEMMA WaitKeeps ==
  ASSUME RInv, Wait
  PROVE  RInv' /\ RestoredStep
<1>0. /\ Basics /\ Stages /\ Untouched /\ Promotion /\ Transactions /\ OneActive
      /\ pc = "wait" /\ failures = {}
      /\ UNCHANGED <<status, txn, plan, live, building, aliases>>
      /\ \/ at = "api" /\ changed = <<"api">>
         \/ at = "web" /\ changed = <<"api", "web">>
  BY DEF RInv, Wait, Stages, Restoring
<1>1. \A w \in Writers : ~ Open(w)
  BY <1>0, NoneOpen DEF Running
<1>2. Transactions' /\ OneActive' /\ Active' = Active
  BY <1>0, <1>1, Quiet
<1>3. AsBefore(Range(changed), live', building', Active, aliases')
  BY <1>0 DEF Untouched, Running
<1>4. New \notin Active /\ aliases = Old
  <2>1. "data" \notin Range(changed) /\ "aliases" \notin Range(changed)
    BY <1>0 DEF Range
  <2>2. QED BY <1>0, <1>3, <2>1, ThreeReleases DEF AsBefore
<1>5. ASSUME at \notin building, Deployed(at),
             IF at = "api" THEN Goto("request", "web") ELSE AfterServices,
             UNCHANGED <<rollout, changed, failures>>
      PROVE  RInv'
  <2>1. live[at] = "new"
    BY <1>5 DEF Deployed, RightCommit
  <2>2. CASE at = "api"
    <3>1. Goto("request", "web")
      BY <1>5, <2>2
    <3>2. Basics' /\ Stages'
      BY <1>0, <1>5, <2>2, <3>1 DEF Goto, Basics, Stages, Running, Restoring,
                                    OutPaths, Components, Services
    <3>3. Untouched'
      BY <1>2, <1>3, <1>5, <3>1 DEF Goto, Untouched
    <3>4. Promotion'
      BY <1>0, <1>2, <1>4, <1>5, <2>1, <2>2, <3>1, ThreeReleases
         DEF Goto, Promotion, Serving
    <3>5. QED BY <1>2, <3>2, <3>3, <3>4 DEF RInv
  <2>3. CASE at = "web"
    <3>1. \/ Goto("data", "data")
          \/ Goto("aliases", "aliases") /\ plan.aliases # "none"
          \/ Goto("smoke", None) /\ plan.aliases = "none"
      BY <1>5, <2>3 DEF AfterServices
    <3>2. Basics'
      BY <1>0, <1>5, <3>1 DEF Goto, Basics, Running, Components
    <3>3. Stages'
      BY <1>0, <1>5, <2>3, <3>1 DEF Goto, Stages, Restoring, OutPaths
    <3>4. Untouched'
      BY <1>2, <1>3, <1>5, <3>1 DEF Goto, Untouched
    <3>5. Tested'
      BY <1>0, <1>5, <2>1, <2>3 DEF Promotion, Tested, Basics, Services
    <3>6. Promotion'
      BY <1>0, <1>4, <3>1, <3>5 DEF Goto, Promotion
    <3>7. QED BY <1>2, <3>2, <3>3, <3>4, <3>6 DEF RInv
  <2>4. QED BY <1>0, <2>2, <2>3
<1>6. ASSUME Fail(changed)
      PROVE  RInv' /\ RestoredStep
  <2>1. PICK done : done = changed
    OBVIOUS
  <2>2. done \in OutPaths \ {<<>>} /\ Reverse(done)[1] \in Services
    BY <1>0, <2>1 DEF OutPaths, Reverse, Services
  <2>3. AsBefore(Range(done), live', building', Active, aliases')
    BY <1>3, <2>1
  <2>4. /\ building' \subseteq Services /\ aliases' \in {Old, New}
        /\ aliases' # New /\ Reverse(done)[1] \notin {"data", "aliases"}
    BY <1>0, <1>4, <2>2, ThreeReleases DEF Basics, Services
  <2>5. RInv'
    BY <1>0, <1>1, <1>4, <1>6, <2>1, <2>2, <2>3, <2>4, FailKeeps
       DEF Running, Restoring
  <2>6. QED BY <1>6, <2>5 DEF Fail, RestoredStep
<1>7. QED BY <1>5, <1>6 DEF Wait, RestoredStep

\* A transaction of the coordinator begins.
LEMMA BeginKeeps ==
  ASSUME RInv, NEW v \in Versions, BeginActivate(Deployer, v), pc \in Running,
         \/ v = New /\ pc' = "activating"
         \/ v = Old /\ pc' = "reactivating"
  PROVE  Transactions' /\ OneActive' /\ Active' = Active /\ status' = status
<1>0. /\ Transactions /\ OneActive /\ ~ Open(Loader)
      /\ UNCHANGED status
      /\ txn' = [txn EXCEPT ![Deployer] = [Closed("lock") EXCEPT !.target = v]]
  BY DEF RInv, BeginActivate, Transactions
<1>1. Active' = Active
  BY <1>0 DEF Active
<1>2. [Closed("lock") EXCEPT !.target = v]
        = [pc |-> "lock", target |-> v, scan |-> {}, held |-> {}]
  BY DEF Closed
<1>3. [pc |-> "lock", target |-> v, scan |-> {}, held |-> {}] \in Transaction
  BY DEF Transaction
<1>4. /\ txn'[Deployer] = [pc |-> "lock", target |-> v, scan |-> {}, held |-> {}]
      /\ txn'[Loader] = txn[Loader]
      /\ txn' \in [Writers -> Transaction]
  BY <1>0, <1>2, <1>3, ThreeReleases DEF Transactions, Deployer, Loader
<1>5. Transactions'
  BY <1>0, <1>1, <1>4, ThreeReleases DEF Transactions, Open
<1>6. QED BY <1>0, <1>1, <1>5 DEF OneActive

LEMMA ActivateKeeps ==
  ASSUME RInv, Activate
  PROVE  RInv' /\ RestoredStep
<1>0. /\ Basics /\ Stages /\ Untouched /\ Promotion
      /\ pc = "data" /\ changed = <<"api", "web">> /\ failures = {}
      /\ pc' = "activating" /\ at' = "data" /\ changed' = Append(changed, "data")
      /\ UNCHANGED <<plan, live, building, aliases, rollout, failures>>
  BY DEF RInv, Activate, Stages, Restoring, Goto, Change
<1>1. Transactions' /\ OneActive' /\ Active' = Active /\ status' = status
  BY <1>0, BeginKeeps, ThreeReleases DEF Activate, Running
<1>2. changed' = <<"api", "web", "data">>
  BY <1>0, Appends
<1>3. Basics' /\ Stages'
  BY <1>0, <1>1, <1>2 DEF Basics, Stages, Running, Restoring, OutPaths, Components
<1>4. Untouched'
  <2>1. Range(changed) \subseteq Range(changed')
    BY <1>0, <1>2 DEF Range
  <2>2. QED BY <1>0, <1>1, <2>1 DEF Untouched, Running, AsBefore
<1>5. Promotion'
  BY <1>0, <1>1 DEF Promotion, Serving, Tested
<1>6. QED BY <1>0, <1>1, <1>3, <1>4, <1>5 DEF RInv, RestoredStep

LEMMA ActivatedKeeps ==
  ASSUME RInv, Activated
  PROVE  RInv' /\ RestoredStep
<1>0. /\ Basics /\ Stages /\ Untouched /\ Promotion /\ Transactions /\ OneActive
      /\ pc = "activating" /\ changed = <<"api", "web", "data">> /\ failures = {}
      /\ Tested /\ ~ Open(Deployer)
      /\ UNCHANGED <<status, txn, plan, live, building, aliases>>
  BY DEF RInv, Activated, Stages, Restoring, Promotion, Serving
<1>1. \A w \in Writers : ~ Open(w)
  BY <1>0, NoneOpen DEF Running
<1>2. Transactions' /\ OneActive' /\ Active' = Active
  BY <1>0, <1>1, Quiet
<1>3. AsBefore(Range(changed), live', building', Active, aliases') /\ Tested'
  BY <1>0 DEF Untouched, Running, Tested
<1>4. aliases = Old
  <2>1. "aliases" \notin Range(changed)
    BY <1>0 DEF Range
  <2>2. QED BY <1>0, <1>3, <2>1 DEF AsBefore
<1>5. CASE AfterData /\ UNCHANGED <<rollout, changed, failures>>
  <2>1. \/ Goto("aliases", "aliases") /\ plan.aliases # "none"
        \/ Goto("smoke", None) /\ plan.aliases = "none"
    BY <1>5 DEF AfterData
  <2>2. Basics'
    BY <1>0, <1>5, <2>1 DEF Goto, Basics, Running, Components
  <2>3. Stages'
    BY <1>0, <1>5, <2>1 DEF Goto, Stages, Restoring, OutPaths
  <2>4. Untouched'
    BY <1>2, <1>3, <1>5, <2>1 DEF Goto, Untouched
  <2>5. Promotion'
    BY <1>0, <1>3, <1>4, <2>1 DEF Goto, Promotion
  <2>6. QED BY <1>2, <1>5, <2>2, <2>3, <2>4, <2>5 DEF RInv, RestoredStep
<1>6. CASE Fail(changed)
  <2>1. PICK done : done = changed
    OBVIOUS
  <2>2. done \in OutPaths \ {<<>>}
    BY <1>0, <2>1 DEF OutPaths
  <2>3. AsBefore(Range(done), live', building', Active, aliases')
    BY <1>3, <2>1
  <2>4. building' \subseteq Services /\ aliases' \in {Old, New}
    BY <1>0 DEF Basics
  <2>5. RInv'
    BY <1>0, <1>1, <1>3, <1>6, <2>1, <2>2, <2>3, <2>4, FailKeeps
       DEF Running, Restoring
  <2>6. QED BY <1>6, <2>5 DEF Fail, RestoredStep
<1>7. QED BY <1>5, <1>6 DEF Activated

LEMMA SwitchKeeps ==
  ASSUME RInv, SwitchAliases
  PROVE  RInv' /\ RestoredStep
<1>0. /\ Basics /\ Stages /\ Untouched /\ Promotion /\ Transactions /\ OneActive
      /\ pc = "aliases" /\ changed \in {<<"api", "web">>, <<"api", "web", "data">>}
      /\ failures = {} /\ Tested /\ aliases' \in {aliases, New}
      /\ UNCHANGED <<status, txn, plan, live, building>>
  BY DEF RInv, SwitchAliases, Stages, Restoring, Promotion, Serving
<1>1. \A w \in Writers : ~ Open(w)
  BY <1>0, NoneOpen DEF Running
<1>2. Transactions' /\ OneActive' /\ Active' = Active
  BY <1>0, <1>1, Quiet
<1>3. /\ Append(changed, "aliases") \in {<<"api", "web", "aliases">>,
                                         <<"api", "web", "data", "aliases">>}
      /\ Range(Append(changed, "aliases")) = Range(changed) \union {"aliases"}
  <2>1. CASE changed = <<"api", "web">>
    <3>1. Append(changed, "aliases") = <<"api", "web", "aliases">>
      BY <2>1, Appends
    <3>2. QED BY <2>1, <3>1 DEF Range
  <2>2. CASE changed = <<"api", "web", "data">>
    <3>1. Append(<<"api", "web", "data">>, "aliases")
            = <<"api", "web", "data", "aliases">>
      BY AppendToThree
    <3>2. QED BY <2>2, <3>1 DEF Range
  <2>3. QED BY <1>0, <2>1, <2>2
<1>4. /\ AsBefore(Range(changed) \union {"aliases"}, live', building', Active, aliases')
      /\ Tested'
  BY <1>0 DEF Untouched, Running, Tested, AsBefore
<1>5. CASE /\ plan.aliases = "same names" /\ aliases' = New
           /\ Change("aliases") /\ Goto("smoke", None)
           /\ UNCHANGED <<rollout, failures>>
  <2>1. Basics'
    BY <1>0, <1>5 DEF Goto, Basics, Running
  <2>2. Stages'
    BY <1>0, <1>3, <1>5 DEF Goto, Change, Stages, Restoring, OutPaths
  <2>3. Untouched'
    BY <1>2, <1>3, <1>4, <1>5 DEF Goto, Change, Untouched
  <2>4. Promotion'
    BY <1>0, <1>4, <1>5 DEF Goto, Promotion
  <2>5. QED BY <1>2, <1>5, <2>1, <2>2, <2>3, <2>4 DEF RInv, RestoredStep
<1>6. CASE Fail(Append(changed, "aliases"))
  <2>1. PICK done : done = Append(changed, "aliases")
    OBVIOUS
  <2>2. done \in OutPaths \ {<<>>}
    BY <1>3, <2>1 DEF OutPaths
  <2>3. AsBefore(Range(done), live', building', Active, aliases')
    BY <1>3, <1>4, <2>1
  <2>4. building' \subseteq Services /\ aliases' \in {Old, New}
    BY <1>0 DEF Basics
  <2>5. RInv'
    BY <1>0, <1>1, <1>4, <1>6, <2>1, <2>2, <2>3, <2>4, FailKeeps
       DEF Running, Restoring
  <2>6. QED BY <1>6, <2>5 DEF Fail, RestoredStep
<1>7. QED BY <1>5, <1>6 DEF SwitchAliases

LEMMA SmokeKeeps ==
  ASSUME RInv, Smoke
  PROVE  RInv' /\ RestoredStep
<1>0. /\ Basics /\ Stages /\ Untouched /\ Promotion /\ Transactions /\ OneActive
      /\ pc = "smoke" /\ changed \in OutPaths \ {<<>>} /\ failures = {} /\ Tested
      /\ UNCHANGED <<status, txn, plan, live, building, aliases>>
  BY DEF RInv, Smoke, Stages, Restoring, Promotion, Serving, OutPaths
<1>1. \A w \in Writers : ~ Open(w)
  BY <1>0, NoneOpen DEF Running
<1>2. Transactions' /\ OneActive' /\ Active' = Active
  BY <1>0, <1>1, Quiet
<1>3. CASE /\ rollout' = "live" /\ Goto("ended", None)
           /\ UNCHANGED <<changed, failures>>
  <2>1. Basics' /\ Stages'
    BY <1>0, <1>3 DEF Goto, Basics, Stages, Restoring
  <2>2. Untouched' /\ Promotion'
    BY <1>0, <1>2, <1>3 DEF Goto, Untouched, Promotion, Serving, Running, Tested
  <2>3. QED BY <1>2, <1>3, <2>1, <2>2 DEF RInv, RestoredStep
<1>4. CASE Fail(changed)
  <2>1. PICK done : done = changed
    OBVIOUS
  <2>2. done \in OutPaths \ {<<>>}
    BY <1>0, <2>1
  <2>3. AsBefore(Range(done), live', building', Active, aliases') /\ Tested'
    BY <1>0, <2>1 DEF Untouched, Running, Tested
  <2>4. building' \subseteq Services /\ aliases' \in {Old, New}
    BY <1>0 DEF Basics
  <2>5. RInv'
    BY <1>0, <1>1, <1>4, <2>1, <2>2, <2>3, <2>4, FailKeeps DEF Running, Restoring
  <2>6. QED BY <1>4, <2>5 DEF Fail, RestoredStep
<1>5. QED BY <1>3, <1>4 DEF Smoke

--------------------------------------------------------------------------------
(* The restoration, action by action.                                         *)

LEMMA RestoreAliasesKeeps ==
  ASSUME RInv, RestoreAliases
  PROVE  RInv' /\ RestoredStep
<1>0. /\ Basics /\ Stages /\ Untouched /\ Promotion /\ Transactions
      /\ pc = "restore" /\ at = "aliases" /\ changed \in BackPaths /\ at = changed[1]
      /\ UNCHANGED <<status, txn, plan, live, building>>
      /\ aliases' \in {aliases, Old}
  BY DEF RInv, RestoreAliases, Stages, Restoring
<1>1. \A w \in Writers : ~ Open(w)
  BY <1>0, NoneOpen DEF Running
<1>2. ASSUME NEW failed \in SUBSET Components, failures \subseteq failed,
             RestoreNext(failed), failed = {} => aliases' = Old
      PROVE  RInv' /\ RestoredStep
  <2>1. failed = {} =>
          AsBefore(Range(Tail(changed)), live', building', Active, aliases')
    <3>1. Range(changed) = {at} \union Range(Tail(changed))
      BY <1>0, BackSteps
    <3>2. QED BY <1>0, <1>2, <3>1 DEF Untouched, Running, AsBefore, Services
  <2>2. live' \in [Services -> Code]
    BY <1>0 DEF Basics
  <2>3. QED BY <1>0, <1>1, <1>2, <2>1, <2>2, RestoreKeeps DEF Restoring
<1>3. failures \in SUBSET Components /\ failures \union {at} \in SUBSET Components
      /\ failures \union {at} # {}
  BY <1>0 DEF Basics, Components
<1>4. QED BY <1>2, <1>3 DEF RestoreAliases, Restored, NotRestored

LEMMA RestoreDataKeeps ==
  ASSUME RInv, RestoreData
  PROVE  RInv' /\ RestoredStep
<1>0. /\ Basics /\ Stages /\ Untouched /\ Promotion
      /\ pc = "restore" /\ at = "data" /\ changed \in BackPaths /\ at = changed[1]
      /\ pc' = "reactivating" /\ at' = at
      /\ UNCHANGED <<plan, live, building, aliases, changed, rollout, failures>>
  BY DEF RInv, RestoreData, Stages, Restoring, Goto
<1>1. Transactions' /\ OneActive' /\ Active' = Active /\ status' = status
  BY <1>0, BeginKeeps, ThreeReleases DEF RestoreData, Running
<1>2. Basics' /\ Stages'
  BY <1>0, <1>1 DEF Basics, Stages, Running, Restoring
<1>3. Untouched' /\ Promotion'
  BY <1>0, <1>1 DEF Untouched, Running, Promotion, Serving, Tested
<1>4. QED BY <1>0, <1>1, <1>2, <1>3 DEF RInv, RestoredStep

LEMMA DataRestoredKeeps ==
  ASSUME RInv, DataRestored
  PROVE  RInv' /\ RestoredStep
<1>0. /\ Basics /\ Stages /\ Untouched /\ Promotion /\ Transactions
      /\ pc = "reactivating" /\ at = "data" /\ changed \in BackPaths /\ at = changed[1]
      /\ UNCHANGED <<status, txn, plan, live, building, aliases>>
  BY DEF RInv, DataRestored, Stages, Restoring
<1>1. \A w \in Writers : ~ Open(w)
  BY <1>0, NoneOpen DEF Running, DataRestored
<1>2. ASSUME NEW failed \in SUBSET Components, failures \subseteq failed,
             RestoreNext(failed), failed = {} => Active = {Old}
      PROVE  RInv' /\ RestoredStep
  <2>1. failed = {} =>
          AsBefore(Range(Tail(changed)), live', building', Active, aliases')
    <3>1. Range(changed) = {at} \union Range(Tail(changed))
      BY <1>0, BackSteps
    <3>2. QED BY <1>0, <1>2, <3>1 DEF Untouched, Running, AsBefore, Services
  <2>2. live' \in [Services -> Code]
    BY <1>0 DEF Basics
  <2>3. QED BY <1>0, <1>1, <1>2, <2>1, <2>2, RestoreKeeps DEF Restoring
<1>3. failures \in SUBSET Components /\ failures \union {at} \in SUBSET Components
      /\ failures \union {at} # {}
  BY <1>0 DEF Basics, Components
<1>4. QED BY <1>2, <1>3 DEF DataRestored, Restored, NotRestored

\* A deploy that could not be cancelled is a failure, so that without one the
\* rollback finds no build in flight.
LEMMA CancelKeeps ==
  ASSUME RInv, CancelPending
  PROVE  RInv' /\ RestoredStep
<1>0. /\ Basics /\ Stages /\ Untouched /\ Promotion /\ Transactions /\ OneActive
      /\ pc = "restore" /\ at \in Services /\ changed \in BackPaths /\ at = changed[1]
      /\ pc' = "rollback" /\ at' = at
      /\ building' \in {building, building \ {at}}
      /\ failures' \in {failures, failures \union {at}}
      /\ failures' = {} => building' = building \ {at} /\ failures = {}
      /\ UNCHANGED <<status, txn, plan, live, aliases, changed, rollout>>
  BY DEF RInv, CancelPending, Stages, Restoring, Goto, CancelFailure, Uncancelled
<1>1. \A w \in Writers : ~ Open(w)
  BY <1>0, NoneOpen DEF Running
<1>2. Transactions' /\ OneActive' /\ Active' = Active
  BY <1>0, <1>1, Quiet
<1>3. Basics'
  BY <1>0 DEF Basics, Running, Components
<1>4. Stages'
  BY <1>0 DEF Stages, Restoring
<1>5. Untouched'
  BY <1>0, <1>2 DEF Untouched, Running, AsBefore
<1>6. Promotion'
  BY <1>0, <1>2 DEF Promotion, Serving, Tested
<1>7. QED BY <1>0, <1>2, <1>3, <1>4, <1>5, <1>6 DEF RInv, RestoredStep

LEMMA RollbackKeeps ==
  ASSUME RInv, Rollback
  PROVE  RInv' /\ RestoredStep
<1>0. /\ Basics /\ Stages /\ Untouched /\ Promotion /\ Transactions
      /\ pc = "rollback" /\ at \in Services /\ changed \in BackPaths /\ at = changed[1]
      /\ UNCHANGED <<status, txn, plan, building, aliases>>
      /\ live' \in {live, [live EXCEPT ![at] = "old"]}
  BY DEF RInv, Rollback, Stages, Restoring
<1>1. \A w \in Writers : ~ Open(w)
  BY <1>0, NoneOpen DEF Running
<1>2. ASSUME NEW failed \in SUBSET Components, failures \subseteq failed,
             RestoreNext(failed),
             failed = {} => live' = [live EXCEPT ![at] = "old"]
      PROVE  RInv' /\ RestoredStep
  <2>1. failed = {} =>
          AsBefore(Range(Tail(changed)), live', building', Active, aliases')
    <3>1. Range(changed) = {at} \union Range(Tail(changed))
      BY <1>0, BackSteps
    <3>2. QED
      BY <1>0, <1>2, <3>1 DEF Untouched, Running, AsBefore, Services, Basics
  <2>2. live' \in [Services -> Code]
    BY <1>0 DEF Basics, Code
  <2>3. QED BY <1>0, <1>1, <1>2, <2>1, <2>2, RestoreKeeps DEF Restoring
<1>3. /\ at \in Components
      /\ failures \in SUBSET Components /\ failures \union {at} \in SUBSET Components
      /\ failures \union {at} # {}
  <2>1. at \in Components
    BY <1>0 DEF Components
  <2>2. QED BY <1>0, <2>1 DEF Basics
<1>4. QED BY <1>2, <1>3 DEF Rollback, Restored, NotRestored

--------------------------------------------------------------------------------
(* Transactions and the world.                                                *)

\* A writer moves on: the rows it scanned are still the active ones, and its
\* commit makes its target the only one.
LEMMA WriteKeeps ==
  ASSUME RInv, NEW w \in Writers, Write(w)
  PROVE  RInv' /\ RestoredStep
<1> DEFINE v == txn[w].target
<1>0. /\ Basics /\ Stages /\ Untouched /\ Promotion /\ Transactions /\ OneActive
      /\ Open(w) /\ v \in Versions /\ txn[w] \in Transaction
      /\ UNCHANGED deployVars /\ WriterStep(w)
      /\ \A o \in Writers : o # w => ~ Open(o) /\ txn[o].held = {}
  BY ThreeReleases DEF RInv, Write, WriterStep, Lock, Scan, Supersede, Commit, Abort,
     Open, Transactions, Running
<1>1. Stages'
  BY <1>0 DEF deployVars, Stages
<1>2. PICK t \in Transaction :
        /\ txn' = [txn EXCEPT ![w] = t]
        /\ t.pc \in {"scan", "update", "commit"} =>
             t.target = v /\ UNCHANGED status
        /\ t.pc \in {"update", "commit"} => t.scan = Active \ {v}
        /\ t.pc \notin {"scan", "update", "commit"} =>
             t.pc \in {"done", "failed"} /\ t.held = {}
        /\ \/ UNCHANGED status
           \/ status' = Committed(w) /\ txn[w].scan = Active \ {v}
  <2>1. CASE Lock(w)
    <3> DEFINE t == [txn[w] EXCEPT !.pc = "scan", !.held = {v}]
    <3>1. t \in Transaction /\ t.pc = "scan" /\ t.target = v
      BY <1>0 DEF Transaction
    <3>2. txn' = [txn EXCEPT ![w] = t] /\ UNCHANGED status
      BY <1>0, <2>1 DEF Lock, Transactions
    <3>3. QED BY <3>1, <3>2
  <2>2. CASE Scan(w)
    <3> DEFINE t == [txn[w] EXCEPT !.pc = "update", !.scan = Active \ {v}]
    <3>1. t \in Transaction /\ t.pc = "update" /\ t.target = v /\ t.scan = Active \ {v}
      BY <1>0 DEF Transaction, Active
    <3>2. txn' = [txn EXCEPT ![w] = t] /\ UNCHANGED status
      BY <1>0, <2>2 DEF Scan, Transactions, ToSupersede, Scanned
    <3>3. QED BY <3>1, <3>2
  <2>3. CASE Supersede(w)
    <3> DEFINE rows == txn[w].scan \intersect Active
               t == [txn[w] EXCEPT !.pc = "commit", !.scan = rows,
                                   !.held = @ \union rows]
    <3>0. rows = Active \ {v}
      BY <1>0, <2>3 DEF Supersede, Transactions
    <3>1. t \in Transaction /\ t.pc = "commit" /\ t.target = v /\ t.scan = rows
      BY <1>0 DEF Transaction, Active
    <3>2. txn' = [txn EXCEPT ![w] = t] /\ UNCHANGED status
      BY <1>0, <2>3 DEF Supersede, Transactions
    <3>3. QED BY <3>0, <3>1, <3>2
  <2>4. CASE Commit(w)
    <3>1. PICK p \in {"done", "failed"} : txn' = [txn EXCEPT ![w] = Closed(p)]
      BY <2>4 DEF Commit
    <3>2. /\ Closed(p) \in Transaction /\ Closed(p).pc = p /\ Closed(p).held = {}
      BY DEF Closed, Transaction
    <3>3. status' = Committed(w) /\ txn[w].scan = Active \ {v}
      BY <1>0, <2>4 DEF Commit, Transactions
    <3>4. QED BY <3>1, <3>2, <3>3
  <2>5. CASE Abort(w)
    <3>1. txn' = [txn EXCEPT ![w] = Closed("failed")] /\ UNCHANGED status
      BY <2>5 DEF Abort
    <3>2. /\ Closed("failed") \in Transaction /\ Closed("failed").pc = "failed"
          /\ Closed("failed").held = {}
      BY DEF Closed, Transaction
    <3>3. QED BY <3>1, <3>2
  <2>6. QED BY <1>0, <2>1, <2>2, <2>3, <2>4, <2>5 DEF WriterStep
<1>3. /\ txn'[w] = t /\ \A o \in Writers : o # w => txn'[o] = txn[o]
      /\ txn' \in [Writers -> Transaction]
  BY <1>0, <1>2 DEF Transactions
<1>4. /\ status' \in [Versions -> Statuses]
      /\ Active' \in {Active, {v}}
      /\ Active' # Active => status' = Committed(w)
      /\ UNCHANGED status => Active' = Active
  <2>1. CASE UNCHANGED status
    BY <1>0, <2>1 DEF Basics, Active
  <2>2. CASE status' = Committed(w) /\ txn[w].scan = Active \ {v}
    <3>1. \A x \in Versions : status'[x] = IF x = v THEN "active"
                                           ELSE IF x \in Active THEN "superseded"
                                           ELSE status[x]
      BY <2>2 DEF Committed
    <3>2. status' \in [Versions -> Statuses]
      BY <1>0, <2>2 DEF Committed, Basics, Statuses
    <3>3. Active' = {v}
      BY <1>0, <3>1 DEF Active
    <3>4. QED BY <2>2, <3>2, <3>3 DEF Active
  <2>3. QED BY <1>2, <2>1, <2>2
<1>5. OneActive'
  BY <1>0, <1>4 DEF OneActive
<1>6. Basics'
  BY <1>0, <1>4 DEF Basics, deployVars
<1>7. /\ w = Deployer => \/ pc = "activating" /\ v = New
                         \/ pc = "reactivating" /\ v = Old
      /\ w = Loader => pc \notin Running /\ v = Loaded
      /\ w \in {Deployer, Loader} /\ Deployer # Loader
  BY <1>0, ThreeReleases DEF Transactions, Deployer, Loader
<1>8. Transactions'
  <2>1. \A o \in Writers : o # w => ~ Open(o)' /\ txn'[o].held = {}
                                    /\ txn'[o].pc \notin {"update", "commit"}
    BY <1>0, <1>3 DEF Open
  <2>2. /\ Open(w)' => t.target = v
        /\ ~ Open(w)' => t.held = {}
        /\ t.pc \in {"update", "commit"} => t.scan = Active' \ {t.target}
    BY <1>2, <1>3, <1>4 DEF Open
  <2>3. pc' = pc
    BY <1>0 DEF deployVars
  <2>4. \A o \in Writers :
          /\ Open(o)' => txn'[o].target \in Versions
          /\ ~ Open(o)' => txn'[o].held = {}
          /\ txn'[o].pc \in {"update", "commit"} =>
               txn'[o].scan = Active' \ {txn'[o].target}
    BY <1>0, <1>3, <2>1, <2>2
  <2>5. Open(Loader)' => pc' \notin Running /\ txn'[Loader].target = Loaded
    BY <1>3, <1>7, <2>1, <2>2, <2>3, ThreeReleases
  <2>6. Open(Deployer)' => \/ pc' = "activating" /\ txn'[Deployer].target = New
                           \/ pc' = "reactivating" /\ txn'[Deployer].target = Old
    BY <1>3, <1>7, <2>1, <2>2, <2>3, ThreeReleases
  <2>7. QED BY <1>3, <2>4, <2>5, <2>6 DEF Transactions
<1>9. Untouched'
  <2>1. pc \in Running => "data" \in Range(changed)
    <3>1. pc \in Running =>
            \/ changed = <<"api", "web", "data">>
            \/ changed \in BackPaths /\ changed[1] = "data"
      BY <1>0, <1>7, ThreeReleases DEF Stages, Restoring, Running
    <3>2. changed = <<"api", "web", "data">> => "data" \in Range(changed)
      BY DEF Range
    <3>3. QED BY <3>1, <3>2, BackSteps
  <2>2. QED BY <1>0, <2>1 DEF Untouched, AsBefore, deployVars
<1>10. Promotion'
  <2>1. v = New => Tested
    BY <1>0, <1>7, ThreeReleases DEF Promotion, Serving
  <2>2. QED BY <1>0, <1>4, <2>1 DEF Promotion, Serving, Tested, deployVars
<1>11. QED
  BY <1>0, <1>1, <1>5, <1>6, <1>8, <1>9, <1>10 DEF RInv, RestoredStep, deployVars

\* A service whose build can still end is not one that serves the candidate.
LEMMA BuildEndsKeeps ==
  ASSUME RInv, NEW s \in Services, BuildEnds(s)
  PROVE  RInv' /\ RestoredStep
<1>0. /\ Basics /\ Stages /\ Untouched /\ Promotion /\ Transactions /\ OneActive
      /\ s \in building /\ building' = building \ {s} /\ ~ Tested
      /\ \A r \in Services : r # s => live'[r] = live[r]
      /\ live' \in [Services -> Code]
      /\ UNCHANGED <<status, txn, plan, aliases, pc, at, changed, rollout, failures>>
  <2>1. live \in [Services -> Code] /\ building \subseteq Services
    BY DEF RInv, Basics
  <2>2. PICK c \in {"old", "new", "other"} :
          live' = live \/ live' = [live EXCEPT ![s] = c]
    BY DEF BuildEnds
  <2>3. /\ live' \in [Services -> Code]
        /\ \A r \in Services : r # s => live'[r] = live[r]
    BY <2>1, <2>2 DEF Code
  <2>4. QED BY <2>3 DEF RInv, BuildEnds, Tested
<1>1. Active' = Active
  BY <1>0 DEF Active
<1>2. Basics' /\ Stages'
  <2>1. Basics'
    BY <1>0 DEF Basics
  <2>2. Stages'
    BY <1>0 DEF Stages
  <2>3. QED BY <2>1, <2>2
<1>3. Transactions' /\ OneActive'
  BY <1>0, <1>1 DEF Transactions, OneActive, Open
<1>4. Untouched'
  BY <1>0, <1>1 DEF Untouched, AsBefore
<1>5. Promotion'
  BY <1>0, <1>1 DEF Promotion, Serving, Services
<1>6. QED BY <1>0, <1>2, <1>3, <1>4, <1>5 DEF RInv, RestoredStep

LEMMA CrashKeeps ==
  ASSUME RInv, Crash
  PROVE  RInv' /\ RestoredStep
<1>0. /\ Basics /\ Stages /\ Untouched /\ Promotion /\ Transactions /\ OneActive
      /\ pc \in Running /\ pc' = "crashed"
      /\ UNCHANGED <<plan, live, building, aliases, at, changed, rollout, failures>>
  BY DEF RInv, Crash
<1>1. status' = status /\ ~ Open(Loader)
      /\ \/ ~ Open(Deployer) /\ txn' = txn
         \/ txn' = [txn EXCEPT ![Deployer] = Closed("failed")]
  BY <1>0 DEF Crash, Abort, releaseVars, Transactions
<1>2. Active' = Active
  BY <1>1 DEF Active
<1>3. Basics' /\ Stages'
  BY <1>0, <1>1 DEF Basics, Stages, Running, Restoring
<1>4. Untouched' /\ Promotion'
  BY <1>0, <1>2 DEF Untouched, Promotion, Serving, Running, Tested
<1>5. Transactions'
  <2>1. CASE ~ Open(Deployer) /\ txn' = txn
    BY <1>0, <1>1, <1>2, <2>1, ThreeReleases DEF Transactions, Open
  <2>2. CASE txn' = [txn EXCEPT ![Deployer] = Closed("failed")]
    <3>1. Closed("failed") \in Transaction /\ Closed("failed").pc = "failed"
          /\ Closed("failed").held = {}
      BY DEF Closed, Transaction
    <3>2. /\ txn' \in [Writers -> Transaction]
          /\ txn'[Deployer] = Closed("failed") /\ txn'[Loader] = txn[Loader]
      BY <1>0, <2>2, <3>1, ThreeReleases DEF Transactions, Deployer, Loader
    <3>3. /\ txn'[Deployer].pc = "failed" /\ txn'[Deployer].held = {}
          /\ ~ Open(Deployer)' /\ ~ Open(Loader)'
      BY <1>1, <3>1, <3>2 DEF Open
    <3>4. QED BY <1>0, <1>1, <1>2, <3>2, <3>3, ThreeReleases DEF Transactions, Open
  <2>3. QED BY <1>1, <2>1, <2>2
<1>6. QED BY <1>0, <1>2, <1>3, <1>4, <1>5 DEF RInv, RestoredStep, OneActive

LEMMA LoadKeeps ==
  ASSUME RInv, Load
  PROVE  RInv' /\ RestoredStep
<1>0. /\ Basics /\ Stages /\ Untouched /\ Promotion /\ Transactions /\ OneActive
      /\ pc \notin Running /\ ~ Open(Loader) /\ ~ Open(Deployer)
      /\ UNCHANGED deployVars /\ UNCHANGED status
  BY DEF RInv, Load, BeginLoad, Transactions, Running, Open
<1>1. Active' = Active
  BY <1>0 DEF Active
<1>2. Basics' /\ Stages' /\ Untouched' /\ Promotion' /\ OneActive'
  <2>1. Basics' /\ OneActive'
    BY <1>0, <1>1 DEF Basics, OneActive, deployVars
  <2>2. Stages'
    BY <1>0 DEF Stages, deployVars
  <2>3. Untouched' /\ Promotion'
    BY <1>0, <1>1 DEF Untouched, Promotion, Serving, Tested, deployVars
  <2>4. QED BY <2>1, <2>2, <2>3
<1>3. PICK t \in Transaction :
        /\ txn' = [txn EXCEPT ![Loader] = t]
        /\ \/ t.pc = "done" /\ t.held = {}
           \/ t.pc = "scan" /\ t.target = Loaded
  <2>1. CASE status[Loaded] = "active"
    <3>1. txn' = [txn EXCEPT ![Loader] = Closed("done")]
      BY <2>1 DEF Load, BeginLoad
    <3>2. Closed("done") \in Transaction /\ Closed("done").pc = "done"
          /\ Closed("done").held = {}
      BY DEF Closed, Transaction
    <3>3. QED BY <3>1, <3>2
  <2>2. CASE status[Loaded] # "active"
    <3> DEFINE t == [Closed("scan") EXCEPT !.target = Loaded, !.held = {Loaded}]
    <3>1. txn' = [txn EXCEPT ![Loader] = t]
      BY <2>2 DEF Load, BeginLoad
    <3>2. t \in Transaction /\ t.pc = "scan" /\ t.target = Loaded
      BY ThreeReleases DEF Closed, Transaction
    <3>3. QED BY <3>1, <3>2
  <2>3. QED BY <2>1, <2>2
<1>4. Transactions'
  <2>1. /\ txn'[Loader] = t /\ txn'[Deployer] = txn[Deployer]
        /\ txn' \in [Writers -> Transaction]
    BY <1>0, <1>3, ThreeReleases DEF Transactions, Deployer, Loader
  <2>2. ~ Open(Deployer)' /\ txn'[Deployer].held = {} /\ pc' \notin Running
    BY <1>0, <2>1, ThreeReleases DEF Open, Transactions, deployVars
  <2>3. QED BY <1>3, <2>1, <2>2, ThreeReleases DEF Transactions, Open
<1>5. QED BY <1>0, <1>2, <1>4 DEF RInv, RestoredStep, deployVars

--------------------------------------------------------------------------------
LEMMA NextRInv == RInv /\ [Next]_vars => RInv' /\ RestoredStep
<1> SUFFICES ASSUME RInv, [Next]_vars PROVE RInv' /\ RestoredStep
  OBVIOUS
<1>1. CASE Start \/ Request \/ Wait \/ Activate \/ Activated \/ SwitchAliases \/ Smoke
  BY <1>1, StartKeeps, RequestKeeps, WaitKeeps, ActivateKeeps, ActivatedKeeps,
     SwitchKeeps, SmokeKeeps
<1>2. CASE RestoreAliases \/ RestoreData \/ DataRestored \/ CancelPending \/ Rollback
  BY <1>2, RestoreAliasesKeeps, RestoreDataKeeps, DataRestoredKeeps, CancelKeeps,
     RollbackKeeps
<1>3. CASE Write(Deployer) \/ Write(Loader)
  BY <1>3, WriteKeeps, ThreeReleases
<1>4. CASE Crash \/ Load \/ \E s \in Services : BuildEnds(s)
  BY <1>4, CrashKeeps, LoadKeeps, BuildEndsKeeps
<1>5. CASE UNCHANGED vars
  <2>1. UNCHANGED vars /\ Active' = Active
    BY <1>5 DEF vars, Active
  <2>2. Basics' /\ Stages' /\ Untouched' /\ Promotion'
    <3>1. Basics'
      BY <2>1 DEF vars, RInv, Basics
    <3>2. Stages'
      BY <2>1 DEF vars, RInv, Stages
    <3>3. Untouched' /\ Promotion'
      BY <2>1 DEF vars, RInv, Untouched, Promotion, Serving, Tested
    <3>4. QED BY <3>1, <3>2, <3>3
  <2>3. Transactions' /\ OneActive'
    BY <2>1 DEF vars, RInv, Transactions, OneActive, Open
  <2>4. QED BY <2>1, <2>2, <2>3 DEF RInv, RestoredStep, vars
<1>6. QED BY <1>1, <1>2, <1>3, <1>4, <1>5 DEF Next, Coordinator

LEMMA ReleaseInvariance == Spec => []RInv
<1>1. RInv /\ [Next]_vars => RInv'
  BY NextRInv
<1>2. QED BY <1>1, InitRInv, PTL DEF Spec

\* Type correctness of the rollout and of the releases table: no two open
\* transactions hold the same row, and no component is to be restored twice.
THEOREM RolloutTypeCorrect == Spec => []TypeOK
<1>1. RInv => TypeOK
  <2> SUFFICES ASSUME RInv PROVE TypeOK
    OBVIOUS
  <2>0. Basics /\ Stages /\ Transactions
    BY DEF RInv
  <2>1. ReleasesTypeOK
    <3>1. \A w \in Writers : txn[w] \in Transaction
      BY <2>0 DEF Transactions
    <3>2. \A w, o \in Writers : w # o => txn[w].held = {} \/ txn[o].held = {}
      BY <2>0, ThreeReleases DEF Transactions, Running
    <3>3. \A w \in Writers : txn[w].held \intersect HeldByOthers(w) = {}
      BY <3>2 DEF HeldByOthers
    <3>4. QED BY <2>0, <3>1, <3>3 DEF ReleasesTypeOK, Transaction, Basics
  <2>2. changed \in Seq(Components) /\ IsInjective(changed)
    BY <2>0, PathTypes DEF Stages
  <2>3. pc \in {"restore", "rollback", "reactivating"} => at = Head(changed)
    BY <2>0, BackSteps DEF Stages, Restoring
  <2>4. QED BY <2>0, <2>1, <2>2, <2>3 DEF TypeOK, Basics
<1>2. QED BY <1>1, ReleaseInvariance, PTL

\* Exactly one release is active after every statement of every activation, of
\* the loader's and the rollout's, forward, restored or cut short by a crash.
THEOREM AlwaysOneActiveRelease == Spec => []OneActiveRelease
<1>1. RInv => OneActiveRelease
  BY FS_Singleton DEF RInv, OneActive, OneActiveRelease
<1>2. QED BY <1>1, ReleaseInvariance, PTL

\* Until a restoration fails, the candidate and its aliases are served by the
\* tested commit alone: deploy's order out, and its reverse on the way back.
THEOREM CandidateUnderNewCode == Spec => []NewDataOnlyUnderNewCode
<1>1. RInv => NewDataOnlyUnderNewCode
  BY DEF RInv, Promotion, Tested, NewDataOnlyUnderNewCode
<1>2. QED BY <1>1, ReleaseInvariance, PTL

\* A rollout that saves "restored" has put back all that its snapshot recorded,
\* and left no deploy of the commit in flight.
THEOREM RestoredIsTheSnapshot == Spec => RestoredMeansRestored
<1>1. RInv /\ [Next]_vars =>
        [(rollout' = "restored" /\ rollout # "restored") => SnapshotHolds']_vars
  BY NextRInv DEF RestoredStep
<1>2. QED BY <1>1, ReleaseInvariance, PTL DEF Spec, RestoredMeansRestored

\* A rollout that saves "live" has promoted all that it was to promote.
THEOREM LiveIsPromoted == Spec => LiveMeansPromoted
<1>1. RInv /\ [Next]_vars =>
        [(rollout' = "live" /\ rollout # "live") =>
            /\ \A s \in Services : live'[s] = "new"
            /\ Active' = {Expected}
            /\ aliases' = IF plan.aliases = "none" THEN Old ELSE New]_vars
  <2> SUFFICES ASSUME RInv, Next, rollout' = "live", rollout # "live"
               PROVE  /\ \A s \in Services : live'[s] = "new"
                      /\ Active' = {Expected}
                      /\ aliases' = IF plan.aliases = "none" THEN Old ELSE New
    OBVIOUS
  <2>1. Smoke /\ Active = {Expected}
    <3>1. Next => Smoke \/ rollout' = rollout \/ rollout' # "live"
      BY DEF Next, Coordinator, Start, Request, Wait, Activate, Activated, SwitchAliases,
             RestoreAliases, RestoreData, DataRestored, CancelPending, Rollback, Write,
             Crash, Load, BuildEnds, Fail, Restored, NotRestored, RestoreNext, Finish,
             deployVars
    <3>2. QED BY <3>1 DEF Smoke, Fail
  <2>2. Active' = Active /\ UNCHANGED <<live, aliases>>
    BY <2>1 DEF Smoke, Active
  <2>3. QED BY <2>1, <2>2 DEF RInv, Promotion, Serving, Tested, Smoke
<1>2. QED BY <1>1, ReleaseInvariance, PTL DEF Spec, LiveMeansPromoted
================================================================================
