-------------------------- MODULE DatasetReleases --------------------------
(***************************************************************************)
(* The dataset_releases table and the two programs that activate a         *)
(* release: load_release_bundle (services/release_bundle.py) and activate  *)
(* (services/deploy_release.py).  Each runs one READ COMMITTED transaction *)
(* of several statements, in which an UPDATE reads the rows committed when *)
(* it starts, waits for the rows that others hold, and then looks again at *)
(* those rows only.                                                        *)
(*                                                                         *)
(* A release is handled by one writer at a time: each writer brings its    *)
(* own target.                                                             *)
(***************************************************************************)
EXTENDS FiniteSets

CONSTANTS Writers, Versions

VARIABLES
    status, \* the committed status of each release
    txn     \* the transaction of each writer

releaseVars == <<status, txn>>

Statuses == {"absent", "staged", "active", "superseded"}
Active == {v \in Versions : status[v] = "active"}

Closed(pc) == [pc |-> pc, target |-> "none", scan |-> {}, held |-> {}]
Idle == Closed("idle")
Open(w) == txn[w].pc \in {"lock", "scan", "update", "commit"}
HeldByOthers(w) == UNION {txn[o].held : o \in Writers \ {w}}

(* What the supersede statement sees, and what it still finds active once  *)
(* it holds the rows.                                                      *)
Scanned(v) == Active \ {v}
NothingScanned(v) == {}
ToSupersede(v) == Scanned(v)

---------------------------------------------------------------------------
BeginActivate(w, v) ==
    /\ ~ Open(w)
    /\ txn' = [txn EXCEPT ![w] = [Closed("lock") EXCEPT !.target = v]]
    /\ UNCHANGED status

(* An active version is left alone, a missing one is inserted as staged    *)
(* with its facts, all in the transaction.                                 *)
BeginLoad(w, v) ==
    /\ ~ Open(w)
    /\ txn' = [txn EXCEPT ![w] =
                  IF status[v] = "active"
                  THEN Closed("done")
                  ELSE [Closed("scan") EXCEPT !.target = v, !.held = {v}]]
    /\ UNCHANGED status

(* SELECT ... FOR UPDATE of the target. *)
Lock(w) ==
    /\ txn[w].pc = "lock"
    /\ txn[w].target \notin HeldByOthers(w)
    /\ txn' = [txn EXCEPT ![w].pc = "scan", ![w].held = {txn[w].target}]
    /\ UNCHANGED status

(* The UPDATE takes its snapshot ... *)
Scan(w) ==
    /\ txn[w].pc = "scan"
    /\ txn' = [txn EXCEPT ![w].pc = "update",
                          ![w].scan = ToSupersede(txn[w].target)]
    /\ UNCHANGED status

(* ... waits for the rows it found, and takes those that are still active. *)
Supersede(w) ==
    /\ txn[w].pc = "update"
    /\ txn[w].scan \intersect HeldByOthers(w) = {}
    /\ LET rows == txn[w].scan \intersect Active IN
       txn' = [txn EXCEPT ![w].pc = "commit", ![w].scan = rows,
                          ![w].held = @ \union rows]
    /\ UNCHANGED status

Committed(w) ==
    [v \in Versions |-> IF v = txn[w].target THEN "active"
                        ELSE IF v \in txn[w].scan THEN "superseded"
                        ELSE status[v]]

(* A lost connection may hide that the commit took place. *)
Commit(w) ==
    /\ txn[w].pc = "commit"
    /\ status' = Committed(w)
    /\ \E pc \in {"done", "failed"} : txn' = [txn EXCEPT ![w] = Closed(pc)]

Abort(w) ==
    /\ Open(w)
    /\ txn' = [txn EXCEPT ![w] = Closed("failed")]
    /\ UNCHANGED status

WriterStep(w) == Lock(w) \/ Scan(w) \/ Supersede(w) \/ Commit(w) \/ Abort(w)

(* Both programs at work, each on a target of its own. *)
WritersInit(start) ==
    /\ status = start
    /\ txn = [w \in Writers |-> Idle]

ReleasesTypeOK ==
    /\ status \in [Versions -> Statuses]
    /\ \A w \in Writers :
          /\ txn[w].pc \in
                {"idle", "lock", "scan", "update", "commit", "done", "failed"}
          /\ txn[w].scan \subseteq Versions
          /\ txn[w].held \subseteq Versions
          /\ txn[w].held \intersect HeldByOthers(w) = {}

(* releases.py: exactly one active validated release, which every public   *)
(* read selects with a scalar subquery that fails on a second one.         *)
OneActiveRelease == Cardinality(Active) = 1
=============================================================================
