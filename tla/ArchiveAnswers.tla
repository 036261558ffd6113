--------------------------- MODULE ArchiveAnswers --------------------------
(***************************************************************************)
(* The answer pipeline of POST /analysis/query without the evidence loop   *)
(* (apps/api/app/api/analysis.py, query_analysis) and its answer cache     *)
(* (services/runtime_store.py), while ReleaseDeploy promotes a release and *)
(* restores the old one.                                                   *)
(*                                                                         *)
(* One question is asked again and again: its cache key differs only by    *)
(* the active version a request reads first.  Every SQL statement after    *)
(* that reads the release that is active when the statement runs.  An      *)
(* answer is the set of releases its statements read; wording, planning    *)
(* and ranking are left out.  The bound is the number of Requests.         *)
(***************************************************************************)
EXTENDS ReleaseDeploy

CONSTANT Requests

VARIABLES
    asks,  \* the requests
    cache, \* Redis: version of the key -> releases of the stored answer
    seen   \* history: releases active at some time while a request was open

answerVars == <<asks, cache, seen>>
allVars == <<vars, asks, cache, seen>>

NoAsk == [pc |-> "idle", version |-> {}, keyed |-> FALSE,
          degraded |-> FALSE, facts |-> {}]
IsOpen(r) == asks[r].pc \in {"asked", "reading"}

AnswersInit ==
    /\ Init
    /\ asks = [r \in Requests |-> NoAsk]
    /\ cache = [v \in Versions |-> {}]
    /\ seen = [r \in Requests |-> {}]

(* What a statement reads: restrict_to_active_release fails on two. *)
Readable == Cardinality(Active) = 1

(* The version is read after the limits, whose Redis may be degraded.      *)
(* With earlier messages and no structured state there is no cache key.    *)
Ask(r) ==
    /\ asks[r].pc = "idle" /\ Readable
    /\ \E keyed, degraded \in BOOLEAN :
          asks' = [asks EXCEPT ![r] = [NoAsk EXCEPT !.pc = "asked",
                      !.version = Active, !.keyed = keyed, !.degraded = degraded]]
    /\ seen' = [seen EXCEPT ![r] = Active]
    /\ UNCHANGED <<vars, cache>>

Entry(r) == UNION {cache[v] : v \in asks[r].version}

(* Redis may be away: then there is nothing to find. *)
Hit(r) ==
    /\ asks[r].pc = "asked" /\ asks[r].keyed /\ Entry(r) # {}
    /\ asks' = [asks EXCEPT ![r].pc = "answered", ![r].facts = Entry(r)]
    /\ UNCHANGED <<vars, cache, seen>>

Miss(r) ==
    /\ asks[r].pc = "asked"
    /\ asks' = [asks EXCEPT ![r].pc = "reading"]
    /\ UNCHANGED <<vars, cache, seen>>

Read(r) ==
    /\ asks[r].pc = "reading"
    /\ asks' = [asks EXCEPT ![r] = IF Readable
                   THEN [@ EXCEPT !.facts = asks[r].facts \union Active]
                   ELSE [@ EXCEPT !.pc = "failed"]]
    /\ UNCHANGED <<vars, cache, seen>>

(* A failed search or generation degrades the answer; a degraded answer is *)
(* not stored, and a store that fails is forgotten.                        *)
Answer(r) ==
    /\ asks[r].pc = "reading" /\ asks[r].facts # {}
    /\ \E degraded \in {asks[r].degraded, TRUE} :
          /\ asks' = [asks EXCEPT ![r].pc = "answered", ![r].degraded = degraded]
          /\ \/ /\ asks[r].keyed /\ ~ degraded
                /\ cache' = [v \in Versions |->
                      IF v \in asks[r].version THEN asks[r].facts ELSE cache[v]]
             \/ UNCHANGED cache
    /\ UNCHANGED <<vars, seen>>

(* A day after it was stored, an entry expires. *)
Expire(v) ==
    /\ cache[v] # {}
    /\ cache' = [cache EXCEPT ![v] = {}]
    /\ UNCHANGED <<vars, asks, seen>>

Rollout ==
    /\ Next
    /\ seen' = [r \in Requests |-> IF IsOpen(r) THEN seen[r] \union Active'
                                               ELSE seen[r]]
    /\ UNCHANGED <<asks, cache>>

AnswersNext ==
    \/ Rollout
    \/ \E r \in Requests : Ask(r) \/ Hit(r) \/ Miss(r) \/ Read(r) \/ Answer(r)
    \/ \E v \in Versions : Expire(v)

AnswersSpec == AnswersInit /\ [][AnswersNext]_allVars

---------------------------------------------------------------------------
(* docs/api.md: public basketball responses are scoped to the validated    *)
(* active release.  Every release an answer draws on was the active one at *)
(* some time while the request was open.                                   *)
AnswersAreOfTheActiveRelease ==
    \A r \in Requests :
        asks[r].pc = "answered" => asks[r].facts \subseteq seen[r]
=============================================================================
