------------------------- MODULE MCReleaseWriters --------------------------
(* A rollout activates its staged candidate while a bundle is loaded and   *)
(* activated: two writers, three releases.                                 *)
EXTENDS DatasetReleases

Init == WritersInit([v \in Versions |->
            CASE v = "r1" -> "active" [] v = "r2" -> "staged" [] OTHER -> "absent"])

Next ==
    \/ txn["deploy"].pc = "idle" /\ BeginActivate("deploy", "r2")
    \/ txn["load"].pc = "idle" /\ BeginLoad("load", "r3")
    \/ \E w \in Writers : WriterStep(w)

Spec == Init /\ [][Next]_releaseVars
=============================================================================
