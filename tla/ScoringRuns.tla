----------------------------- MODULE ScoringRuns ----------------------------
(***************************************************************************)
(* The scoring-run detector of basketball-core (detectors/scoring_run.py): *)
(* one pass over the events of a game, in order.  An event is its team,    *)
(* its points (0 when it is no made shot), its period and whether it is a  *)
(* boundary of one.  Clocks, summaries and sequence numbers are left out:  *)
(* a run is the span of indices it stands for.  The bounds are MaxEvents   *)
(* and the last period.                                                    *)
(***************************************************************************)
EXTENDS Integers, Sequences, SequencesExt

CONSTANTS Teams, NoTeam, MinRunPoints, MinEvents, MaxEvents, LastPeriod

VARIABLES
    events, \* sorted_events
    i,      \* where the next run is looked for
    runs    \* the runs found, in the order of the game

vars == <<events, i, runs>>

Boundaries == {"period_start", "period_end"}
Plays ==
    [team : Teams \union {NoTeam}, points : 0 .. 3, kind : {"play"},
     period : 1 .. LastPeriod]
Marks ==
    [team : {NoTeam}, points : {0}, kind : Boundaries, period : 1 .. LastPeriod]

(* Points are a team's, periods never go back, and a mark opens or closes  *)
(* its period.                                                             *)
Opens(game, n) == n = 1 \/ game[n].period # game[n - 1].period
Games ==
    {game \in BoundedSeq(Plays \union Marks, MaxEvents) :
        \A n \in DOMAIN game :
            /\ game[n].team = NoTeam => game[n].points = 0
            /\ n > 1 => game[n].period >= game[n - 1].period
            /\ n > 1 => (Opens(game, n) <=> game[n].kind = "period_start")
            /\ (n < Len(game) /\ game[n].kind = "period_end") => Opens(game, n + 1)}

Scores(event) == event.points > 0 /\ event.team # NoTeam
Begins(event) == event.kind \notin Boundaries /\ Scores(event)

(* What ends the walk of a run of team that began in period. *)
Breaks(event, team, period) ==
    \/ event.period # period
    \/ event.kind = "period_end"
    \/ event.team # team /\ Scores(event)

Points(from, to, team) ==
    FoldSeq(LAMBDA event, sum :
                sum + (IF event.team = team THEN event.points ELSE 0),
            0, SubSeq(events, from, to))

---------------------------------------------------------------------------
Init == events \in Games /\ i = 1 /\ runs = <<>>

Skip ==
    /\ i <= Len(events) /\ ~ Begins(events[i])
    /\ i' = i + 1
    /\ UNCHANGED <<events, runs>>

(* Where the walk from a stops: the terminator, or the end of the game. *)
Terminator(a) ==
    CHOOSE j \in a + 1 .. Len(events) + 1 :
        /\ j <= Len(events) => Breaks(events[j], events[a].team, events[a].period)
        /\ \A k \in a .. j - 1 :
              ~ Breaks(events[k], events[a].team, events[a].period)

(* The run is credited up to the last event of its team, and the scan goes *)
(* on behind the terminator.                                               *)
Walk ==
    /\ i <= Len(events) /\ Begins(events[i])
    /\ LET team == events[i].team
           j    == Terminator(i)
           last == CHOOSE k \in i .. j - 1 :
                      /\ events[k].team = team
                      /\ \A m \in k + 1 .. j - 1 : events[m].team # team
       IN
       /\ runs' = IF /\ Points(i, last, team) >= MinRunPoints
                     /\ last - i + 1 >= MinEvents
                  THEN Append(runs, [team |-> team, from |-> i, to |-> last])
                  ELSE runs
       /\ i' = j + 1
    /\ UNCHANGED events

Next == Skip \/ Walk
Spec == Init /\ [][Next]_vars

---------------------------------------------------------------------------
(* The reference: a maximal span of one team's scoring, unbroken by an     *)
(* opponent's score or a change of period.  It begins at a score that no   *)
(* unbroken walk from an earlier score of the team reaches, and ends with  *)
(* the last event of the team before it is broken.                         *)
Unbroken(a, b) ==
    \A k \in a .. b : ~ Breaks(events[k], events[a].team, events[a].period)

Maximal(a, b) ==
    /\ Begins(events[a]) /\ events[b].team = events[a].team /\ Unbroken(a, b)
    /\ \A c \in 1 .. a - 1 :
          ~ (Begins(events[c]) /\ events[c].team = events[a].team /\ Unbroken(c, a))
    /\ \A d \in b + 1 .. Len(events) :
          events[d].team = events[a].team => ~ Unbroken(a, d)

(* The docstring: detect_scoring_runs detects all scoring runs, a run is   *)
(* a maximal span in which the team scores at least min_run_points.        *)
AllRunsAreFound ==
    i > Len(events) =>
        \A a \in DOMAIN events : \A b \in a .. Len(events) :
            (/\ Maximal(a, b)
             /\ Points(a, b, events[a].team) >= MinRunPoints
             /\ b - a + 1 >= MinEvents)
            => \E n \in DOMAIN runs :
                  runs[n] = [team |-> events[a].team, from |-> a, to |-> b]
=============================================================================
