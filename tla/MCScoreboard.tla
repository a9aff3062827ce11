---------------------------- MODULE MCScoreboard ----------------------------
(* Small instances of Scoreboard.                                          *)
EXTENDS Scoreboard, ScoringPolicy

(* A task of 10 points that declines to 40% over two instants, with a      *)
(* final deadline one instant after the deadline and a retake worth 2.     *)
MCPoints ==
    [t \in Times |-> scorePipeline(LinearScore(10, Deadline, 2, 40, t), Deadline + 1, 2, t)]

MCRowValues == Row

(* Both students compete by three pipelines.  In the other workflows one   *)
(* submission is in time and one late, the author's or a flag of either.   *)
MCSince     == [k \in Kinds |-> IF k = "pipelines" THEN 0 ELSE 1]
MCPushing   == [k \in Kinds |-> IF k = "pipelines" THEN Students ELSE {Author}]
MCMaxMetric == [k \in Kinds |-> IF k = "pipelines" THEN 2 ELSE 1]

(* The hypothesis of PlacesFollowResults holds of these points.            *)
ASSUME MCPointsAssumption == FullUntilDeadline

=============================================================================
