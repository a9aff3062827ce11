--------------------------- MODULE ScoringPolicy ----------------------------
(***************************************************************************)
(* The linear scoring policy of src/internal/deadlines/scoring.go in       *)
(* integers, and what the scorer makes of a policy's score.  Factors are   *)
(* in percent; instants, the deadline and the length of the decline are    *)
(* numbers of one unit of time.                                            *)
(***************************************************************************)
EXTENDS Integers

(* Full before the deadline, then declining to the factor over `after'.    *)
LinearScore(max, deadline, after, factor, at) ==
    IF at < deadline THEN max
    ELSE IF at < deadline + after
    THEN (max * (100 * after - (100 - factor) * (at - deadline))) \div (100 * after)
    ELSE (max * factor) \div 100

(* A successful submission: nothing after the final deadline, but never    *)
(* less than what a retake is worth to who has one.                        *)
scorePipeline(score, final, floor, at) ==
    LET given == IF at > final THEN 0 ELSE score IN
    IF floor > given THEN floor ELSE given

=============================================================================
