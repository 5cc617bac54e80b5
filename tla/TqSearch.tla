------------------------------ MODULE TqSearch ------------------------------
(***************************************************************************)
(* The search for the crf of one chunk: TQCtx, tq_search_crf and the       *)
(* verdict of make_metric_loop in src/src/enc.rs.  Two bisections, then an *)
(* interpolation of the probes, each rounded to the grid of the encoder    *)
(* and clamped to what is left of the range; the search ends when a score  *)
(* is in the target range, when two probes contradict each other, or when  *)
(* nothing of the range is left.  A crf is counted in grid steps           *)
(* (bound_step; val_grid rejects a range off the grid).                    *)
(*                                                                         *)
(* External: the metric, any function that gets strictly worse with the    *)
(* crf (a larger score when Butter, a smaller one otherwise), and the      *)
(* interpolation, which may give anything.                                 *)
(***************************************************************************)
EXTENDS Integers, Sequences, FiniteSetsExt

CONSTANTS QpMin, QpMax,   \* -f
          Scores,         \* what the metric may give
          Tolerances,     \* half the width of -t
          Butter          \* the target is below 8

SearchAssumption == /\ QpMin \in Nat /\ QpMax \in Nat /\ QpMin < QpMax
                    /\ Scores \subseteq Int /\ Tolerances \subseteq Nat

VARIABLES score,      \* the metric of this chunk
          target, tolerance,
          searchMin, searchMax, round, lastCrf, probes, phase

vars == <<score, target, tolerance, searchMin, searchMax, round, lastCrf, probes, phase>>

Grid == QpMin .. QpMax
Worse(a, b) == IF Butter THEN a > b ELSE a < b
Monotone == {f \in [Grid -> Scores] : \A c \in Grid \ {QpMin} : Worse(f[c], f[c - 1])}
Abs(n) == IF n < 0 THEN -n ELSE n
Diff(c) == Abs(score[c] - target)

\* TQState::arm.
Init == /\ score \in Monotone /\ target \in Scores /\ tolerance \in Tolerances
        /\ searchMin = QpMin /\ searchMax = QpMax
        /\ round = 0 /\ lastCrf = QpMin /\ probes = <<>> /\ phase = "search"

\* Mutation of Clamp: to the whole range.
ClampWide(d) == IF d < QpMin THEN QpMin ELSE IF d > QpMax THEN QpMax ELSE d

\* The clamp of the rounded guess to what is left of the range.
Clamp(d) == IF d < searchMin THEN searchMin ELSE IF d > searchMax THEN searchMax ELSE d

\* bisect, or interpolate_crf; a half rounds away from zero.
Guesses == IF round + 1 <= 2 THEN {(searchMin + searchMax + 1) \div 2}
           ELSE QpMin - 1 .. QpMax + 1

SearchCrf == /\ phase = "search"
             /\ round' = round + 1
             /\ \E d \in Guesses : lastCrf' = Clamp(d)
             /\ phase' = "score"
             /\ UNCHANGED <<score, target, tolerance, searchMin, searchMax, probes>>

Converged == Diff(lastCrf) <= tolerance

\* A probe of a higher crf scored no less than one of a lower crf.
NonMonotone == \E i \in 1 .. Len(probes) :
                  (probes[i] - lastCrf) * (score[probes[i]] - score[lastCrf]) >= 0

TooGood == IF Butter THEN score[lastCrf] < target - tolerance ELSE score[lastCrf] > target + tolerance
TooBad == IF Butter THEN score[lastCrf] > target + tolerance ELSE score[lastCrf] < target - tolerance

\* Mutation of UpBounds: a probe that is too good moves the wrong end.
UpBoundsSwapped == /\ searchMin' = IF TooBad THEN lastCrf + 1 ELSE searchMin
                   /\ searchMax' = IF TooGood THEN lastCrf - 1 ELSE searchMax

\* up_bounds, evaluated only when the search is not over otherwise.
UpBounds == /\ searchMin' = IF TooGood THEN lastCrf + 1 ELSE searchMin
            /\ searchMax' = IF TooBad THEN lastCrf - 1 ELSE searchMax

Verdict == /\ phase = "score"
           /\ probes' = Append(probes, lastCrf)
           /\ IF Converged \/ NonMonotone
              THEN phase' = "done" /\ UNCHANGED <<searchMin, searchMax>>
              ELSE /\ UpBounds
                   /\ phase' = IF searchMin' > searchMax' THEN "done" ELSE "search"
           /\ UNCHANGED <<score, target, tolerance, round, lastCrf>>

Next == SearchCrf \/ Verdict
Spec == Init /\ [][Next]_vars

\* best_probe: the first of the closest probes.
Best == probes[Min({i \in 1 .. Len(probes) :
                      \A k \in 1 .. Len(probes) : Diff(probes[i]) <= Diff(probes[k])})]

----------------------------------------------------------------------------
TypeOK == /\ searchMin \in QpMin .. QpMax + 1 /\ searchMax \in QpMin - 1 .. QpMax
          /\ phase \in {"search", "score", "done"}

\* Every chunk ends in the target range, or as close to it as any crf of the range gets
\* ("pins to nearest edge & ships closest achievable quality"), although the bounds drop
\* crfs nobody probed and the search gives up on probes that contradict each other.
ShipsClosest == phase = "done" =>
                   \/ Diff(Best) <= tolerance
                   \/ \A c \in Grid : Diff(Best) <= Diff(c)

\* The crf stays in the range however wild the interpolation: init_vvenc_crf indexes a
\* table of one configuration per qp of the range with it, unchecked.  No crf is probed
\* twice, so the search is over after as many rounds as the range has steps.
InTable == /\ lastCrf \in Grid
           /\ \A i, k \in 1 .. Len(probes) : probes[i] = probes[k] => i = k
=============================================================================
