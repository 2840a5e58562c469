------------------------- MODULE MCLinearRegression -------------------------
(***************************************************************************)
(* linearRegressionSlope checked against the definition of a least-squares *)
(* line over every window up to MaxLength readings, with readings without  *)
(* points, readings at one time and readings that go back in time among    *)
(* them.  A window grows by one reading per step.                          *)
(***************************************************************************)
EXTENDS LinearRegression

CONSTANTS
    Times, Distances,  \* what a reading is made of
    MaxLength          \* bound: readings in a window

ASSUME RegressionAssumption ==
    /\ Times \subseteq Int
    /\ Distances \subseteq Nat \cup {NoPoint}
    /\ MaxLength \in Nat

VARIABLE data

MCTimes == {0, 1, 3}
MCDistances == {NoPoint, 0, 2, 7}

NoReadings == data = <<>>

AddReading ==
    /\ Len(data) < MaxLength
    /\ \E t \in Times, x \in Distances : data' = Append(data, [t |-> t, x |-> x])

Full ==
    /\ Len(data) = MaxLength
    /\ UNCHANGED data

WindowSpec == NoReadings /\ [][AddReading \/ Full]_data

-----------------------------------------------------------------------------
Measurements == {l \in DOMAIN data : data[l].x >= 0}

\* Two measurements at different times: only then is there a line.
Determined == \E l, m \in Measurements : data[l].t # data[m].t

\* The function returns the least-squares line of the readings that have points,
\* whichever reading its time counts from: the residuals add up to zero, and so do
\* the residuals weighted with the times.  It is the only line with these two sums.
\* Without two measurements at different times it returns {0.0, 0.0}.
IsLeastSquares ==
    \A ref \in DOMAIN data :
        LET line        == LinearRegressionSlope(data, ref)
            t(l)        == data[l].t - data[ref].t
            residual(l) == data[l].x * line.den - At(line, t(l))
        IN  IF Determined
            THEN /\ line.den > 0
                 /\ SumFunction([l \in Measurements |-> residual(l)]) = 0
                 /\ SumFunction([l \in Measurements |-> t(l) * residual(l)]) = 0
            ELSE line = NoLine
=============================================================================
