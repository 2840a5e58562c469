-------------------------- MODULE LinearRegression --------------------------
(***************************************************************************)
(* linearRegressionSlope of Utils.cc, in exact arithmetic: a line is a     *)
(* slope and an intercept over a common denominator.                       *)
(*                                                                         *)
(* A reading of the rangefinder is [t |-> time, x |-> distance]; x is       *)
(* NoPoint when the reading has no points.                                  *)
(***************************************************************************)
EXTENDS Integers, FiniteSets, FiniteSetsExt, Functions, Sequences

NoPoint == -1

\* The code's {0.0, 0.0}: too few valid readings, or all at one time.
NoLine == [slope |-> 0, intercept |-> 0, den |-> 1]

\* Fault: readings without points are counted.
ValidAll(data) == DOMAIN data

\* The readings that have a point.
Valid(data) == {l \in DOMAIN data : data[l].x # NoPoint}

\* The least-squares line through data, its time counted from the reading ref.
LinearRegressionSlope(data, ref) ==
    LET valid == Valid(data)
        n     == Cardinality(valid)
        T(l)  == data[l].t - data[ref].t
        X(l)  == data[l].x
        sumT  == SumFunction([l \in valid |-> T(l)])
        sumX  == SumFunction([l \in valid |-> X(l)])
        sumTT == SumFunction([l \in valid |-> T(l) * T(l)])
        sumTX == SumFunction([l \in valid |-> T(l) * X(l)])
        denom == n * sumTT - sumT * sumT
        a     == n * sumTX - sumT * sumX
    IN  IF Len(data) < 2 \/ n < 2 \/ denom = 0
        THEN NoLine
        ELSE [slope     |-> n * a,
              intercept |-> sumX * denom - a * sumT,
              den       |-> n * denom]

\* The line's value at time t after its reference, over line.den.
At(line, t) == line.slope * t + line.intercept
=============================================================================
