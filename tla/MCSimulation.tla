---------------------------- MODULE MCSimulation ----------------------------
(***************************************************************************)
(* Runs of up to four base ticks of three time units, the last of them     *)
(* shorter, and of up to eleven events; or the life of a solver with spans *)
(* of seven ticks.  Drivers and solvers share no state: a behaviour        *)
(* exercises one of the two.                                               *)
(***************************************************************************)
EXTENDS Simulation, Solver

VARIABLE bench  \* which of the two: "drivers" or "solver"

MCSpans == {0, 10}
MCSolveSpans == {-1, 0, 7}

\* The sign of a function that rises through zero after tick a and rests on zero
\* until tick b.
Rising(a, b) == [i \in 0 .. 7 |-> IF i <= a THEN -1 ELSE IF i <= b THEN 0 ELSE 1]

MCCrossings == {{}, {Rising(2, 2), Rising(3, 3)}, {Rising(3, 3), Rising(2, 3)}}

all == <<vars, solverVars, bench>>

MCInit ==
    /\ Init /\ SolverInit
    /\ \/ bench = "drivers" /\ solve = CHOOSE c \in FixedRuns : TRUE
       \/ bench = "solver" /\ run = CHOOSE c \in PiecewiseRuns : TRUE

Drivers == bench = "drivers" /\ Next /\ UNCHANGED <<solverVars, bench>>
Solvers == bench = "solver" /\ SolverNext /\ UNCHANGED <<vars, bench>>

MCSpec ==
    /\ MCInit /\ [][Drivers \/ Solvers]_all
    /\ WF_all(bench = "drivers" /\ Loop /\ UNCHANGED <<solverVars, bench>>)
    /\ WF_all(bench = "solver" /\ SolveLoop /\ UNCHANGED <<vars, bench>>)

\* Every run of a driver ends, and so does every solve, whatever plant, schedule,
\* callbacks and integrator answer.
LoopsEnd ==
    /\ bench = "drivers" => RunEnds
    /\ bench = "solver" => SolveEnds
=============================================================================
