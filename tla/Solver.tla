-------------------------------- MODULE Solver --------------------------------
(***************************************************************************)
(* The ODE solvers of src/inc/damp/simulation/solver.hpp: FixedStepSolver, *)
(* here over the multistep integrator BDF2 (integrator.hpp), whose history *)
(* outlives a step and a solve, and AdaptiveStepSolver with its step-size  *)
(* control and its location of zero crossings.  A behaviour is the life of *)
(* one solver: one solve() after another, each turn of a solve's loop one  *)
(* action.  The integrator may fail or err as it likes, and the callbacks  *)
(* may replace the state or stop the run after any step.                   *)
(*                                                                         *)
(* Times are integers, a tick standing for the resolution of a crossing.   *)
(* A state is the time it was integrated to and the number of jumps that   *)
(* events have made before it.                                             *)
(***************************************************************************)
EXTENDS Integers, Sequences, FiniteSetsExt, SequencesExt, Iteration

CONSTANTS
    SolveSpans,  \* what tf may be; t0 is 0
    Steps,       \* of the fixed solver
    MinSteps, MaxSteps, FirstSteps, FailOnMinStep,  \* AdaptiveOptions
    MaxFactor, MaxNfev,
    MaxRejections,  \* in a row: max_consecutive_rejections, 100 in the code
    Crossings    \* sets of zero-crossing functions: the sign at each time

\* min_step is replaced when it is not positive; the other options may be anything.
ASSUME SolverAssumption ==
    /\ SolveSpans \cup Steps \cup MaxSteps \cup FirstSteps \subseteq Int
    /\ MinSteps \cup {MaxFactor, MaxRejections} \subseteq Nat \ {0}
    /\ \A zeros \in Crossings : \A z \in zeros : \A tf \in SolveSpans :
         \A time \in 0 .. tf : z[time] \in {-1, 0, 1}

VARIABLES
    solve,     \* the arguments of the solve and the options of its solver
    solving, solved,
    accepted,  \* result.t and result.x: the states accepted
    past,      \* the multistep integrator: <<>> or <<x_prev>>
    h, nfev, rejections, last_rejected,
    used,      \* history: the past, start and step of the last evolve()
    stopped,   \* history: a callback has stopped this solve
    refused    \* history: the step of the last attempt, if it was rejected

control == <<h, nfev, rejections, last_rejected, refused>>
solverVars == <<solve, solving, solved, accepted, past, control, used, stopped>>

FixedRuns == [solver : {"fixed"}, tf : SolveSpans, step : Steps]

AdaptiveRuns ==
    [solver : {"adaptive"}, tf : SolveSpans, lo : MinSteps, hi : MaxSteps,
     first : FirstSteps, fail : FailOnMinStep, zero : Crossings]

reached == Last(accepted)
now == reached.t

Least(a, b) == IF a < b THEN a ELSE b
Clamped(v, lo, hi) == IF v < lo THEN lo ELSE Least(v, hi)

\* Limits in the wrong order are exchanged.
HMin(c) == Least(c.lo, c.hi)
HMax(c) == IF c.lo < c.hi THEN c.hi ELSE c.lo

Refuses(c) == c.tf < 0 \/ (c.solver = "fixed" /\ c.step <= 0)

Nothing == [past |-> <<>>, from |-> [t |-> 0, jumps |-> 0], step |-> 0]

FirstStep(c) ==
    IF c.solver = "adaptive" THEN Clamped(c.first, HMin(c), HMax(c)) ELSE 0

Origin == <<[t |-> 0, jumps |-> 0]>>

SolverInit ==
    /\ solve \in FixedRuns \cup AdaptiveRuns
    /\ solving = ~Refuses(solve) /\ solved = ~Refuses(solve)
    /\ accepted = Origin /\ past = <<>>
    /\ h = FirstStep(solve)
    /\ nfev = 0 /\ rejections = 0 /\ last_rejected = FALSE /\ refused = 0
    /\ used = Nothing /\ stopped = FALSE

\* solve() again, with the same solver: it makes the integrator forget.
Solve ==
    /\ ~solving
    /\ solve' \in FixedRuns \cup AdaptiveRuns
    /\ solving' = ~Refuses(solve') /\ solved' = ~Refuses(solve')
    /\ accepted' = Origin /\ past' = <<>>
    /\ h' = FirstStep(solve')
    /\ nfev' = 0 /\ rejections' = 0 /\ last_rejected' = FALSE /\ refused' = 0
    /\ used' = Nothing /\ stopped' = FALSE

\* Mutant of Fail: the loop is left, and nothing said.
FailQuietly == solving' = FALSE /\ UNCHANGED solved

Fail == solving' = FALSE /\ solved' = FALSE

\* An accepted state is logged; the event detector may replace it, and it or the stop
\* condition may end the run.
Accept(state, jump, stop) ==
    /\ accepted' = Append(accepted, [state EXCEPT !.jumps = IF jump THEN @ + 1 ELSE @])
    /\ stopped' = stop
    /\ solving' = ~stop
    /\ UNCHANGED solved

-----------------------------------------------------------------------------
(* FixedStepSolver over BDF2.                                              *)

\* step_count() and grid_time(): the last step ends at the end of the span.
GridCount == (solve.tf + solve.step - 1) \div solve.step
GridPoint(k) == IF k >= GridCount THEN solve.tf ELSE k * solve.step

\* Mutant of PastKept: a jump is forgotten.
PastKeptOverJump(state, jump) == <<state>>

\* A final step of another length starts without history.
Remembered(to) == IF to - now = solve.step THEN past ELSE <<>>

\* So does the step after a jump; otherwise BDF2 keeps the start of the step.
PastKept(state, jump) == IF jump THEN <<>> ELSE <<state>>

FixedStep ==
    /\ solving /\ solve.solver = "fixed" /\ Len(accepted) <= GridCount
    /\ LET to == GridPoint(Len(accepted)) IN
       /\ used' = [past |-> Remembered(to), from |-> reached, step |-> to - now]
       /\ nfev' = nfev + 1
       /\ \/ Fail /\ past' = Remembered(to) /\ UNCHANGED <<accepted, stopped>>
          \/ \E jump, stop \in BOOLEAN :
               /\ Accept([reached EXCEPT !.t = to], jump, stop)
               /\ past' = PastKept(reached, jump)
    /\ UNCHANGED <<solve, h, rejections, last_rejected, refused>>

FixedEnd ==
    /\ solving /\ solve.solver = "fixed" /\ Len(accepted) > GridCount
    /\ solving' = FALSE
    /\ UNCHANGED <<solve, solved, accepted, past, control, used, stopped>>

-----------------------------------------------------------------------------
(* AdaptiveStepSolver.                                                     *)

Remaining == solve.tf - now

\* The step to try: no shorter than the floor while there is room for it, and no
\* longer than what is left.
Target ==
    Least(Remaining, IF Remaining > HMin(solve) /\ h < HMin(solve) THEN HMin(solve) ELSE h)

AtMinStep == Target <= HMin(solve) /\ Remaining > HMin(solve)

\* The sign of a zero-crossing function along the trajectory; a jump negates it.
SignAt(z, time, jumps) == IF jumps % 2 = 0 THEN z[time] ELSE -z[time]

Opposite(a, b) == a * b = -1

\* locate_crossing(): a turn of the bisection keeps lo on the side of the start; the
\* crossing found is hi.
Brackets(from, end) == [lo : from.t .. end, hi : from.t .. end, probes : Nat]

Bisected(z, from, b) ==
    LET mid   == b.lo + (b.hi - b.lo) \div 2
        zMid  == SignAt(z, mid, from.jumps)
        below == zMid # 0 /\ ~Opposite(SignAt(z, from.t, from.jumps), zMid)
    IN IF b.hi - b.lo <= 1 THEN b
       ELSE [lo |-> IF below THEN mid ELSE b.lo, hi |-> IF below THEN b.hi ELSE mid,
             probes |-> b.probes + 1]

Located(z, from, end) ==
    Iterated([lo |-> from.t, hi |-> end, probes |-> 0],
             [turn \in Nat |-> [b \in Brackets(from, end) |-> Bisected(z, from, b)]])[end - from.t]

\* The functions that change sign over the step.
Crossed(from, end) ==
    {z \in solve.zero : Opposite(SignAt(z, from.t, from.jumps), SignAt(z, end, from.jumps))}

\* Mutant of Earliest: the last crossing found ends the step.
LatestFound(times, end) ==
    IF times = {} THEN end ELSE CHOOSE a \in times : \A b \in times : b <= a

Earliest(times, end) ==
    IF times = {} THEN end ELSE CHOOSE a \in times : \A b \in times : a <= b

Probes(from, end) ==
    MapThenSumSet(LAMBDA z : Located(z, from, end).probes, Crossed(from, end))

OutOfBudget ==
    /\ solving /\ solve.solver = "adaptive" /\ now < solve.tf /\ nfev >= MaxNfev
    /\ Fail
    /\ UNCHANGED <<solve, accepted, past, control, used, stopped>>

\* Limits that leave no step to try.
NoStep ==
    /\ solving /\ solve.solver = "adaptive" /\ now < solve.tf /\ nfev < MaxNfev
    /\ Target <= 0
    /\ Fail
    /\ UNCHANGED <<solve, accepted, past, control, used, stopped>>

Tries ==
    solving /\ solve.solver = "adaptive" /\ now < solve.tf /\ nfev < MaxNfev /\ Target > 0

\* The error of a step at the floor is beyond the tolerance, or undefined.
MinStepFails ==
    /\ Tries /\ AtMinStep
    /\ Fail
    /\ nfev' = nfev + 1
    /\ UNCHANGED <<solve, accepted, past, h, rejections, last_rejected, refused, used, stopped>>

\* Too large an error, or none: the next attempt is to be shorter.
Reject ==
    /\ Tries /\ ~AtMinStep
    /\ nfev' = nfev + 1
    /\ \E shorter \in 0 .. Target - 1 : h' = Clamped(shorter, HMin(solve), HMax(solve))
    /\ rejections' = rejections + 1 /\ last_rejected' = TRUE
    /\ refused' = Target
    /\ IF rejections' >= MaxRejections THEN Fail ELSE UNCHANGED <<solving, solved>>
    /\ UNCHANGED <<solve, accepted, past, used, stopped>>

\* A step within the tolerance grows the next one, though not right after a rejection;
\* one that is forced at the floor shrinks it.  A crossing cuts the step short.
AcceptStep ==
    /\ Tries
    /\ \E forced \in BOOLEAN :
         /\ forced => AtMinStep /\ ~solve.fail
         /\ \E next \in 0 .. (IF forced THEN Target - 1
                              ELSE IF last_rejected THEN Target ELSE MaxFactor * Target) :
              h' = Clamped(next, HMin(solve), HMax(solve))
    /\ rejections' = 0 /\ last_rejected' = FALSE /\ refused' = 0
    /\ LET end   == now + Target
           times == {Located(z, reached, end).hi : z \in Crossed(reached, end)}
       IN /\ nfev' = nfev + 1 + Probes(reached, end)
          /\ \E jump, stop \in BOOLEAN :
               Accept([reached EXCEPT !.t = Earliest(times, end)], jump, stop)
    /\ UNCHANGED <<solve, past, used>>

AdaptiveEnd ==
    /\ solving /\ solve.solver = "adaptive" /\ now >= solve.tf
    /\ solving' = FALSE
    /\ UNCHANGED <<solve, solved, accepted, past, control, used, stopped>>

-----------------------------------------------------------------------------
SolveLoop ==
    \/ FixedStep \/ FixedEnd
    \/ OutOfBudget \/ NoStep \/ MinStepFails \/ Reject \/ AcceptStep \/ AdaptiveEnd

SolverNext == SolveLoop \/ Solve

\* The solver's loop runs on its own thread of control until it ends.
SolverSpec == SolverInit /\ [][SolverNext]_solverVars /\ WF_solverVars(SolveLoop)

-----------------------------------------------------------------------------
(***************************************************************************)
(* Properties                                                              *)
(***************************************************************************)

\* A solve that ends says how: it succeeded if and only if its arguments made sense
\* and it reached tf or was stopped by a callback.  The times it logged strictly
\* increase from t0, and those of the fixed solver are the grid's.
SolveIsHonest ==
    /\ ~solving => (solved <=> ~Refuses(solve) /\ (now = solve.tf \/ stopped))
    /\ \A i \in 2 .. Len(accepted) :
         /\ accepted[i].t > accepted[i - 1].t /\ accepted[i].t <= solve.tf
         /\ solve.solver = "fixed" => accepted[i].t = GridPoint(i - 1)

\* "The coefficients assume a constant step h - call reset() after changing h or after
\* a discontinuity in x": whatever jumps, failures and earlier solves came before, the
\* history BDF2 steps with lies one step of the same length back on the same smooth
\* piece of the same trajectory.
HistoryIsSmooth ==
    used.past # <<>> => used.past[1] = [used.from EXCEPT !.t = @ - used.step]

\* Having crossed, it stays across.
CrossesOnce(z) ==
    \A a, b, c \in 0 .. solve.tf : a <= b /\ b <= c /\ Opposite(z[a], z[b]) => Opposite(z[a], z[c])

\* "The earliest crossing among all registered functions ends the step, at the first
\* point past the sign change": no function that crosses zero once has crossed it
\* before the last tick of an accepted step, however long the step and however many
\* functions cross in it.
CrossingEndsStep ==
    solve.solver = "adaptive" =>
        \A i \in 2 .. Len(accepted) : \A z \in solve.zero :
            CrossesOnce(z) =>
                ~Opposite(SignAt(z, accepted[i - 1].t, accepted[i - 1].jumps),
                          SignAt(z, accepted[i].t - 1, accepted[i - 1].jumps))

\* Every solve ends, whatever the integrator answers.
SolveEnds == []<>~solving

\* "Reject: retry with a smaller step".
RetryIsSmaller == Tries /\ refused # 0 => Target < refused
=============================================================================
