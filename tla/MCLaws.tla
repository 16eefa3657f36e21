------------------------------- MODULE MCLaws ------------------------------
(***************************************************************************)
(* The control laws under an actuator that clamps, on small sets of        *)
(* references, measurements, inputs and feedforwards: the PID, LQI and     *)
(* LQGI, or MPC.  The laws share no state: a behaviour exercises one.      *)
(***************************************************************************)
EXTENDS Pid, StateFeedback, PredictiveControl

VARIABLE bench  \* which law: "pid", "feedback" or "predictive"

MCRefs == {0, 2}
MCMeas == {-1, 0, 1}
MCTracks == {-1, 3}
MCForwards == {-2, 0, 2}
MCNeg1 == -1
MCNeg2 == -2
MCNeg60 == -60

-----------------------------------------------------------------------------
MCStates == {-1, 0, 1}
MCTargets == {-1, 1}
MCGains == {-1, 1}
MCFeedthroughs == {0, 1}
MCManuals == {-1, 2, 4}
MCAdded == {-1, 0, 1}
MCMoves == -3 .. 3

\* Boxes off centre, one that shuts out the other's ends, and one that is refused.
MCBoxes ==
    {[lo |-> -3, hi |-> 3, down |-> -1, up |-> 2],
     [lo |-> -1, hi |-> 1, down |-> -2, up |-> 1],
     [lo |-> 1, hi |-> -1, down |-> -2, up |-> 1]}

benches == <<vars, bench, feedbackVars, predictiveVars>>

MCInit ==
    /\ Init /\ FeedbackInit /\ PredictiveInit
    /\ bench \in {"pid", "feedback", "predictive"}
    /\ bench # "feedback" => law = [estimated |-> FALSE, Ki |-> 1, D |-> 0] /\ call = "update"
    /\ bench # "predictive" =>
          /\ design = [success |-> TRUE, invariant_set |-> FALSE, hard |-> FALSE]
          /\ limits = [lo |-> -3, hi |-> 3, down |-> -1, up |-> 2]

MCNext ==
    \/ bench = "pid" /\ Next /\ UNCHANGED <<bench, feedbackVars, predictiveVars>>
    \/ bench = "feedback" /\ FeedbackNext /\ UNCHANGED <<vars, bench, predictiveVars>>
    \/ bench = "predictive" /\ PredictiveNext /\ UNCHANGED <<vars, bench, feedbackVars>>

MCSpec == MCInit /\ [][MCNext]_benches
=============================================================================
