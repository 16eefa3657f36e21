----------------------------- MODULE Composition -----------------------------
(***************************************************************************)
(* SwitchedController of src/inc/damp/controllers/composition.hpp: three   *)
(* laws, Normal, Experiment and Backup, of which one owns the plant        *)
(* command.  What a law has in its integrators is the set of the calls of  *)
(* control() it has answered since it was reset; a command is the law that *)
(* gave it, "injected" or, after reset(), "none".                          *)
(***************************************************************************)
EXTENDS Naturals, FiniteSets

CONSTANT MaxCalls   \* where the calls of control() stop being counted apart

SwitchMode == {"Normal", "Experiment", "Backup"}

VARIABLES
    memory,   \* what each law has answered since its last reset
    mode, lastU,
    calls,    \* history: the calls of control() so far
    since     \* history: those of them before the active law took over

switched == <<memory, mode, lastU, calls, since>>

SwitchedInit ==
    /\ memory = [m \in SwitchMode |-> {}]
    /\ mode = "Normal" /\ lastU = "none" /\ calls = 0 /\ since = 0

\* set_mode(): of the mode that is active it does nothing.
SetMode(m) ==
    /\ m # mode
    /\ mode' = m /\ since' = calls
    /\ memory' = [memory EXCEPT ![m] = {}]
    /\ UNCHANGED <<lastU, calls>>

\* control(): the active law answers.
Control ==
    /\ calls < MaxCalls
    /\ memory' = [memory EXCEPT ![mode] = @ \cup {calls}]
    /\ lastU' = mode /\ calls' = calls + 1
    /\ UNCHANGED <<mode, since>>

\* Mutant of Inject: every mode takes it.
InjectAlways ==
    /\ lastU' = "injected"
    /\ UNCHANGED <<memory, mode, calls, since>>

\* inject(): only an experiment takes a command from outside.
Inject ==
    /\ lastU' = IF mode = "Experiment" THEN "injected" ELSE lastU
    /\ UNCHANGED <<memory, mode, calls, since>>

\* reset(): every law and the last command, but not the mode.
SwitchedReset ==
    /\ memory' = [m \in SwitchMode |-> {}]
    /\ lastU' = "none" /\ since' = calls
    /\ UNCHANGED <<mode, calls>>

\* "On mode change, the newly active controller is reset so integrators do not inherit
\* foreign state": whatever the switches, injections and resets before, the law that
\* owns the command remembers its own calls since it took over and nothing older; and
\* once it has answered, last_u() is its own, or injected into its experiment.
OwnerIsFresh ==
    /\ memory[mode] = since .. calls - 1
    /\ memory[mode] # {} =>
         lastU \in {mode} \cup (IF mode = "Experiment" THEN {"injected"} ELSE {})
=============================================================================
