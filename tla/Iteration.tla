------------------------------ MODULE Iteration ------------------------------
(***************************************************************************)
(* What a loop of the library computes: the values of its state after each *)
(* turn, and the running sums many of its loops keep.  The facts about     *)
(* them that the proofs use are in CommonLemmas.                           *)
(***************************************************************************)
EXTENDS Integers, Sequences

\* The states of a loop that starts in a and whose turn n, from 1, takes s to F[n][s].
Iterated(a, F) == LET s[n \in Nat] == IF n = 0 THEN a ELSE F[n][s[n - 1]] IN s

\* SumTo(f)[n] is f[1] + ... + f[n].
SumTo(f) == Iterated(0, [n \in Nat |-> [s \in Int |-> s + f[n]]])

\* The sum of the numbers of a sequence.
SeqSum(q) == SumTo([i \in Nat |-> IF i \in 1 .. Len(q) THEN q[i] ELSE 0])[Len(q)]
=============================================================================
