----------------------------- MODULE LawsProofs -----------------------------
(***************************************************************************)
(* Proofs about the control laws under an actuator that clamps.            *)
(*                                                                         *)
(* The PID: for every gain, limit, reference and measurement, and every    *)
(* order of calls; its integral stays bounded.  LQI and LQGI integrate the *)
(* true error and no further than the clamp explains, for every gain,      *)
(* feedthrough, actuator and plant, and whatever the application reports   *)
(* late, leaves out or hands over.  MPC keeps its moves in their boxes,    *)
(* whatever its solver answers.                                            *)
(***************************************************************************)
EXTENDS Pid, StateFeedback, PredictiveControl, CommonLemmas, FiniteSetTheorems, TLAPS

-----------------------------------------------------------------------------
(* The operators the steps are built from.                                 *)

LEMMA ScaledType ==
    ASSUME NEW num \in Nat, NEW den \in Nat \ {0}, NEW x \in Int
    PROVE  Scaled(num, den, x) \in Int
<1>1. num * x \in Int /\ num * (-x) \in Int
  OBVIOUS
<1>2. ASSUME NEW n \in Int PROVE n \div den \in Int
  OBVIOUS
<1> QED
  BY <1>1, <1>2 DEF Scaled

LEMMA ClampType ==
    ASSUME NEW lo \in Int, NEW hi \in Int, lo <= hi, NEW x \in Int
    PROVE  Clamp(x, lo, hi) \in lo .. hi
  BY DEF Clamp

LEMMA SatType ==
    ASSUME NEW x \in Int
    PROVE  SatU(x) \in ULo .. UHi /\ SatI(x) \in ILo .. IHi
  BY ClampType, GainsAssumption DEF SatU, SatI

LEMMA DecayType ==
    ASSUME NEW d \in Int
    PROVE  Decay(d) \in Int
  BY ScaledType, GainsAssumption DEF Decay

\* The proportional term and the integral increment are numbers.
LEMMA TermTypes ==
    ASSUME NEW r \in Int, NEW y \in Int
    PROVE  Prop(r, y) \in Int /\ DI(r, y) \in Int /\ C * r - y \in Int
<1>1. Kp \in Int /\ Ki \in Int /\ B \in Int /\ C \in Int
  BY GainsAssumption
<1>2. B * r - y \in Int /\ r - y \in Int /\ C * r - y \in Int
  BY <1>1
<1> QED
  BY <1>1, <1>2 DEF Prop, DI

\* So is the derivative term a tick leaves.
LEMMA DerivType ==
    ASSUME TypeOK, NEW r \in Int, NEW y \in Int
    PROVE  NextDeriv(r, y) \in Int /\ Decay(NextDeriv(r, y)) \in Int
<1>1. deriv \in Int /\ prev_x \in Int
  BY DEF TypeOK
<1>2. Delta(C * r - y) \in Int
  <2>1. ASSUME NEW x \in Int PROVE Delta(x) \in Int
    BY <1>1 DEF Delta
  <2> QED
    BY <2>1, TermTypes
<1>3. Db * Delta(C * r - y) \in Int
  BY <1>2, GainsAssumption
<1>4. NextDeriv(r, y) \in Int
  BY <1>1, <1>3, DecayType DEF NextDeriv
<1> QED
  BY <1>4, DecayType

\* Winding back keeps the integral a number, and in its limits if it was.
LEMMA WoundBackType ==
    ASSUME NEW i \in (ILo .. IHi) \cup {0}, NEW u_sat \in Int, NEW u_unsat \in Int
    PROVE  WoundBack(i, u_sat, u_unsat) \in (ILo .. IHi) \cup {0}
<1>1. Scaled(KwNum, KwDen, u_sat - u_unsat) \in Int
  BY ScaledType, GainsAssumption
<1>2. i \in Int
  BY GainsAssumption
<1> QED
  BY <1>1, <1>2, SatType DEF WoundBack

-----------------------------------------------------------------------------
(* Magnitudes.                                                             *)

Within(v, bound) == -bound <= v /\ v <= bound

LEMMA AbsIs ==
    ASSUME NEW x \in Int
    PROVE  /\ Abs(x) \in Nat /\ -Abs(x) <= x /\ x <= Abs(x)
           /\ \A b \in Int : Abs(x) <= b <=> -b <= x /\ x <= b
  BY DEF Abs

\* A finite set of numbers has a greatest element.
LEMMA MaxIs ==
    ASSUME NEW S, S \subseteq Int, S # {}, IsFiniteSet(S)
    PROVE  Max(S) \in S /\ \A s \in S : s <= Max(S)
<1> DEFINE n == Cardinality(S)
<1>1. n \in Nat /\ ExistsBijection(1 .. n, S)
  BY FS_CardinalityType
<1> HIDE DEF n
<1>2. PICK q \in Bijection(1 .. n, S) : TRUE
  BY <1>1 DEF ExistsBijection
<1>3. q \in [1 .. n -> S] /\ \A s \in S : \E i \in 1 .. n : q[i] = s
  BY <1>2 DEF Bijection, Surjection
<1>4. n # 0
  <2> SUFFICES ASSUME n = 0 PROVE FALSE
    OBVIOUS
  <2>1. \A i \in 1 .. n : FALSE
    OBVIOUS
  <2> QED
    BY <1>3, <2>1
<1> DEFINE k == n - 1
<1>5. k \in Nat /\ n = k + 1
  BY <1>1, <1>4
<1> HIDE DEF k
<1>6. q \in [1 .. k + 1 -> Int]
  BY <1>3, <1>5
<1>7. PICK m \in 1 .. k + 1 : \A i \in 1 .. k + 1 : q[i] <= q[m]
  BY <1>5, <1>6, GreatestExists
<1>8. q[m] \in S /\ \A s \in S : s <= q[m]
  BY <1>3, <1>5, <1>7
<1>9. q[m] \in S /\ \A s \in S : q[m] >= s
  <2>1. ASSUME NEW s \in S PROVE q[m] >= s
    <3>1. s \in Int /\ q[m] \in Int /\ s <= q[m]
      BY <1>8
    <3> QED
      BY <3>1
  <2> QED
    BY <1>8, <2>1
<1>10. Max(S) \in S /\ \A s \in S : Max(S) >= s
  BY <1>9 DEF Max
<1>11. ASSUME NEW s \in S PROVE s <= Max(S)
  <2>1. s \in Int /\ Max(S) \in Int /\ Max(S) >= s
    BY <1>10
  <2> QED
    BY <2>1
<1> QED
  BY <1>10, <1>11

\* Extent is the bound it is meant to be.
LEMMA ExtentIs ==
    ASSUME NEW S, S \subseteq Int, S # {}, IsFiniteSet(S)
    PROVE  /\ Extent(S) \in Nat
           /\ \A s \in S : Abs(s) <= Extent(S) /\ -Extent(S) <= s /\ s <= Extent(S)
<1> DEFINE T == {Abs(s) : s \in S}
           f == [s \in S |-> Abs(s)]
<1>1. f \in Surjection(S, T)
  BY DEF Surjection
<1>2. IsFiniteSet(T)
  <2> HIDE DEF f, T
  <2> QED
    BY <1>1, FS_Surjection
<1>3. T \subseteq Int /\ T # {} /\ \A t \in T : t \in Nat
  <2>1. \A s \in S : Abs(s) \in Nat
    BY AbsIs
  <2>2. \A t \in T : t \in Nat
    BY <2>1
  <2>3. T # {}
    OBVIOUS
  <2> HIDE DEF T
  <2> QED
    BY <2>2, <2>3
<1>4. \A s \in S : Abs(s) \in T
  OBVIOUS
<1>5. Extent(S) = Max(T)
  BY DEF Extent
<1> HIDE DEF T
<1>6. Max(T) \in T /\ \A t \in T : t <= Max(T)
  BY <1>2, <1>3, MaxIs
<1>7. Extent(S) \in Nat
  BY <1>3, <1>5, <1>6
<1>8. ASSUME NEW s \in S
      PROVE  Abs(s) <= Extent(S) /\ -Extent(S) <= s /\ s <= Extent(S)
  <2>1. s \in Int /\ Extent(S) \in Int /\ Abs(s) <= Extent(S)
    BY <1>4, <1>5, <1>6, <1>7
  <2> QED
    BY <2>1, AbsIs
<1> QED
  BY <1>7, <1>8

\* R holds the values of f on the pairs of S and T.
Images(f, S, T, R) ==
    /\ f \in [S \X T -> Int]
    /\ \A s \in S, t \in T : f[<<s, t>>] \in R
    /\ \A r \in R : \E s \in S, t \in T : r = f[<<s, t>>]

\* The values of a function on the pairs of two finite sets.
LEMMA ImageIsFinite ==
    ASSUME NEW S, NEW T, IsFiniteSet(S), IsFiniteSet(T), S # {}, T # {},
           NEW f, NEW R, Images(f, S, T, R)
    PROVE  IsFiniteSet(R) /\ R \subseteq Int /\ R # {}
<1>1. IsFiniteSet(S \X T)
  BY FS_Product
<1>2. ASSUME NEW p \in S \X T PROVE f[p] \in R
  <2>1. PICK s \in S, t \in T : p = <<s, t>>
    OBVIOUS
  <2> QED
    BY <2>1 DEF Images
<1>3. f \in [S \X T -> R]
  BY <1>2 DEF Images
<1>4. ASSUME NEW r \in R PROVE (\E p \in S \X T : f[p] = r) /\ r \in Int
  <2>1. PICK s \in S, t \in T : r = f[<<s, t>>]
    BY DEF Images
  <2> QED
    BY <2>1 DEF Images
<1>5. f \in Surjection(S \X T, R)
  BY <1>3, <1>4 DEF Surjection
<1>6. IsFiniteSet(R)
  BY <1>1, <1>5, FS_Surjection
<1>7. PICK s \in S, t \in T : TRUE
  OBVIOUS
<1>8. R # {}
  BY <1>7 DEF Images
<1> QED
  BY <1>4, <1>6, <1>8

\* Products of what is bounded.
LEMMA ProductWithin ==
    ASSUME NEW a \in Nat, NEW b \in Nat, NEW x \in Int, NEW y \in Int,
           Within(x, a), Within(y, b)
    PROVE  Within(x * y, a * b)
<1>1. ASSUME NEW p \in Nat, NEW q \in Nat, p <= a, q <= b
      PROVE  p * q <= a * b /\ p * q \in Nat
  <2>1. p * q <= a * q
    BY <1>1
  <2>2. a * q <= a * b
    BY <1>1
  <2> QED
    BY <2>1, <2>2
<1>2. a * b \in Nat /\ x * y \in Int
  OBVIOUS
<1>3. CASE x >= 0 /\ y >= 0
  <2>1. x \in Nat /\ y \in Nat /\ x <= a /\ y <= b
    BY <1>3 DEF Within
  <2>2. x * y <= a * b /\ x * y \in Nat
    BY <1>1, <2>1
  <2> QED
    BY <1>2, <2>2 DEF Within
<1>4. CASE x >= 0 /\ y < 0
  <2> DEFINE q == -y
  <2>1. x \in Nat /\ q \in Nat /\ x <= a /\ q <= b
    BY <1>4 DEF Within
  <2>2. x * q <= a * b /\ x * q \in Nat
    BY <1>1, <2>1
  <2>3. x * y = -(x * q)
    OBVIOUS
  <2> HIDE DEF q
  <2> QED
    BY <1>2, <2>2, <2>3 DEF Within
<1>5. CASE x < 0 /\ y >= 0
  <2> DEFINE p == -x
  <2>1. p \in Nat /\ y \in Nat /\ p <= a /\ y <= b
    BY <1>5 DEF Within
  <2>2. p * y <= a * b /\ p * y \in Nat
    BY <1>1, <2>1
  <2>3. x * y = -(p * y)
    OBVIOUS
  <2> HIDE DEF p
  <2> QED
    BY <1>2, <2>2, <2>3 DEF Within
<1>6. CASE x < 0 /\ y < 0
  <2> DEFINE p == -x
             q == -y
  <2>1. p \in Nat /\ q \in Nat /\ p <= a /\ q <= b
    BY <1>6 DEF Within
  <2>2. p * q <= a * b /\ p * q \in Nat
    BY <1>1, <2>1
  <2>3. x * y = p * q
    OBVIOUS
  <2> HIDE DEF p, q
  <2> QED
    BY <1>2, <2>2, <2>3 DEF Within
<1> QED
  BY <1>3, <1>4, <1>5, <1>6

-----------------------------------------------------------------------------
(* The invariant.                                                          *)

\* What a Tracking tick leaves behind for the Auto tick after it: the change of
\* the derivative's input would be zero, and the integrator holds what the
\* command lacks of the terms that tick would add.
Preloaded ==
    resume.ok =>
      LET pd_next == Prop(resume.r, resume.y) + Decay(deriv)
      IN /\ first = FALSE
         /\ prev_x = C * resume.r - resume.y
         /\ integral = resume.u - pd_next - DI(resume.r, resume.y)
         /\ SatI(resume.u - pd_next) = resume.u - pd_next

IInv == TypeOK /\ Preloaded

Resumes == [ok : BOOLEAN, r : Int, y : Int, u : Int]
Ticks == [ok : BOOLEAN, pre : Int, unsat : Int]

LEMMA HistoryTypes ==
    /\ NoResume \in Resumes /\ ~NoResume.ok
    /\ NoTick \in Ticks /\ ~NoTick.ok
  BY DEF NoResume, NoTick, Resumes, Ticks

LEMMA InitInv == Init => IInv
<1>1. Init => TypeOK
  BY HistoryTypes DEF Init, TypeOK, Resumes, Ticks
<1>2. Init => Preloaded
  BY HistoryTypes DEF Init, Preloaded
<1> QED
  BY <1>1, <1>2 DEF IInv

LEMMA AutoInv ==
    ASSUME IInv, NEW r \in Refs, NEW y \in Meas, ControlAuto(r, y)
    PROVE  IInv'
<1> DEFINE pre   == SatI(integral + DI(r, y))
           unsat == Prop(r, y) + NextDeriv(r, y) + pre
<1>1. TypeOK /\ r \in Int /\ y \in Int
  BY GainsAssumption DEF IInv
<1>2. integral \in Int
  BY <1>1, GainsAssumption DEF TypeOK
<1>3. pre \in ILo .. IHi /\ pre \in Int
  <2>1. DI(r, y) \in Int
    BY <1>1, TermTypes
  <2>2. integral + DI(r, y) \in Int
    BY <1>2, <2>1
  <2>3. pre \in ILo .. IHi
    BY <2>2, SatType
  <2> QED
    BY <2>3, GainsAssumption
<1>4. unsat \in Int
  <2>1. Prop(r, y) \in Int /\ NextDeriv(r, y) \in Int
    BY <1>1, TermTypes, DerivType
  <2> HIDE DEF pre
  <2> QED
    BY <1>3, <2>1
<1>5. SatU(unsat) \in ULo .. UHi /\ SatU(unsat) \in Int
  BY <1>4, SatType, GainsAssumption
<1>6. /\ integral' = WoundBack(pre, SatU(unsat), unsat)
      /\ u_cmd' = SatU(unsat)
      /\ tick' = [ok |-> TRUE, pre |-> pre, unsat |-> unsat]
  BY DEF ControlAuto
<1> HIDE DEF pre, unsat
<1>7. integral' \in (ILo .. IHi) \cup {0} /\ u_cmd' \in (ULo .. UHi) \cup {0}
  BY <1>3, <1>4, <1>5, <1>6, WoundBackType
<1>8. prev_x' \in Int /\ deriv' \in Int /\ first' \in BOOLEAN
  BY <1>1, TermTypes, DerivType DEF ControlAuto, Differentiate
<1>9. tick' \in Ticks /\ resume' \in Resumes /\ ~resume'.ok
  BY <1>3, <1>4, <1>6, HistoryTypes DEF ControlAuto, Ticks
<1>10. TypeOK'
  BY <1>1, <1>7, <1>8, <1>9 DEF ControlAuto, TypeOK, Resumes, Ticks
<1>11. Preloaded'
  BY <1>9 DEF Preloaded
<1> QED
  BY <1>10, <1>11 DEF IInv

\* Following u loads the integrator for the next Auto tick.
LEMMA FollowInv ==
    ASSUME IInv, NEW r \in Int, NEW y \in Int, NEW u \in Int, Follow(r, y, u),
           runtime_mode' \in {"Auto", "Tracking"}, u_track' \in Int
    PROVE  IInv'
<1> DEFINE pd_next == Prop(r, y) + Decay(NextDeriv(r, y))
           preload == u - pd_next - DI(r, y)
           fits == SatI(preload) = preload /\ SatI(u - pd_next) = u - pd_next
<1>1. TypeOK
  BY DEF IInv
<1>2. pd_next \in Int /\ preload \in Int
  <2>1. /\ Prop(r, y) \in Int /\ DI(r, y) \in Int
        /\ Decay(NextDeriv(r, y)) \in Int
    BY <1>1, TermTypes, DerivType
  <2> QED
    BY <2>1
<1>3. /\ integral' = SatI(preload)
      /\ u_cmd' = SatU(u)
      /\ resume' = [ok |-> fits, r |-> r, y |-> y, u |-> u]
      /\ tick' = NoTick
      /\ charged' = FALSE
  BY DEF Follow
<1>4. deriv' = NextDeriv(r, y) /\ prev_x' = C * r - y /\ first' = FALSE
  BY DEF Follow, Differentiate
<1>5. integral' \in ILo .. IHi /\ u_cmd' \in ULo .. UHi
  BY <1>2, <1>3, SatType
<1>6. prev_x' \in Int /\ deriv' \in Int
  BY <1>1, <1>4, TermTypes, DerivType
<1>7. resume' \in Resumes
  BY <1>3 DEF Resumes
<1>8. TypeOK'
  BY <1>3, <1>4, <1>5, <1>6, <1>7, HistoryTypes DEF TypeOK, Resumes, Ticks
<1>9. ASSUME resume'.ok
      PROVE  /\ integral' = u - (Prop(r, y) + Decay(deriv')) - DI(r, y)
             /\ SatI(u - (Prop(r, y) + Decay(deriv')))
                  = u - (Prop(r, y) + Decay(deriv'))
  BY <1>3, <1>4, <1>9
<1>10. Preloaded'
  BY <1>3, <1>4, <1>9 DEF Preloaded, Prop, DI, Decay
<1> QED
  BY <1>8, <1>10 DEF IInv

LEMMA BackCalculateInv ==
    ASSUME IInv, NEW u_ff \in Forwards, BackCalculate(u_ff)
    PROVE  IInv'
<1>1. TypeOK /\ Preloaded
  BY DEF IInv
<1>2. u_cmd + u_ff \in Int
  BY <1>1, GainsAssumption DEF TypeOK
<1>3. Clamp(u_cmd + u_ff, PLo, PHi) \in Int
  BY <1>2, ClampType, GainsAssumption
<1>4. integral' \in (ILo .. IHi) \cup {0}
  BY <1>1, <1>2, <1>3, WoundBackType DEF BackCalculate, TypeOK
<1>5. /\ resume' \in Resumes
      /\ resume'.ok => resume' = resume /\ integral' = integral
  BY <1>1, HistoryTypes DEF BackCalculate, TypeOK, Resumes
<1>6. TypeOK'
  BY <1>1, <1>4, <1>5 DEF BackCalculate, TypeOK, Resumes
<1>7. Preloaded'
  BY <1>1, <1>5 DEF BackCalculate, Preloaded, Prop, DI, Decay
<1> QED
  BY <1>6, <1>7 DEF IInv

LEMMA NextInv == IInv /\ [Next]_vars => IInv'
<1> SUFFICES ASSUME IInv, [Next]_vars PROVE IInv'
  OBVIOUS
<1>1. TypeOK /\ Preloaded
  BY DEF IInv
<1>2. ASSUME NEW r \in Refs, NEW y \in Meas, ControlAuto(r, y) PROVE IInv'
  BY <1>2, AutoInv
<1>3. ASSUME NEW r \in Refs, NEW y \in Meas, ControlTracking(r, y) PROVE IInv'
  <2>1. r \in Int /\ y \in Int /\ u_track \in Int
    BY <1>1, GainsAssumption DEF TypeOK
  <2>2. /\ Follow(r, y, u_track)
        /\ runtime_mode' \in {"Auto", "Tracking"} /\ u_track' \in Int
    BY <1>1, <1>3 DEF ControlTracking, TypeOK
  <2> QED
    BY <2>1, <2>2, FollowInv
<1>4. ASSUME NEW u \in Tracks, NEW y \in Meas, Track(u, y) PROVE IInv'
  <2>1. y \in Int /\ u \in Int
    BY GainsAssumption
  <2>2. /\ Follow(y, y, u)
        /\ runtime_mode' \in {"Auto", "Tracking"} /\ u_track' \in Int
    BY <1>4, <2>1 DEF Track
  <2> QED
    BY <2>1, <2>2, FollowInv
<1>5. ASSUME NEW u_ff \in Forwards, BackCalculate(u_ff) PROVE IInv'
  BY <1>5, BackCalculateInv
<1>6. ASSUME NEW u \in Tracks, Disable(u) PROVE IInv'
  <2>1. TypeOK'
    BY <1>1, <1>6, GainsAssumption DEF Disable, TypeOK
  <2>2. Preloaded'
    BY <1>1, <1>6 DEF Disable, Preloaded, Prop, DI, Decay
  <2> QED
    BY <2>1, <2>2 DEF IInv
<1>7. CASE Enable
  <2>1. TypeOK'
    BY <1>1, <1>7 DEF Enable, TypeOK
  <2>2. Preloaded'
    BY <1>1, <1>7 DEF Enable, Preloaded, Prop, DI, Decay
  <2> QED
    BY <2>1, <2>2 DEF IInv
<1>8. CASE Reset
  <2>1. TypeOK'
    BY <1>1, <1>8, HistoryTypes DEF Reset, TypeOK, Resumes, Ticks
  <2>2. Preloaded'
    BY <1>8, HistoryTypes DEF Reset, Preloaded
  <2> QED
    BY <2>1, <2>2 DEF IInv
<1>9. CASE UNCHANGED vars
  <2>1. TypeOK'
    BY <1>1, <1>9 DEF vars, pid, TypeOK
  <2>2. Preloaded'
    BY <1>1, <1>9 DEF vars, pid, Preloaded, Prop, DI, Decay
  <2> QED
    BY <2>1, <2>2 DEF IInv
<1> QED
  BY <1>2, <1>3, <1>4, <1>5, <1>6, <1>7, <1>8, <1>9 DEF Next

-----------------------------------------------------------------------------
(* The theorems.                                                           *)

LEMMA InductiveInvariant == Spec => []IInv
  BY InitInv, NextInv, PTL DEF Spec

\* The integral term and the last command stay in their limits, whatever the
\* gains and in whatever order the calls come.
THEOREM TypeCorrect == Spec => []TypeOK
<1>1. IInv => TypeOK
  BY DEF IInv
<1> QED
  BY <1>1, InductiveInvariant, PTL

\* The tick an Auto controller resumes with, at the reference and measurement
\* it was loaded for, emits the command it was following.
LEMMA ResumeEmits ==
    ASSUME IInv, resume.ok, ControlAuto(resume.r, resume.y)
    PROVE  u_cmd' = SatU(resume.u)
<1> DEFINE r == resume.r
           y == resume.y
           pd_next == Prop(r, y) + Decay(deriv)
<1>1. TypeOK /\ r \in Int /\ y \in Int /\ resume.u \in Int
  BY DEF IInv, TypeOK
<1>2. /\ first = FALSE
      /\ prev_x = C * r - y
      /\ integral = resume.u - pd_next - DI(r, y)
      /\ SatI(resume.u - pd_next) = resume.u - pd_next
  BY DEF IInv, Preloaded
<1>3. /\ Prop(r, y) \in Int /\ DI(r, y) \in Int /\ C * r - y \in Int
      /\ Decay(deriv) \in Int
  BY <1>1, TermTypes, DecayType DEF TypeOK
<1>4. NextDeriv(r, y) = Decay(deriv)
  <2>1. Delta(C * r - y) = 0
    BY <1>2, <1>3 DEF Delta
  <2>2. Db * Delta(C * r - y) = 0
    BY <2>1, GainsAssumption
  <2> QED
    BY <1>3, <2>2 DEF NextDeriv
<1>5. integral + DI(r, y) = resume.u - pd_next
  BY <1>1, <1>2, <1>3
<1>6. Prop(r, y) + NextDeriv(r, y) + SatI(integral + DI(r, y)) = resume.u
  BY <1>1, <1>2, <1>3, <1>4, <1>5
<1>7. u_cmd' = SatU(Prop(r, y) + NextDeriv(r, y) + SatI(integral + DI(r, y)))
  BY DEF ControlAuto
<1> QED
  BY <1>6, <1>7

\* Handing over from Tracking to Auto is bumpless, for every gain, weight,
\* limit and rounding of the derivative pole.
THEOREM HandoverIsBumpless == Spec => Bumpless
<1>1. IInv /\ [Next]_vars =>
        [resume.ok /\ ControlAuto(resume.r, resume.y)
           => u_cmd' = SatU(resume.u)]_vars
  BY ResumeEmits
<1> QED
  BY <1>1, InductiveInvariant, PTL DEF Spec, Bumpless

-----------------------------------------------------------------------------
(* A windup is charged once.                                               *)

LEMMA Division ==
    ASSUME NEW n \in Int, NEW den \in Nat \ {0}
    PROVE  /\ n \div den \in Int
           /\ den * (n \div den) <= n /\ n < den * (n \div den) + den
OBVIOUS

LEMMA Distributes ==
    ASSUME NEW k \in Int, NEW a \in Int, NEW b \in Int
    PROVE  k * (a + b) = k * a + k * b /\ k * (-a) = -(k * a)
OBVIOUS

LEMMA BothBelow ==
    ASSUME NEW k \in Nat, NEW p \in Int, NEW q \in Int, p < k, q < k
    PROVE  p + q < 2 * k
OBVIOUS

LEMMA BothAbove ==
    ASSUME NEW k \in Nat, NEW p \in Int, NEW q \in Int, -k < p, -k < q
    PROVE  -2 * k < p + q
OBVIOUS

LEMMA TwoRoundings ==
    ASSUME NEW k \in Nat, NEW a \in Int, NEW b \in Int, NEW c \in Int, NEW d \in Int,
           -k < a - c, a - c < k, -k < b - d, b - d < k
    PROVE  -2 * k < (a + b) - (c + d) /\ (a + b) - (c + d) < 2 * k
<1>1. (a + b) - (c + d) = (a - c) + (b - d)
  OBVIOUS
<1>2. a - c \in Int /\ b - d \in Int
  OBVIOUS
<1> QED
  BY <1>1, <1>2, BothBelow, BothAbove

\* A product with a fractional gain is off by less than one.
LEMMA RoundsOnce ==
    ASSUME NEW num \in Nat, NEW den \in Nat \ {0}, NEW x \in Int
    PROVE  LET err == den * Scaled(num, den, x) - num * x
           IN -den < err /\ err < den
<1> DEFINE s == Scaled(num, den, x)
<1>1. num * x \in Int /\ num * (-x) = -(num * x)
  OBVIOUS
<1>2. CASE x >= 0
  <2>1. s = (num * x) \div den
    BY <1>2 DEF Scaled
  <2> QED
    BY <1>1, <2>1, Division
<1>3. CASE ~(x >= 0)
  <2> DEFINE q == (-(num * x)) \div den
  <2>1. s = -q
    BY <1>1, <1>3 DEF Scaled
  <2>2. q \in Int /\ den * q <= -(num * x) /\ -(num * x) < den * q + den
    BY <1>1, Division
  <2>3. den * (-q) = -(den * q) /\ den * q \in Int
    BY <2>2, Distributes
  <2> HIDE DEF q
  <2>4. -den < -(den * q) - num * x /\ -(den * q) - num * x < den
    BY <1>1, <2>2, <2>3
  <2> QED
    BY <2>1, <2>3, <2>4
<1> QED
  BY <1>2, <1>3

\* Between an Auto tick and the call of back_calculate() that follows it, whatever
\* enable() and disable() come between, the command is that of the tick and the
\* integral its own, wound back for the controller's saturation and nothing else.
Uncharged ==
    tick.ok /\ ~charged =>
        /\ u_cmd = SatU(tick.unsat)
        /\ integral = WoundBack(tick.pre, u_cmd, tick.unsat)

LEMMA UnchargedStarts == Init => Uncharged
  BY DEF Init, Uncharged

LEMMA UnchargedInv == Uncharged /\ [Next]_vars => Uncharged'
<1> SUFFICES ASSUME Uncharged, [Next]_vars PROVE Uncharged'
  OBVIOUS
<1>1. ASSUME NEW r \in Refs, NEW y \in Meas, ControlAuto(r, y) PROVE Uncharged'
  BY <1>1 DEF ControlAuto, Uncharged, SatU, WoundBack, SatI
<1>2. ASSUME NEW r, NEW y, NEW u, Follow(r, y, u) PROVE Uncharged'
  BY <1>2, HistoryTypes DEF Follow, Uncharged
<1>3. ASSUME NEW u_ff \in Forwards, BackCalculate(u_ff) PROVE Uncharged'
  BY <1>3 DEF BackCalculate, Uncharged
<1>4. ASSUME NEW u \in Tracks, Disable(u) PROVE Uncharged'
  BY <1>4 DEF Disable, Uncharged, WoundBack, SatU, SatI
<1>5. CASE Enable
  BY <1>5 DEF Enable, Uncharged, WoundBack, SatU, SatI
<1>6. CASE Reset
  BY <1>6, HistoryTypes DEF Reset, Uncharged
<1>7. CASE UNCHANGED vars
  BY <1>7 DEF vars, pid, Uncharged, WoundBack, SatU, SatI
<1> QED
  BY <1>1, <1>2, <1>3, <1>4, <1>5, <1>6, <1>7 DEF Next, ControlTracking, Track

\* A wind-back that its limits do not cut short is the scaled difference, off by less
\* than one rounding.
LEMMA WindsBackBy ==
    ASSUME NEW i \in Int, NEW u_sat \in Int, NEW u_unsat \in Int,
           ILo < WoundBack(i, u_sat, u_unsat), WoundBack(i, u_sat, u_unsat) < IHi
    PROVE  LET err == KwDen * (WoundBack(i, u_sat, u_unsat) - i) - KwNum * (u_sat - u_unsat)
           IN -KwDen < err /\ err < KwDen
<1> DEFINE s == Scaled(KwNum, KwDen, u_sat - u_unsat)
           w == WoundBack(i, u_sat, u_unsat)
<1>1. KwNum \in Nat /\ KwDen \in Nat \ {0} /\ ILo \in Int /\ IHi \in Int
  BY GainsAssumption
<1>2. CASE KwNum = 0 \/ u_sat = u_unsat
  <2>1. w = i
    BY <1>2 DEF WoundBack
  <2>2. KwNum * (u_sat - u_unsat) = 0 /\ KwDen * (w - i) = 0
    BY <1>1, <1>2, <2>1
  <2> QED
    BY <1>1, <2>2
<1>3. CASE ~(KwNum = 0 \/ u_sat = u_unsat)
  <2>1. s \in Int
    BY <1>1, ScaledType
  <2>2. w = SatI(i + s)
    BY <1>3 DEF WoundBack
  <2>3. w = i + s
    <3> HIDE DEF s
    <3> QED
      BY <1>1, <2>1, <2>2 DEF SatI, Clamp
  <2>4. -KwDen < KwDen * s - KwNum * (u_sat - u_unsat)
        /\ KwDen * s - KwNum * (u_sat - u_unsat) < KwDen
    BY <1>1, RoundsOnce
  <2>5. w - i = s
    BY <2>1, <2>3
  <2> QED
    BY <2>4, <2>5
<1> QED
  BY <1>2, <1>3

\* The two wind-backs of one windup add up to the whole difference between what the
\* plant got and what the law wanted.
LEMMA ChargesTheDifference ==
    ASSUME IInv, Uncharged, NEW u_ff \in Forwards, tick.ok, BackCalculate(u_ff),
           ILo < integral, integral < IHi, ILo < integral', integral' < IHi
    PROVE  LET total == Clamp(u_cmd + u_ff, PLo, PHi) - (tick.unsat + u_ff)
               err   == KwDen * (integral' - tick.pre) - KwNum * total
           IN -2 * KwDen < err /\ err < 2 * KwDen
<1> DEFINE u_sat == Clamp(u_cmd + u_ff, PLo, PHi)
           own   == u_cmd - tick.unsat
           down  == u_sat - (u_cmd + u_ff)
           total == u_sat - (tick.unsat + u_ff)
<1>1. /\ KwNum \in Int /\ KwDen \in Nat \ {0} /\ u_ff \in Int
      /\ ULo \in Int /\ UHi \in Int /\ ILo \in Int /\ IHi \in Int
      /\ PLo \in Int /\ PHi \in Int
  BY GainsAssumption
<1>2. u_cmd \in Int /\ integral \in Int /\ tick.pre \in Int /\ tick.unsat \in Int
  BY <1>1 DEF IInv, TypeOK
<1>3. u_sat \in Int
  BY <1>1, <1>2 DEF Clamp
<1>4. ~charged /\ integral' = WoundBack(integral, u_sat, u_cmd + u_ff)
  BY DEF BackCalculate
<1>5. integral = WoundBack(tick.pre, u_cmd, tick.unsat)
  BY <1>4 DEF Uncharged
<1> HIDE DEF u_sat
<1>6. /\ -KwDen < KwDen * (integral - tick.pre) - KwNum * own
      /\ KwDen * (integral - tick.pre) - KwNum * own < KwDen
  BY <1>2, <1>5, WindsBackBy
<1>7. /\ -KwDen < KwDen * (integral' - integral) - KwNum * down
      /\ KwDen * (integral' - integral) - KwNum * down < KwDen
  <2>1. u_cmd + u_ff \in Int
    BY <1>1, <1>2
  <2> QED
    BY <1>2, <1>3, <1>4, <2>1, WindsBackBy
<1>8. integral' \in Int
  <2>1. IInv'
    BY NextInv, <1>1 DEF Next
  <2> QED
    BY <2>1, <1>1 DEF IInv, TypeOK
<1>9. KwNum * total = KwNum * own + KwNum * down
  <2>1. own \in Int /\ down \in Int /\ total = own + down
    BY <1>1, <1>2, <1>3
  <2> HIDE DEF own, down, total
  <2> QED
    BY <1>1, <2>1, Distributes
<1>10. KwDen * (integral' - tick.pre)
        = KwDen * (integral - tick.pre) + KwDen * (integral' - integral)
  <2> DEFINE a == integral - tick.pre  b == integral' - integral
  <2>1. a \in Int /\ b \in Int /\ integral' - tick.pre = a + b
    BY <1>2, <1>8
  <2>2. KwDen * (a + b) = KwDen * a + KwDen * b
    <3> HIDE DEF a, b
    <3> QED
      BY <1>1, <2>1, Distributes
  <2> QED
    BY <2>1, <2>2
<1>11. /\ KwNum * own \in Int /\ KwNum * down \in Int
       /\ KwDen * (integral - tick.pre) \in Int /\ KwDen * (integral' - integral) \in Int
  BY <1>1, <1>2, <1>3, <1>8
<1> QED
  <2> DEFINE a == KwDen * (integral - tick.pre)  b == KwDen * (integral' - integral)
             c == KwNum * own                    d == KwNum * down
  <2>1. a \in Int /\ b \in Int /\ c \in Int /\ d \in Int
    BY <1>11
  <2>2. -KwDen < a - c /\ a - c < KwDen /\ -KwDen < b - d /\ b - d < KwDen
    BY <1>6, <1>7
  <2>3. KwDen * (integral' - tick.pre) - KwNum * total = (a + b) - (c + d)
    BY <1>9, <1>10
  <2> HIDE DEF a, b, c, d, total
  <2>4. -2 * KwDen < (a + b) - (c + d) /\ (a + b) - (c + d) < 2 * KwDen
    BY <1>1, <2>1, <2>2, TwoRoundings
  <2> QED
    BY <2>3, <2>4 DEF total, u_sat

\* Two saturations in series charge a windup once, for every gain, ratio and limit.
THEOREM WindupIsChargedOnce == Spec => ChargedOnce
<1> DEFINE Charges ==
      \A u_ff \in Forwards :
         /\ tick.ok
         /\ BackCalculate(u_ff)
         /\ ILo < integral /\ integral < IHi
         /\ ILo < integral' /\ integral' < IHi
         => LET total == Clamp(u_cmd + u_ff, PLo, PHi) - (tick.unsat + u_ff)
                err   == KwDen * (integral' - tick.pre) - KwNum * total
            IN -2 * KwDen < err /\ err < 2 * KwDen
<1>1. Spec => []Uncharged
  BY UnchargedStarts, UnchargedInv, PTL DEF Spec
<1>2. IInv /\ Uncharged => Charges
  BY ChargesTheDifference
<1>3. IInv /\ Uncharged /\ [Next]_vars => [Charges]_vars
  BY <1>2
<1> QED
  BY <1>1, <1>3, InductiveInvariant, PTL DEF Spec, ChargedOnce

-----------------------------------------------------------------------------
(* The integrator of the PID is bounded.                                   *)

\* Finitely many references, measurements and commands; limits around 0; and a wind-back
\* that takes something, but no more than the windup it answers (Kbc is not below Ki).
Windable ==
    /\ 0 < KwNum /\ KwNum <= KwDen
    /\ ILo <= 0 /\ 0 <= IHi /\ ULo <= 0 /\ 0 <= UHi /\ PLo <= 0 /\ 0 <= PHi
    /\ IsFiniteSet(Refs) /\ IsFiniteSet(Meas) /\ Meas # {}
    /\ IsFiniteSet(Tracks) /\ IsFiniteSet(Forwards) /\ Forwards # {}

\* What a difference t between two commands takes from the integral.
Back(t) == Scaled(KwNum, KwDen, t)

\* The difference from which on that is more than one increment.
Reach == ((MaxDI + 1) * KwDen) \div KwNum

\* Rounding a positive fraction of at most 1 down.
LEMMA FractionIs ==
    ASSUME NEW k \in Nat, NEW n \in Nat, 0 < k, k <= n, NEW a \in Nat, NEW b \in Nat
    PROVE  LET s(t) == (k * t) \div n
           IN /\ s(a) \in Nat /\ s(a) <= a
              /\ s(a) + s(b) <= s(a + b) /\ s(a + b) <= s(a) + b
<1> DEFINE p == k * a
           q == k * b
           r == k * (a + b)
           x == p \div n
           y == q \div n
           z == r \div n
<1>1. p \in Nat /\ q \in Nat /\ r = p + q /\ n \in Nat \ {0} /\ p <= a * n /\ q <= b * n
  OBVIOUS
<1>2. /\ x \in Int /\ x * n <= p /\ p < x * n + n
      /\ y \in Int /\ y * n <= q /\ q < y * n + n
      /\ z \in Int /\ z * n <= r /\ r < z * n + n
  <2> HIDE DEF p, q, r
  <2> QED
    BY <1>1, Quotient
<1> HIDE DEF p, q, r, x, y, z
<1>3. ASSUME NEW i \in Int, NEW j \in Int, NEW v \in Int, i * n <= v, v < j * n + n PROVE i <= j
  <2> SUFFICES ASSUME j < i PROVE FALSE
    OBVIOUS
  <2>1. j * n \in Int /\ i * n \in Int /\ j * n + n <= i * n
    BY <1>1, Spaced
  <2> QED
    BY <1>3, <2>1
<1>4. 0 <= x
  <2>1. 0 * n <= p
    BY <1>1
  <2> QED
    BY <1>1, <1>2, <1>3, <2>1
<1>5. x <= a
  <2>1. p < a * n + n
    BY <1>1
  <2>2. x * n <= p
    BY <1>2
  <2>3. p \in Int /\ x \in Int /\ a \in Int
    BY <1>1, <1>2
  <2> QED
    BY <1>3, <2>1, <2>2, <2>3
<1>6. x + y <= z
  <2>1. (x + y) * n = x * n + y * n /\ x * n \in Int /\ y * n \in Int
    BY <1>2
  <2>2. (x + y) * n <= r /\ r \in Int /\ x + y \in Int
    BY <1>1, <1>2, <2>1
  <2>3. r < z * n + n /\ z \in Int
    BY <1>2
  <2> QED
    BY <1>3, <2>2, <2>3
<1>7. z <= x + b
  <2>1. (x + b) * n = x * n + b * n /\ x * n \in Int /\ b * n \in Int
    BY <1>2
  <2>2. r < (x + b) * n + n /\ r \in Int /\ x + b \in Int
    BY <1>1, <1>2, <2>1
  <2>3. z * n <= r /\ z \in Int
    BY <1>2
  <2> QED
    BY <1>3, <2>2, <2>3
<1>8. x = (k * a) \div n /\ y = (k * b) \div n /\ z = (k * (a + b)) \div n
  BY DEF x, y, z, p, q, r
<1> QED
  BY <1>2, <1>4, <1>5, <1>6, <1>7, <1>8

\* From Reach on it is.
LEMMA FractionReaches ==
    ASSUME NEW k \in Nat, NEW n \in Nat, 0 < k, k <= n, NEW d \in Nat, NEW a \in Nat,
           a > (d * n) \div k
    PROVE  (k * a) \div n >= d
<1> DEFINE v == d * n
           q == v \div k
           p == k * a
           x == p \div n
<1>1. v \in Nat /\ p \in Nat
  OBVIOUS
<1>2. /\ q \in Int /\ q * k <= v /\ v < q * k + k
      /\ x \in Int /\ x * n <= p /\ p < x * n + n
  <2> HIDE DEF v, p
  <2> QED
    BY <1>1, Quotient
<1>3. a > q
  OBVIOUS
<1> HIDE DEF q, x
<1>4. q * k + k <= a * k /\ a * k = p
  BY <1>2, <1>3, Spaced
<1> HIDE DEF p
<1>5. v < p
  BY <1>1, <1>2, <1>4
<1>6. ~(x < d)
  <2> SUFFICES ASSUME x < d PROVE FALSE
    OBVIOUS
  <2>1. x * n \in Int /\ x * n + n <= d * n
    BY <1>2, Spaced
  <2>2. x * n + n <= v
    BY <2>1 DEF v
  <2> HIDE DEF v
  <2> QED
    BY <1>1, <1>2, <1>5, <2>1, <2>2
<1>7. x >= d
  BY <1>2, <1>6
<1> QED
  BY <1>7 DEF x, p

\* The bounds are numbers, and bound what they should.
LEMMA WindableExtents ==
    ASSUME Windable
    PROVE  /\ MaxCommand \in Nat /\ Extent(Forwards) \in Nat
           /\ \A u \in {ULo, UHi, PLo, PHi} \cup Tracks : Within(u, MaxCommand)
           /\ \A f \in Forwards : Within(f, Extent(Forwards))
<1> DEFINE U == {ULo, UHi, PLo, PHi} \cup Tracks
<1>1. U \subseteq Int /\ U # {}
  BY GainsAssumption
<1>2. IsFiniteSet(U)
  <2> DEFINE E == {}
  <2>1. IsFiniteSet(E)
    BY FS_EmptySet
  <2>2. IsFiniteSet(E \cup {ULo})
    BY <2>1, FS_AddElement
  <2>3. IsFiniteSet((E \cup {ULo}) \cup {UHi})
    BY <2>2, FS_AddElement
  <2>4. IsFiniteSet(((E \cup {ULo}) \cup {UHi}) \cup {PLo})
    BY <2>3, FS_AddElement
  <2>5. IsFiniteSet((((E \cup {ULo}) \cup {UHi}) \cup {PLo}) \cup {PHi})
    BY <2>4, FS_AddElement
  <2>6. IsFiniteSet(((((E \cup {ULo}) \cup {UHi}) \cup {PLo}) \cup {PHi}) \cup Tracks)
    BY <2>5, FS_Union DEF Windable
  <2>7. U = ((((E \cup {ULo}) \cup {UHi}) \cup {PLo}) \cup {PHi}) \cup Tracks
    OBVIOUS
  <2> QED
    BY <2>6, <2>7
<1>3. MaxCommand = Extent(U)
  BY DEF MaxCommand
<1> HIDE DEF U
<1>4. Extent(U) \in Nat /\ \A u \in U : Within(u, Extent(U))
  BY <1>1, <1>2, ExtentIs DEF Within
<1>5. Forwards \subseteq Int /\ Forwards # {} /\ IsFiniteSet(Forwards)
  BY GainsAssumption DEF Windable
<1>6. Extent(Forwards) \in Nat /\ \A f \in Forwards : Within(f, Extent(Forwards))
  BY <1>5, ExtentIs DEF Within
<1> QED
  BY <1>3, <1>4, <1>6 DEF U

LEMMA TermsWithin ==
    ASSUME Windable
    PROVE  /\ MaxProp \in Nat /\ MaxDI \in Nat
           /\ \A r \in Setpoints, y \in Meas :
                Within(Prop(r, y), MaxProp) /\ Within(DI(r, y), MaxDI)
<1>1. /\ Setpoints \subseteq Int /\ Meas \subseteq Int
      /\ Setpoints # {} /\ Meas # {} /\ IsFiniteSet(Setpoints) /\ IsFiniteSet(Meas)
  BY GainsAssumption, FS_Union DEF Windable, Setpoints
<1>2. MaxProp \in Nat /\ \A r \in Setpoints, y \in Meas : Within(Prop(r, y), MaxProp)
  <2> DEFINE R == {Prop(r, y) : r \in Setpoints, y \in Meas}
             f == [p \in Setpoints \X Meas |-> Prop(p[1], p[2])]
  <2>1. \A r \in Setpoints, y \in Meas : Prop(r, y) \in Int
    BY <1>1, TermTypes
  <2>2. f \in [Setpoints \X Meas -> Int]
    BY <2>1
  <2>3. \A r \in Setpoints, y \in Meas : f[<<r, y>>] = Prop(r, y) /\ Prop(r, y) \in R
    OBVIOUS
  <2>5. \A v \in R : \E r \in Setpoints, y \in Meas : v = f[<<r, y>>]
    BY <2>3
  <2>6. MaxProp = Extent(R)
    BY DEF MaxProp
  <2> HIDE DEF R, f
  <2>4. Images(f, Setpoints, Meas, R)
    BY <2>2, <2>3, <2>5 DEF Images
  <2>7. IsFiniteSet(R) /\ R \subseteq Int /\ R # {}
    BY <1>1, <2>4, ImageIsFinite
  <2>8. Extent(R) \in Nat /\ \A v \in R : Within(v, Extent(R))
    BY <2>7, ExtentIs DEF Within
  <2> QED
    BY <2>3, <2>6, <2>8
<1>3. MaxDI \in Nat /\ \A r \in Setpoints, y \in Meas : Within(DI(r, y), MaxDI)
  <2> DEFINE R == {DI(r, y) : r \in Setpoints, y \in Meas}
             f == [p \in Setpoints \X Meas |-> DI(p[1], p[2])]
  <2>1. \A r \in Setpoints, y \in Meas : DI(r, y) \in Int
    BY <1>1, TermTypes
  <2>2. f \in [Setpoints \X Meas -> Int]
    BY <2>1
  <2>3. \A r \in Setpoints, y \in Meas : f[<<r, y>>] = DI(r, y) /\ DI(r, y) \in R
    OBVIOUS
  <2>5. \A v \in R : \E r \in Setpoints, y \in Meas : v = f[<<r, y>>]
    BY <2>3
  <2>6. MaxDI = Extent(R)
    BY DEF MaxDI
  <2> HIDE DEF R, f
  <2>4. Images(f, Setpoints, Meas, R)
    BY <2>2, <2>3, <2>5 DEF Images
  <2>7. IsFiniteSet(R) /\ R \subseteq Int /\ R # {}
    BY <1>1, <2>4, ImageIsFinite
  <2>8. Extent(R) \in Nat /\ \A v \in R : Within(v, Extent(R))
    BY <2>7, ExtentIs DEF Within
  <2> QED
    BY <2>3, <2>6, <2>8
<1> QED
  BY <1>2, <1>3

LEMMA MovesWithin ==
    ASSUME Windable
    PROVE  /\ MaxMove \in Nat
           /\ \A r, s \in Setpoints, y, z \in Meas :
                Within((C * r - y) - (C * s - z), MaxMove)
<1>1. /\ Setpoints \subseteq Int /\ Meas \subseteq Int
      /\ Setpoints # {} /\ Meas # {} /\ IsFiniteSet(Setpoints) /\ IsFiniteSet(Meas)
  BY GainsAssumption, FS_Union DEF Windable, Setpoints
<1> DEFINE S == Setpoints \X Setpoints
           T == Meas \X Meas
           R == {(C * r - y) - (C * s - z) : r, s \in Setpoints, y, z \in Meas}
           Move(r, s, y, z) == (C * r - y) - (C * s - z)
           f == [p \in S \X T |-> Move(p[1][1], p[1][2], p[2][1], p[2][2])]
<1>2. \A r, s \in Setpoints, y, z \in Meas : Move(r, s, y, z) \in Int
  <2>1. \A r \in Setpoints, y \in Meas : C * r - y \in Int
    BY <1>1, TermTypes
  <2> QED
    BY <2>1
<1>3. \A v \in R : \E r, s \in Setpoints, y, z \in Meas : v = Move(r, s, y, z)
  OBVIOUS
<1>4. \A r, s \in Setpoints, y, z \in Meas : Move(r, s, y, z) \in R
  OBVIOUS
<1>5. MaxMove = Extent(R)
  BY DEF MaxMove
<1> HIDE DEF R, Move
<1>6. /\ IsFiniteSet(S) /\ IsFiniteSet(T) /\ S # {} /\ T # {}
      /\ \A p \in S : p[1] \in Setpoints /\ p[2] \in Setpoints /\ p = <<p[1], p[2]>>
      /\ \A q \in T : q[1] \in Meas /\ q[2] \in Meas /\ q = <<q[1], q[2]>>
      /\ \A r, s \in Setpoints : <<r, s>> \in S
      /\ \A y, z \in Meas : <<y, z>> \in T
  <2>1. IsFiniteSet(S) /\ IsFiniteSet(T)
    BY <1>1, FS_Product
  <2>2. PICK r \in Setpoints, y \in Meas : TRUE
    BY <1>1
  <2>3. <<r, r>> \in S /\ <<y, y>> \in T
    OBVIOUS
  <2> QED
    BY <2>1, <2>3
<1>7. \A p \in S, q \in T : f[<<p, q>>] = Move(p[1], p[2], q[1], q[2])
  OBVIOUS
<1>8. f \in [S \X T -> Int]
  <2>1. ASSUME NEW p \in S \X T PROVE Move(p[1][1], p[1][2], p[2][1], p[2][2]) \in Int
    BY <1>2, <1>6
  <2> QED
    BY <2>1
<1> HIDE DEF S, T, f
<1>9. ASSUME NEW p \in S, NEW q \in T PROVE f[<<p, q>>] \in R
  <2>1. p[1] \in Setpoints /\ p[2] \in Setpoints /\ q[1] \in Meas /\ q[2] \in Meas
    BY <1>6
  <2>2. Move(p[1], p[2], q[1], q[2]) \in R
    BY <1>4, <2>1
  <2> QED
    BY <1>7, <2>2
<1>10. ASSUME NEW v \in R PROVE \E p \in S, q \in T : v = f[<<p, q>>]
  <2>1. PICK r \in Setpoints, s \in Setpoints, y \in Meas, z \in Meas : v = Move(r, s, y, z)
    BY <1>3
  <2>2. <<r, s>> \in S /\ <<y, z>> \in T
    BY <1>6
  <2>3. f[<<<<r, s>>, <<y, z>>>>] = Move(r, s, y, z)
    BY <1>7, <2>2
  <2> QED
    BY <2>1, <2>2, <2>3
<1>11. IsFiniteSet(R) /\ R \subseteq Int /\ R # {}
  <2>1. Images(f, S, T, R)
    BY <1>8, <1>9, <1>10 DEF Images
  <2> QED
    BY <1>6, <2>1, ImageIsFinite
<1>12. Extent(R) \in Nat /\ \A v \in R : Within(v, Extent(R))
  BY <1>11, ExtentIs DEF Within
<1>13. \A r, s \in Setpoints, y, z \in Meas : Within(Move(r, s, y, z), MaxMove)
  BY <1>4, <1>5, <1>12
<1> QED
  BY <1>5, <1>12, <1>13 DEF Move

LEMMA BackIs ==
    ASSUME Windable
    PROVE  /\ \A t \in Int : Back(t) \in Int /\ Back(-t) = -Back(t)
           /\ \A a, b \in Nat : /\ Back(a) \in Nat /\ Back(a) <= a
                               /\ Back(a) + Back(b) <= Back(a + b)
                               /\ Back(a + b) <= Back(a) + b
           /\ Reach \in Nat /\ \A a \in Nat : a > Reach => Back(a) >= MaxDI + 1
<1>1. KwNum \in Nat /\ KwDen \in Nat \ {0} /\ 0 < KwNum /\ KwNum <= KwDen
  BY GainsAssumption DEF Windable
<1>2. \A a \in Nat : Back(a) = (KwNum * a) \div KwDen
  BY <1>1 DEF Back, Scaled
<1>3. ASSUME NEW t \in Int PROVE Back(t) \in Int /\ Back(-t) = -Back(t)
  <2>1. Back(t) \in Int /\ Back(-t) \in Int
    BY <1>1, ScaledType DEF Back
  <2>2. CASE t = 0
    <3>1. Back(0) = 0
      BY <1>1, <1>2, QuotientIs
    <3> QED
      BY <2>2, <3>1
  <2>3. CASE t > 0
    <3>1. ~(-t >= 0) /\ t \in Nat /\ -(-t) = t
      BY <2>3
    <3>2. Back(-t) = -((KwNum * t) \div KwDen)
      BY <3>1 DEF Back, Scaled
    <3>3. Back(-t) = -Back(t)
      BY <1>2, <3>1, <3>2
    <3> QED
      BY <2>1, <3>3
  <2>4. CASE t < 0
    <3>1. ~(t >= 0) /\ -t >= 0
      BY <2>4
    <3>2. Back(t) = -((KwNum * (-t)) \div KwDen) /\ Back(-t) = (KwNum * (-t)) \div KwDen
      BY <3>1 DEF Back, Scaled
    <3> DEFINE q == (KwNum * (-t)) \div KwDen
    <3>3. Back(t) = -q /\ Back(-t) = q
      BY <3>2
    <3> HIDE DEF q
    <3> QED
      BY <2>1, <3>3
  <2> QED
    BY <2>1, <2>2, <2>3, <2>4
<1>4. ASSUME NEW a \in Nat, NEW b \in Nat
      PROVE  /\ Back(a) \in Nat /\ Back(a) <= a
             /\ Back(a) + Back(b) <= Back(a + b) /\ Back(a + b) <= Back(a) + b
  <2>1. a + b \in Nat
    OBVIOUS
  <2>2. /\ Back(a) = (KwNum * a) \div KwDen /\ Back(b) = (KwNum * b) \div KwDen
        /\ Back(a + b) = (KwNum * (a + b)) \div KwDen
    BY <1>2, <2>1
  <2>3. LET s(t) == (KwNum * t) \div KwDen
        IN /\ s(a) \in Nat /\ s(a) <= a
           /\ s(a) + s(b) <= s(a + b) /\ s(a + b) <= s(a) + b
    BY <1>1, FractionIs
  <2> QED
    BY <2>2, <2>3
<1>5. Reach \in Nat
  <2>1. (MaxDI + 1) * KwDen \in Nat
    BY <1>1, TermsWithin
  <2> DEFINE n == (MaxDI + 1) * KwDen
             q == n \div KwNum
  <2>2. KwNum \in Nat \ {0} /\ n \in Nat
    BY <1>1, <2>1
  <2> HIDE DEF n
  <2>3. q \in Int /\ n < q * KwNum + KwNum
    BY <2>2, Quotient
  <2>4. q \in Nat
    <3> HIDE DEF q
    <3> SUFFICES ASSUME q < 0 PROVE FALSE
      BY <2>3
    <3>1. q * KwNum + KwNum <= 0 * KwNum /\ 0 * KwNum = 0 /\ q * KwNum \in Int
      BY <2>2, <2>3, Spaced
    <3> QED
      BY <2>2, <2>3, <3>1
  <2> QED
    BY <2>4 DEF q, n, Reach
<1>6. ASSUME NEW a \in Nat, a > Reach PROVE Back(a) >= MaxDI + 1
  <2>1. MaxDI + 1 \in Nat
    BY TermsWithin
  <2> QED
    BY <1>1, <1>2, <1>6, <2>1, FractionReaches DEF Reach
<1> QED
  BY <1>3, <1>4, <1>5, <1>6

-----------------------------------------------------------------------------
(* The derivative term is bounded.                                         *)

\* What a filter with the pole a / n keeps of its bound leaves room for the next move.
LEMMA FilterSettles ==
    ASSUME NEW a \in Nat, NEW n \in Nat \ {0}, a < n, NEW g \in Nat
    PROVE  LET m == (g * n) \div (n - a)
           IN m \in Nat /\ (a * m) \div n \in Nat /\ (a * m) \div n + g <= m
<1> DEFINE d == n - a
           v == g * n
           m == v \div d
           p == a * m
           t == p \div n
<1>1. d \in Nat \ {0} /\ v \in Nat
  OBVIOUS
<1>2. m \in Int /\ m * d <= v /\ v < m * d + d
  <2> HIDE DEF d, v
  <2> QED
    BY <1>1, Quotient
<1>3. m \in Nat
  <2> HIDE DEF d, v, m
  <2> SUFFICES ASSUME m < 0 PROVE FALSE
    BY <1>2
  <2>1. m * d + d <= 0 * d /\ 0 * d = 0 /\ m * d \in Int
    BY <1>1, <1>2, Spaced
  <2> QED
    BY <1>1, <1>2, <2>1
<1>4. p \in Nat
  <2> HIDE DEF m
  <2> QED
    BY <1>3
<1>5. t \in Int /\ t * n <= p /\ p < t * n + n
  <2> HIDE DEF p
  <2> QED
    BY <1>4, Quotient
<1>6. t \in Nat
  <2> HIDE DEF p, t
  <2> SUFFICES ASSUME t < 0 PROVE FALSE
    BY <1>5
  <2>1. t * n + n <= 0 * n /\ 0 * n = 0 /\ t * n \in Int
    BY <1>5, Spaced
  <2> QED
    BY <1>4, <1>5, <2>1
<1>7. t + g <= m
  <2> SUFFICES ASSUME m < t + g PROVE FALSE
    BY <1>3, <1>6
  <2> HIDE DEF m, t, d
  <2> DEFINE w == t + g
             x == t * n
             y == a * w
             z == w * n
  <2>1. m * d + d <= w * d /\ w * d \in Int /\ m * d \in Int
    BY <1>1, <1>3, <1>6, Spaced
  <2>2. z = x + v /\ x \in Int /\ z \in Int /\ y \in Int /\ v \in Int
    BY <1>6
  <2>3. w * d = z - y
    BY <1>6 DEF d
  <2>4. p <= y
    BY <1>3, <1>6
  <2>5. x <= p
    BY <1>5
  <2>6. v < w * d
    BY <1>1, <1>2, <2>1, <2>2
  <2> HIDE DEF w, x, y, z, v, p
  <2> QED
    BY <1>4, <2>2, <2>3, <2>4, <2>5, <2>6
<1> QED
  BY <1>3, <1>6, <1>7

\* Decay keeps a term within its share of the bound.
LEMMA DecayWithin ==
    ASSUME NEW m \in Nat, NEW d \in Int, Within(d, m), NEW t \in Nat,
           t = (DaNum * m) \div DaDen
    PROVE  Decay(d) \in Int /\ Within(Decay(d), t)
<1>1. DaNum \in Nat /\ DaDen \in Nat \ {0}
  BY GainsAssumption
<1>2. ASSUME NEW a \in Nat, a <= m
      PROVE  /\ (DaNum * a) \div DaDen \in Int
             /\ 0 <= (DaNum * a) \div DaDen /\ (DaNum * a) \div DaDen <= t
  <2> DEFINE p == DaNum * a
             q == DaNum * m
             x == p \div DaDen
  <2>1. p \in Nat /\ q \in Nat /\ p <= q
    BY <1>1, <1>2
  <2>2. x \in Int /\ x * DaDen <= p /\ p < x * DaDen + DaDen
    <3> HIDE DEF p
    <3> QED
      BY <1>1, <2>1, Quotient
  <2>3. t * DaDen <= q /\ q < t * DaDen + DaDen
    <3> HIDE DEF q
    <3>1. t = q \div DaDen
      BY DEF q
    <3> QED
      BY <1>1, <2>1, <3>1, Quotient
  <2> HIDE DEF p, q, x
  <2>4. ~(x < 0)
    <3> SUFFICES ASSUME x < 0 PROVE FALSE
      OBVIOUS
    <3>1. x * DaDen + DaDen <= 0 * DaDen /\ 0 * DaDen = 0 /\ x * DaDen \in Int
      BY <1>1, <2>2, Spaced
    <3> QED
      BY <1>1, <2>1, <2>2, <3>1
  <2>5. ~(t < x)
    <3> SUFFICES ASSUME t < x PROVE FALSE
      OBVIOUS
    <3>1. t * DaDen + DaDen <= x * DaDen /\ t * DaDen \in Int /\ x * DaDen \in Int
      BY <1>1, <2>2, Spaced
    <3> QED
      BY <1>1, <2>1, <2>2, <2>3, <3>1
  <2>6. x \in Int /\ 0 <= x /\ x <= t
    BY <2>2, <2>4, <2>5
  <2> QED
    BY <2>6 DEF x, p
<1>3. CASE d >= 0
  <2>1. d \in Nat /\ d <= m
    BY <1>3 DEF Within
  <2>2. Decay(d) = (DaNum * d) \div DaDen
    BY <1>3 DEF Decay, Scaled
  <2>3. Decay(d) \in Int /\ 0 <= Decay(d) /\ Decay(d) <= t
    BY <1>2, <2>1, <2>2
  <2> QED
    BY <2>3 DEF Within
<1>4. CASE d < 0
  <2> DEFINE q == (DaNum * (-d)) \div DaDen
  <2>1. -d \in Nat /\ -d <= m
    BY <1>4 DEF Within
  <2>2. Decay(d) = -q
    BY <1>4 DEF Decay, Scaled
  <2>3. q \in Int /\ 0 <= q /\ q <= t
    BY <1>2, <2>1
  <2> HIDE DEF q
  <2> QED
    BY <2>2, <2>3 DEF Within
<1> QED
  BY <1>3, <1>4

DerivWithin ==
    /\ Within(deriv, MaxDeriv)
    /\ first \/ \E s \in Setpoints, z \in Meas : prev_x = C * s - z

LEMMA NextDerivWithin ==
    ASSUME Windable, TypeOK, DerivWithin, NEW r \in Setpoints, NEW y \in Meas
    PROVE  /\ MaxDeriv \in Nat
           /\ Within(NextDeriv(r, y), MaxDeriv) /\ Within(Decay(NextDeriv(r, y)), MaxDeriv)
<1> DEFINE g == Abs(Db) * MaxMove
           t == (DaNum * MaxDeriv) \div DaDen
           x == C * r - y
           m == Db * Delta(x)
<1>1. DaNum \in Nat /\ DaDen \in Nat \ {0} /\ DaNum < DaDen /\ Db \in Int
  BY GainsAssumption
<1>2. g \in Nat /\ Abs(Db) \in Nat /\ MaxMove \in Nat /\ Within(Db, Abs(Db))
  BY <1>1, AbsIs, MovesWithin DEF Within
<1>3. MaxDeriv = (g * DaDen) \div (DaDen - DaNum)
  BY DEF MaxDeriv
<1>4. MaxDeriv \in Nat /\ t \in Nat /\ t + g <= MaxDeriv
  <2> HIDE DEF g
  <2> QED
    BY <1>1, <1>2, <1>3, FilterSettles
<1>5. r \in Int /\ y \in Int /\ deriv \in Int /\ prev_x \in Int /\ x \in Int
  BY GainsAssumption, TermTypes DEF Setpoints, TypeOK
<1>6. Delta(x) \in Int /\ Within(Delta(x), MaxMove)
  <2>1. CASE first
    <3>1. Delta(x) = 0
      BY <2>1 DEF Delta
    <3> QED
      BY <1>2, <3>1 DEF Within
  <2>2. CASE ~first
    <3>1. PICK s \in Setpoints, z \in Meas : prev_x = C * s - z
      BY <2>2 DEF DerivWithin
    <3>2. Delta(x) = (C * r - y) - (C * s - z)
      BY <2>2, <3>1 DEF Delta
    <3>3. Within(Delta(x), MaxMove)
      BY <3>2, MovesWithin
    <3>4. Delta(x) = x - prev_x
      BY <2>2 DEF Delta
    <3> HIDE DEF x
    <3> QED
      BY <1>5, <3>3, <3>4
  <2> QED
    BY <2>1, <2>2
<1>7. m \in Int /\ Within(m, g)
  <2> HIDE DEF x
  <2>1. Within(Db * Delta(x), Abs(Db) * MaxMove)
    BY <1>1, <1>2, <1>6, ProductWithin
  <2>2. Db * Delta(x) \in Int
    BY <1>1, <1>6
  <2> QED
    BY <2>1, <2>2
<1>8. Decay(deriv) \in Int /\ Within(Decay(deriv), t)
  <2> HIDE DEF t
  <2>1. t = (DaNum * MaxDeriv) \div DaDen
    BY DEF t
  <2> QED
    BY <1>4, <1>5, <2>1, DecayWithin DEF DerivWithin
<1>9. NextDeriv(r, y) = Decay(deriv) + m
  BY DEF NextDeriv
<1> HIDE DEF g, t, m
<1>10. NextDeriv(r, y) \in Int /\ Within(NextDeriv(r, y), MaxDeriv)
  BY <1>2, <1>4, <1>7, <1>8, <1>9 DEF Within
<1>11. Decay(NextDeriv(r, y)) \in Int /\ Within(Decay(NextDeriv(r, y)), t)
  <2>1. t = (DaNum * MaxDeriv) \div DaDen
    BY DEF t
  <2> QED
    BY <1>4, <1>10, <2>1, DecayWithin
<1>12. Within(Decay(NextDeriv(r, y)), MaxDeriv)
  BY <1>2, <1>4, <1>11 DEF Within
<1> QED
  BY <1>4, <1>10, <1>12

-----------------------------------------------------------------------------
(* A wind-back does not overshoot.                                         *)

\* The bound, and its parts.
Law == MaxProp + MaxDeriv
Most == MaxCommand + Extent(Forwards) + Law + MaxDI + Reach

LEMMA BackType == ASSUME Windable, NEW t \in Int PROVE Back(t) \in Int /\ Back(-t) = -Back(t)
  BY BackIs

LEMMA BackSmall ==
    ASSUME Windable, NEW a \in Nat
    PROVE  /\ Back(a) \in Nat /\ Back(a) <= a /\ Back(-a) = -Back(a)
           /\ a > Reach => Back(a) >= MaxDI + 1
<1>1. a \in Int
  OBVIOUS
<1>2. Back(a) \in Nat /\ Back(a) <= a
  BY BackIs
<1> QED
  BY <1>1, <1>2, BackIs

LEMMA BackAdds ==
    ASSUME Windable, NEW a \in Nat, NEW b \in Nat
    PROVE  Back(a) + Back(b) <= Back(a + b) /\ Back(a + b) <= Back(a) + b
  BY BackIs

LEMMA ReachType == ASSUME Windable PROVE Reach \in Nat /\ MaxDI \in Nat
  BY BackIs, TermsWithin

\* The wind-back of a tick with the integral pre, the other terms pd and the command uc
\* does not overshoot on the low side.
LEMMA OwnWindBack ==
    ASSUME Windable, NEW U \in Nat, NEW F \in Nat, NEW P \in Nat, NEW W, W = U + F + P + MaxDI + Reach,
           NEW pre \in Int, NEW pd \in Int, NEW uc \in Int, Within(pd, P), Within(uc, U),
           -(W + MaxDI) <= pre
    PROVE  -W <= pre + Back(uc - (pd + pre))
<1> DEFINE y == uc - (pd + pre)
           s == Back(y)
<1>1. y \in Int /\ s \in Int /\ MaxDI \in Nat /\ Reach \in Nat /\ W \in Nat
  <2>1. y \in Int
    OBVIOUS
  <2> HIDE DEF y
  <2> QED
    BY <2>1, BackType, ReachType
<1>2. CASE y <= 0
  <2> DEFINE a == -y
  <2>1. a \in Nat /\ -a = y
    BY <1>1, <1>2
  <2>2. Back(a) <= a /\ Back(-a) = -Back(a) /\ Back(a) \in Int
    BY <2>1, BackSmall
  <2> DEFINE b == Back(a)
  <2>3. s = -b /\ b <= a /\ b \in Int
    BY <2>1, <2>2
  <2>4. a = (pd + pre) - uc
    OBVIOUS
  <2> HIDE DEF a, s, y, b
  <2>5. -W <= pre + s
    BY <1>1, <2>3, <2>4 DEF Within
  <2> QED
    BY <2>5 DEF s, y
<1>3. CASE y > 0
  <2>1. y \in Nat /\ s >= 0 /\ (y > Reach => s >= MaxDI + 1)
    <3> HIDE DEF y
    <3>1. y \in Nat
      BY <1>1, <1>3
    <3>2. s \in Nat /\ (y > Reach => s >= MaxDI + 1)
      BY <3>1, BackSmall
    <3> HIDE DEF s
    <3> QED
      BY <3>1, <3>2
  <2>2. y = uc - (pd + pre)
    OBVIOUS
  <2> HIDE DEF s, y
  <2>3. -W <= pre + s
    BY <1>1, <2>1, <2>2 DEF Within
  <2> QED
    BY <2>3 DEF s, y
<1> QED
  BY <1>1, <1>2, <1>3

\* Nor does the one that follows it, for a clamp of the command and the feedforward f at phi.
LEMMA BothWindBacks ==
    ASSUME Windable, NEW U \in Nat, NEW F \in Nat, NEW P \in Nat, NEW W, W = U + F + P + MaxDI + Reach,
           NEW pre \in Int, NEW pd \in Int, NEW uc \in Int, Within(pd, P), Within(uc, U),
           -(W + MaxDI) <= pre,
           NEW f \in Int, Within(f, F), NEW phi \in Int, 0 <= phi, phi < uc + f
    PROVE  -W <= pre + Back(uc - (pd + pre)) + Back(phi - (uc + f))
<1> DEFINE y == uc - (pd + pre)
           a == (uc + f) - phi
           s == Back(y)
           r == Back(a)
<1>1. /\ y \in Int /\ s \in Int /\ a \in Nat /\ r \in Int /\ r <= a /\ 0 <= r
      /\ MaxDI \in Nat /\ Reach \in Nat /\ W \in Nat
  <2>1. y \in Int /\ a \in Nat
    OBVIOUS
  <2> HIDE DEF y, a
  <2>2. s \in Int /\ r \in Nat /\ r <= a
    BY <2>1, BackType, BackSmall
  <2>3. MaxDI \in Nat /\ Reach \in Nat /\ W \in Nat
    BY ReachType
  <2> HIDE DEF s, r
  <2> QED
    BY <2>1, <2>2, <2>3
<1>2. Back(phi - (uc + f)) = -r
  <2>1. phi - (uc + f) = -a
    OBVIOUS
  <2> HIDE DEF a
  <2> QED
    BY <1>1, <2>1, BackIs
<1>3. y = uc - (pd + pre) /\ a = (uc + f) - phi
  OBVIOUS
<1>4. -W <= (pre + s) - r
  <2>1. CASE y <= 0
    <3> DEFINE b == -y
               q == Back(b)
    <3>1. b \in Nat /\ -b = y
      BY <1>1, <2>1
    <3>2. q <= b /\ s = -q /\ q \in Int
      <4> HIDE DEF b, y
      <4>1. q \in Nat /\ q <= b /\ s = -q
        BY <3>1, BackSmall
      <4> HIDE DEF q, s
      <4> QED
        BY <4>1
    <3>3. b = -y
      OBVIOUS
    <3> HIDE DEF a, y, s, r, b, q
    <3> QED
      BY <1>1, <1>3, <3>2, <3>3 DEF Within
  <2>2. CASE y > 0 /\ y >= a
    <3> DEFINE m == y - a
               q == Back(m)
    <3>1. m \in Nat /\ y = m + a
      BY <1>1, <2>2
    <3>2. q + r <= s /\ q \in Nat /\ (m > Reach => q >= MaxDI + 1)
      <4> HIDE DEF m, y, a
      <4> QED
        BY <1>1, <3>1, BackSmall, BackAdds
    <3> HIDE DEF a, y, s, r, m, q
    <3> QED
      BY <1>1, <1>3, <3>1, <3>2 DEF Within
  <2>3. CASE y > 0 /\ y < a
    <3> DEFINE m == a - y
    <3>1. m \in Nat /\ y \in Nat /\ a = y + m
      BY <1>1, <2>3
    <3>2. r <= s + m
      <4> HIDE DEF m, y, a
      <4> QED
        BY <1>1, <3>1, BackAdds
    <3> HIDE DEF a, y, s, r, m
    <3> QED
      BY <1>1, <1>3, <3>1, <3>2 DEF Within
  <2> QED
    BY <1>1, <2>1, <2>2, <2>3
<1> HIDE DEF a, y, s, r
<1>5. -W <= pre + s + Back(phi - (uc + f))
  BY <1>1, <1>2, <1>4
<1> QED
  BY <1>5 DEF s, y

\* A charge for the downstream clamp, on the low side.
LEMMA ChargeAbove ==
    ASSUME Windable, NEW W \in Nat, NEW lo \in Int, NEW hi \in Int, lo <= 0, 0 <= hi,
           NEW plo \in Int, NEW phi \in Int, plo <= 0, 0 <= phi,
           NEW i \in Int, -W <= i, NEW v \in Int, -W <= phi - v,
           v > phi /\ i < 0 => -W <= i + Back(phi - v)
    PROVE  -W <= Clamp(i + Back(Clamp(v, plo, phi) - v), lo, hi)
<1> DEFINE x == Clamp(v, plo, phi) - v
           s == Back(x)
<1>1. x \in Int /\ (x >= 0 \/ (v > phi /\ x = phi - v))
  BY DEF Clamp
<1> HIDE DEF x
<1>2. s \in Int
  BY <1>1, BackIs
<1>3. -W <= i + s
  <2>1. CASE x >= 0
    <3>1. s >= 0
      BY <1>1, <2>1, BackIs
    <3> HIDE DEF s
    <3> QED
      BY <1>2, <3>1
  <2>2. CASE v > phi /\ x = phi - v
    <3>1. CASE i < 0
      BY <2>2, <3>1
    <3>2. CASE i >= 0
      <4> DEFINE a == -x
                 r == Back(a)
      <4>1. a \in Nat /\ x = -a
        BY <1>1, <2>2
      <4>2. r \in Int /\ r <= a /\ s = -r
        BY <4>1, BackIs
      <4> HIDE DEF s, a, r
      <4> QED
        BY <1>1, <1>2, <2>2, <3>2, <4>1, <4>2
    <3> QED
      BY <3>1, <3>2
  <2> QED
    BY <1>1, <2>1, <2>2
<1> HIDE DEF s
<1>4. -W <= Clamp(i + s, lo, hi)
  BY <1>2, <1>3 DEF Clamp
<1> QED
  BY <1>4 DEF s, x

LEMMA ClampNegates ==
    ASSUME NEW x \in Int, NEW lo \in Int, NEW hi \in Int, lo <= hi
    PROVE  Clamp(-x, -hi, -lo) = -Clamp(x, lo, hi)
  BY DEF Clamp

LEMMA ChargeBelow ==
    ASSUME Windable, NEW W \in Nat, NEW lo \in Int, NEW hi \in Int, lo <= 0, 0 <= hi,
           NEW plo \in Int, NEW phi \in Int, plo <= 0, 0 <= phi,
           NEW i \in Int, i <= W, NEW v \in Int, plo - v <= W,
           v < plo /\ i > 0 => i + Back(plo - v) <= W
    PROVE  Clamp(i + Back(Clamp(v, plo, phi) - v), lo, hi) <= W
<1> DEFINE j == -i
           w == -v
           x == Clamp(v, plo, phi) - v
           s == Back(x)
<1>1. x \in Int /\ s \in Int
  <2>1. x \in Int
    BY DEF Clamp
  <2> HIDE DEF x
  <2> QED
    BY <2>1, BackIs
<1>2. /\ -hi \in Int /\ -lo \in Int /\ -hi <= 0 /\ 0 <= -lo
      /\ -phi \in Int /\ -plo \in Int /\ -phi <= 0 /\ 0 <= -plo
      /\ j \in Int /\ -W <= j /\ w \in Int /\ -W <= -plo - w
  OBVIOUS
<1>3. w > -plo /\ j < 0 => -W <= j + Back(-plo - w)
  <2> SUFFICES ASSUME w > -plo, j < 0 PROVE -W <= j + Back(-plo - w)
    OBVIOUS
  <2>1. v < plo /\ i > 0
    OBVIOUS
  <2> DEFINE t == plo - v
             q == Back(t)
  <2>2. -plo - w = -t /\ t \in Int
    OBVIOUS
  <2>3. i + q <= W
    BY <2>1
  <2>4. Back(-plo - w) = -q /\ q \in Int
    BY <2>2, BackIs
  <2> HIDE DEF t, q
  <2> QED
    BY <2>3, <2>4
<1> HIDE DEF j, w
<1>4. -W <= Clamp(j + Back(Clamp(w, -phi, -plo) - w), -hi, -lo)
  BY <1>2, <1>3, ChargeAbove
<1>5. Clamp(w, -phi, -plo) - w = -x
  <2>1. w = -v /\ Clamp(v, plo, phi) \in Int
    BY DEF w, Clamp
  <2>2. Clamp(w, -phi, -plo) = -Clamp(v, plo, phi)
    BY <2>1, ClampNegates
  <2> QED
    BY <2>1, <2>2
<1>6. Back(-x) = -s
  <2> HIDE DEF x
  <2> QED
    BY <1>1, BackIs
<1> HIDE DEF x, s
<1>7. j + Back(Clamp(w, -phi, -plo) - w) = -(i + s)
  BY <1>1, <1>5, <1>6 DEF j
<1>8. i + s \in Int
  BY <1>1
<1>9. Clamp(-(i + s), -hi, -lo) = -Clamp(i + s, lo, hi)
  BY <1>8, ClampNegates
<1>10. Clamp(i + s, lo, hi) \in Int
  BY <1>8 DEF Clamp
<1>11. Clamp(i + s, lo, hi) <= W
  <2> DEFINE c == Clamp(i + s, lo, hi)
  <2>1. -W <= -c /\ c \in Int
    BY <1>4, <1>7, <1>9, <1>10
  <2> HIDE DEF c
  <2>2. c <= W
    BY <2>1
  <2> QED
    BY <2>2 DEF c
<1> QED
  BY <1>11 DEF s, x

\* Both sides, by symmetry.
LEMMA OwnWindBackWithin ==
    ASSUME Windable, NEW U \in Nat, NEW F \in Nat, NEW P \in Nat, NEW W, W = U + F + P + MaxDI + Reach,
           NEW pre \in Int, NEW pd \in Int, NEW uc \in Int, Within(pd, P), Within(uc, U),
           Within(pre, W + MaxDI)
    PROVE  Within(pre + Back(uc - (pd + pre)), W)
<1> DEFINE y == uc - (pd + pre)
           s == Back(y)
           pre2 == -pre
           pd2 == -pd
           uc2 == -uc
<1>1. y \in Int /\ W \in Nat /\ MaxDI \in Nat
  BY ReachType
<1>2. s \in Int /\ Back(-y) = -s
  <2> HIDE DEF y
  <2> QED
    BY <1>1, BackType
<1>3. -W <= pre + s
  <2>1. -(W + MaxDI) <= pre
    BY DEF Within
  <2> QED
    BY <2>1, OwnWindBack
<1>4. -W <= pre2 + Back(uc2 - (pd2 + pre2))
  <2>1. /\ pre2 \in Int /\ pd2 \in Int /\ uc2 \in Int
        /\ Within(pd2, P) /\ Within(uc2, U) /\ -(W + MaxDI) <= pre2
    BY <1>1 DEF Within
  <2> HIDE DEF pre2, pd2, uc2
  <2> QED
    BY <2>1, OwnWindBack
<1>5. uc2 - (pd2 + pre2) = -y
  OBVIOUS
<1>6. -W <= pre2 - s
  <2> HIDE DEF pd2, uc2, y, s
  <2> QED
    BY <1>2, <1>4, <1>5
<1> HIDE DEF y, s
<1>7. Within(pre + s, W)
  BY <1>1, <1>2, <1>3, <1>6 DEF Within
<1> QED
  BY <1>7 DEF s, y

LEMMA BothWindBacksWithin ==
    ASSUME Windable, NEW U \in Nat, NEW F \in Nat, NEW P \in Nat, NEW W, W = U + F + P + MaxDI + Reach,
           NEW pre \in Int, NEW pd \in Int, NEW uc \in Int, Within(pd, P), Within(uc, U),
           Within(pre, W + MaxDI), NEW f \in Int, Within(f, F)
    PROVE  /\ uc + f > PHi => -W <= pre + Back(uc - (pd + pre)) + Back(PHi - (uc + f))
           /\ uc + f < PLo => pre + Back(uc - (pd + pre)) + Back(PLo - (uc + f)) <= W
<1> DEFINE y == uc - (pd + pre)
           s == Back(y)
           pre2 == -pre
           pd2 == -pd
           uc2 == -uc
           f2 == -f
           phi2 == -PLo
<1>1. y \in Int /\ W \in Nat /\ MaxDI \in Nat
  BY ReachType
<1>2. s \in Int /\ Back(-y) = -s
  <2> HIDE DEF y
  <2> QED
    BY <1>1, BackType
<1>3. PLo \in Int /\ PHi \in Int /\ PLo <= 0 /\ 0 <= PHi
  BY GainsAssumption DEF Windable
<1>4. ASSUME uc + f > PHi PROVE -W <= pre + s + Back(PHi - (uc + f))
  <2>1. -(W + MaxDI) <= pre /\ PHi < uc + f
    BY <1>3, <1>4 DEF Within
  <2> QED
    BY <1>3, <2>1, BothWindBacks
<1>5. ASSUME uc + f < PLo PROVE pre + s + Back(PLo - (uc + f)) <= W
  <2>1. /\ pre2 \in Int /\ pd2 \in Int /\ uc2 \in Int /\ f2 \in Int /\ phi2 \in Int
        /\ Within(pd2, P) /\ Within(uc2, U) /\ -(W + MaxDI) <= pre2 /\ Within(f2, F)
        /\ 0 <= phi2 /\ phi2 < uc2 + f2
    BY <1>1, <1>3, <1>5 DEF Within
  <2>2. -W <= pre2 + Back(uc2 - (pd2 + pre2)) + Back(phi2 - (uc2 + f2))
    <3> HIDE DEF pre2, pd2, uc2, f2, phi2
    <3> QED
      BY <2>1, BothWindBacks
  <2> DEFINE t == PLo - (uc + f)
             q == Back(t)
  <2>3. uc2 - (pd2 + pre2) = -y /\ phi2 - (uc2 + f2) = -t /\ t \in Int
    BY <1>3
  <2>4. q \in Int /\ Back(-t) = -q
    <3> HIDE DEF t
    <3> QED
      BY <2>3, BackType
  <2>5. -W <= pre2 + (-s) + (-q)
    <3> HIDE DEF y, s, t, q, pd2, uc2, f2, phi2, pre2
    <3> QED
      BY <1>2, <2>2, <2>3, <2>4
  <2> HIDE DEF y, s, t, q
  <2>6. pre + s + q <= W
    BY <1>1, <1>2, <2>4, <2>5
  <2> QED
    BY <2>6 DEF q, t
<1> QED
  BY <1>4, <1>5

-----------------------------------------------------------------------------
(* So is what the wind-backs leave of the integral.                        *)

LEMMA MostIs ==
    ASSUME Windable, MaxDeriv \in Nat
    PROVE  /\ Law \in Nat /\ MaxCommand \in Nat /\ Extent(Forwards) \in Nat /\ MaxDI \in Nat
           /\ Reach \in Nat /\ Most \in Nat
           /\ Most = MaxCommand + Extent(Forwards) + Law + MaxDI + Reach
  BY WindableExtents, TermsWithin, ReachType DEF Law, Most

\* The integral i after a charge for the command uc and the feedforward f.
After(i, uc, f) == WoundBack(i, Clamp(uc + f, PLo, PHi), uc + f)

LEMMA WoundBackIs ==
    ASSUME Windable, NEW i \in ILo .. IHi, NEW u_sat \in Int, NEW u_unsat \in Int
    PROVE  WoundBack(i, u_sat, u_unsat) = SatI(i + Back(u_sat - u_unsat))
<1>1. KwNum # 0 /\ KwNum \in Nat /\ ILo \in Int /\ IHi \in Int
  BY GainsAssumption DEF Windable
<1>2. CASE u_sat = u_unsat
  <2>1. u_sat - u_unsat = 0
    BY <1>2
  <2>2. Back(0) \in Nat /\ Back(0) <= 0
    BY BackSmall
  <2>3. Back(0) = 0
    BY <2>2
  <2>4. SatI(i + 0) = i
    BY <1>1 DEF SatI, Clamp
  <2> QED
    BY <1>2, <2>1, <2>3, <2>4 DEF WoundBack
<1>3. CASE u_sat # u_unsat
  BY <1>1, <1>3 DEF WoundBack, Back
<1> QED
  BY <1>2, <1>3

LEMMA AfterWithin ==
    ASSUME Windable, MaxDeriv \in Nat, NEW i \in ILo .. IHi, Within(i, Most),
           NEW uc \in Int, Within(uc, MaxCommand), NEW f \in Int, Within(f, Extent(Forwards)),
           i < 0 /\ uc + f > PHi => -Most <= i + Back(PHi - (uc + f)),
           i > 0 /\ uc + f < PLo => i + Back(PLo - (uc + f)) <= Most
    PROVE  Within(After(i, uc, f), Most)
<1> DEFINE v == uc + f
           c == Clamp(v, PLo, PHi)
           k == i + Back(c - v)
<1>1. /\ ILo \in Int /\ IHi \in Int /\ ILo <= 0 /\ 0 <= IHi
      /\ PLo \in Int /\ PHi \in Int /\ PLo <= 0 /\ 0 <= PHi
  BY GainsAssumption DEF Windable
<1>2. /\ Most \in Nat /\ v \in Int /\ i \in Int /\ -Most <= i /\ i <= Most
      /\ -Most <= PHi - v /\ PLo - v <= Most
  <2> DEFINE U == MaxCommand
             F == Extent(Forwards)
  <2>1. U \in Nat /\ F \in Nat /\ Law \in Nat /\ MaxDI \in Nat /\ Reach \in Nat
        /\ Most = U + F + Law + MaxDI + Reach
    BY MostIs
  <2>2. Within(uc, U) /\ Within(f, F)
    OBVIOUS
  <2> HIDE DEF U, F
  <2> QED
    BY <1>1, <2>1, <2>2 DEF Within
<1>3. c \in Int
  <2> HIDE DEF v
  <2> QED
    BY <1>1, <1>2 DEF Clamp
<1>4. v > PHi /\ i < 0 => -Most <= i + Back(PHi - v)
  OBVIOUS
<1>5. v < PLo /\ i > 0 => i + Back(PLo - v) <= Most
  OBVIOUS
<1> HIDE DEF v
<1>6. -Most <= Clamp(k, ILo, IHi)
  BY <1>1, <1>2, <1>4, ChargeAbove
<1>7. Clamp(k, ILo, IHi) <= Most
  BY <1>1, <1>2, <1>5, ChargeBelow
<1>8. After(i, uc, f) = Clamp(k, ILo, IHi)
  <2> HIDE DEF c
  <2>1. WoundBack(i, c, v) = SatI(i + Back(c - v))
    BY <1>2, <1>3, WoundBackIs
  <2>2. After(i, uc, f) = WoundBack(i, c, v)
    BY DEF After, c, v
  <2> QED
    BY <2>1, <2>2 DEF SatI
<1> QED
  BY <1>6, <1>7, <1>8 DEF Within

\* The invariant: the integral is within the bound, and so is what back_calculate() would
\* make of it for the command in force, until it has been called.
WindInv ==
    /\ DerivWithin
    /\ Within(u_track, MaxCommand)
    /\ Within(integral, Most)
    /\ ~charged => \A f \in Forwards : Within(After(integral, u_cmd, f), Most)

LEMMA DerivTypeOK == ASSUME Windable PROVE MaxDeriv \in Nat
<1> DEFINE g == Abs(Db) * MaxMove
<1>1. DaNum \in Nat /\ DaDen \in Nat \ {0} /\ DaNum < DaDen /\ Db \in Int
  BY GainsAssumption
<1>2. g \in Nat
  BY <1>1, AbsIs, MovesWithin
<1>3. MaxDeriv = (g * DaDen) \div (DaDen - DaNum)
  BY DEF MaxDeriv
<1> HIDE DEF g
<1> QED
  BY <1>1, <1>2, <1>3, FilterSettles

\* A limit around 0 brings nothing further from it.
LEMMA SatIs ==
    ASSUME Windable, NEW x \in Int
    PROVE  /\ SatI(x) \in ILo .. IHi /\ SatI(x) \in Int
           /\ SatI(x) < 0 => x <= SatI(x)
           /\ SatI(x) > 0 => SatI(x) <= x
           /\ \A b \in Nat : Within(x, b) => Within(SatI(x), b)
<1>1. ILo \in Int /\ IHi \in Int /\ ILo <= 0 /\ 0 <= IHi
  BY GainsAssumption DEF Windable
<1> QED
  BY <1>1 DEF SatI, Clamp, Within

LEMMA CommandWithin ==
    ASSUME Windable, NEW x \in Int
    PROVE  /\ SatU(x) \in Int /\ Within(SatU(x), MaxCommand)
           /\ Within(x, MaxCommand) => Within(x - SatU(x), MaxCommand)
<1>1. ULo \in Int /\ UHi \in Int /\ ULo <= 0 /\ 0 <= UHi
  BY GainsAssumption DEF Windable
<1>2. MaxCommand \in Nat /\ Within(ULo, MaxCommand) /\ Within(UHi, MaxCommand)
  BY WindableExtents
<1> QED
  BY <1>1, <1>2 DEF SatU, Clamp, Within

LEMMA DifferentiateWithin ==
    ASSUME Windable, TypeOK, DerivWithin, NEW r \in Setpoints, NEW y \in Meas, Differentiate(r, y)
    PROVE  DerivWithin'
  BY NextDerivWithin DEF Differentiate, DerivWithin

LEMMA WindAuto ==
    ASSUME Windable, IInv, WindInv, NEW r \in Refs, NEW y \in Meas, ControlAuto(r, y)
    PROVE  WindInv'
<1> DEFINE pd == Prop(r, y) + NextDeriv(r, y)
           w == integral + DI(r, y)
           pre == SatI(w)
           uc == SatU(pd + pre)
           z == pre + Back(uc - (pd + pre))
<1>1. /\ TypeOK /\ r \in Setpoints /\ r \in Int /\ y \in Int /\ MaxDeriv \in Nat
      /\ integral \in Int /\ DerivWithin /\ Within(integral, Most)
  BY GainsAssumption, DerivTypeOK DEF IInv, WindInv, Setpoints, TypeOK
<1>2. /\ Law \in Nat /\ MaxCommand \in Nat /\ Extent(Forwards) \in Nat /\ MaxDI \in Nat
      /\ Reach \in Nat /\ Most \in Nat
      /\ Most = MaxCommand + Extent(Forwards) + Law + MaxDI + Reach
  BY <1>1, MostIs
<1>3. pd \in Int /\ Within(pd, Law)
  <2>1. /\ Prop(r, y) \in Int /\ NextDeriv(r, y) \in Int /\ MaxProp \in Nat
        /\ Within(Prop(r, y), MaxProp) /\ Within(NextDeriv(r, y), MaxDeriv)
    BY <1>1, TermTypes, DerivType, TermsWithin, NextDerivWithin
  <2> QED
    BY <1>1, <2>1 DEF Within, Law
<1>4. w \in Int /\ Within(w, Most + MaxDI)
  <2>1. DI(r, y) \in Int /\ Within(DI(r, y), MaxDI)
    BY <1>1, TermTypes, TermsWithin
  <2> QED
    BY <1>1, <1>2, <2>1 DEF Within
<1> HIDE DEF pd, w
<1>5. pre \in ILo .. IHi /\ pre \in Int /\ Within(pre, Most + MaxDI)
  <2>1. Most + MaxDI \in Nat
    BY <1>2
  <2> QED
    BY <1>4, <2>1, SatIs
<1> HIDE DEF pre
<1>6. uc \in Int /\ Within(uc, MaxCommand)
  <2>1. pd + pre \in Int
    BY <1>3, <1>5
  <2> QED
    BY <2>1, CommandWithin
<1>7. /\ integral' = WoundBack(pre, uc, pd + pre) /\ u_cmd' = uc /\ charged' = FALSE
      /\ u_track' = u_track /\ Differentiate(r, y)
  BY DEF ControlAuto, pd, w, pre
<1> HIDE DEF uc
<1>8. integral' = SatI(z)
  <2>1. pd + pre \in Int
    BY <1>3, <1>5
  <2> QED
    BY <1>5, <1>6, <1>7, <2>1, WoundBackIs
<1>9. z \in Int /\ Within(z, Most)
  <2>1. uc - (pd + pre) \in Int
    BY <1>3, <1>5, <1>6
  <2>2. Back(uc - (pd + pre)) \in Int
    BY <2>1, BackType
  <2>3. z \in Int
    BY <1>5, <2>2
  <2>4. Within(z, Most)
    BY <1>2, <1>3, <1>5, <1>6, OwnWindBackWithin
  <2> QED
    BY <2>3, <2>4
<1>10. /\ integral' \in ILo .. IHi /\ integral' \in Int /\ Within(integral', Most)
       /\ integral' < 0 => z <= integral'
       /\ integral' > 0 => integral' <= z
  <2> HIDE DEF z
  <2> QED
    BY <1>2, <1>8, <1>9, SatIs
<1>11. ASSUME NEW f \in Forwards PROVE Within(After(integral', u_cmd', f), Most)
  <2>1. f \in Int /\ Within(f, Extent(Forwards)) /\ PLo \in Int /\ PHi \in Int
    BY WindableExtents, GainsAssumption
  <2>2. /\ uc + f > PHi => -Most <= z + Back(PHi - (uc + f))
        /\ uc + f < PLo => z + Back(PLo - (uc + f)) <= Most
    BY <1>2, <1>3, <1>5, <1>6, <2>1, BothWindBacksWithin
  <2> DEFINE p == Back(PHi - (uc + f))
             q == Back(PLo - (uc + f))
             i == integral'
  <2>3. p \in Int /\ q \in Int
    <3>1. PHi - (uc + f) \in Int /\ PLo - (uc + f) \in Int
      BY <1>6, <2>1
    <3> QED
      BY <3>1, BackType
  <2>4. i < 0 /\ uc + f > PHi => -Most <= i + p
    <3> HIDE DEF p, z
    <3> QED
      BY <1>2, <1>9, <1>10, <2>2, <2>3 DEF p
  <2>5. i > 0 /\ uc + f < PLo => i + q <= Most
    <3> HIDE DEF q, z
    <3> QED
      BY <1>2, <1>9, <1>10, <2>2, <2>3 DEF q
  <2>6. i \in ILo .. IHi /\ Within(i, Most)
    BY <1>10
  <2> HIDE DEF i
  <2>7. Within(After(i, uc, f), Most)
    BY <1>1, <1>6, <2>1, <2>4, <2>5, <2>6, AfterWithin
  <2> QED
    BY <1>7, <2>7 DEF i
<1>12. DerivWithin'
  BY <1>1, <1>7, DifferentiateWithin
<1>13. Within(u_track', MaxCommand)
  BY <1>7 DEF WindInv
<1> QED
  BY <1>10, <1>11, <1>12, <1>13 DEF WindInv

\* Following u leaves the integral what the command lacks of the other terms.
LEMMA WindFollow ==
    ASSUME Windable, IInv, WindInv, NEW r \in Setpoints, NEW y \in Meas,
           NEW u \in Int, Within(u, MaxCommand), Within(u_track', MaxCommand), Follow(r, y, u)
    PROVE  WindInv'
<1> DEFINE pd == Prop(r, y) + Decay(NextDeriv(r, y))
           k == u - pd - DI(r, y)
           uc == SatU(u)
<1>1. /\ TypeOK /\ r \in Int /\ y \in Int /\ MaxDeriv \in Nat /\ DerivWithin
  BY GainsAssumption, DerivTypeOK DEF IInv, WindInv, Setpoints
<1>2. /\ Law \in Nat /\ MaxCommand \in Nat /\ Extent(Forwards) \in Nat /\ MaxDI \in Nat
      /\ Reach \in Nat /\ Most \in Nat
      /\ Most = MaxCommand + Extent(Forwards) + Law + MaxDI + Reach
  BY <1>1, MostIs
<1>3. pd \in Int /\ Within(pd, Law)
  <2>1. /\ Prop(r, y) \in Int /\ Decay(NextDeriv(r, y)) \in Int /\ MaxProp \in Nat
        /\ Within(Prop(r, y), MaxProp) /\ Within(Decay(NextDeriv(r, y)), MaxDeriv)
    BY <1>1, TermTypes, DerivType, TermsWithin, NextDerivWithin
  <2> DEFINE a == Prop(r, y)
             b == Decay(NextDeriv(r, y))
  <2>2. /\ a \in Int /\ b \in Int /\ Within(a, MaxProp) /\ Within(b, MaxDeriv)
        /\ pd = a + b /\ Law = MaxProp + MaxDeriv
    BY <2>1 DEF Law
  <2> HIDE DEF a, b, pd
  <2> QED
    BY <1>1, <2>1, <2>2 DEF Within
<1>4. DI(r, y) \in Int /\ Within(DI(r, y), MaxDI)
  BY <1>1, TermTypes, TermsWithin
<1>5. /\ integral' = SatI(k) /\ u_cmd' = uc /\ charged' = FALSE /\ Differentiate(r, y)
  BY DEF Follow
<1> DEFINE d == DI(r, y)
<1>6. k = u - pd - d /\ d \in Int /\ Within(d, MaxDI)
  BY <1>4
<1> HIDE DEF pd, d, k
<1>7. k \in Int /\ Within(k, Most)
  BY <1>2, <1>3, <1>6 DEF Within
<1>8. uc \in Int /\ Within(uc, MaxCommand) /\ Within(u - uc, MaxCommand)
  BY CommandWithin
<1> HIDE DEF uc
<1>9. /\ integral' \in ILo .. IHi /\ integral' \in Int /\ Within(integral', Most)
      /\ integral' < 0 => k <= integral'
      /\ integral' > 0 => integral' <= k
  BY <1>2, <1>5, <1>7, SatIs
<1>10. ASSUME NEW f \in Forwards PROVE Within(After(integral', u_cmd', f), Most)
  <2>1. /\ f \in Int /\ Within(f, Extent(Forwards))
        /\ PLo \in Int /\ PHi \in Int /\ PLo <= 0 /\ 0 <= PHi
    BY WindableExtents, GainsAssumption DEF Windable
  <2> DEFINE a == (uc + f) - PHi
             b == PLo - (uc + f)
             p == Back(a)
             q == Back(b)
             i == integral'
             F == Extent(Forwards)
  <2>2. i < 0 /\ uc + f > PHi => -Most <= i + Back(PHi - (uc + f))
    <3> SUFFICES ASSUME i < 0, uc + f > PHi PROVE -Most <= i + Back(PHi - (uc + f))
      OBVIOUS
    <3>1. a \in Nat /\ PHi - (uc + f) = -a
      BY <1>8, <2>1
    <3>2. p \in Nat /\ p <= a /\ Back(-a) = -p
      <4> HIDE DEF a
      <4> QED
        BY <3>1, BackSmall
    <3>3. Back(PHi - (uc + f)) = -p
      <4> HIDE DEF a, p
      <4> QED
        BY <3>1, <3>2
    <3>4. i \in Int /\ k <= i /\ a = (uc + f) - PHi
      BY <1>9
    <3>5. F \in Nat /\ Within(f, F) /\ Most = MaxCommand + F + Law + MaxDI + Reach
      BY <1>2, <2>1
    <3> HIDE DEF a, p, i, F
    <3>6. -Most <= k - a
      BY <1>2, <1>3, <1>6, <1>7, <1>8, <2>1, <3>4, <3>5 DEF Within
    <3>7. -Most <= i - p
      BY <1>2, <1>7, <3>1, <3>2, <3>4, <3>6
    <3> QED
      BY <1>2, <3>2, <3>3, <3>4, <3>7
  <2>3. i > 0 /\ uc + f < PLo => i + Back(PLo - (uc + f)) <= Most
    <3> SUFFICES ASSUME i > 0, uc + f < PLo PROVE i + Back(PLo - (uc + f)) <= Most
      OBVIOUS
    <3>1. b \in Nat
      BY <1>8, <2>1
    <3>2. q \in Nat /\ q <= b
      <4> HIDE DEF b
      <4> QED
        BY <3>1, BackSmall
    <3>4. i \in Int /\ i <= k /\ b = PLo - (uc + f)
      BY <1>9
    <3>5. F \in Nat /\ Within(f, F) /\ Most = MaxCommand + F + Law + MaxDI + Reach
      BY <1>2, <2>1
    <3>6. Back(PLo - (uc + f)) = q
      OBVIOUS
    <3> HIDE DEF b, q, i, F
    <3>7. k + b <= Most
      BY <1>2, <1>3, <1>6, <1>7, <1>8, <2>1, <3>4, <3>5 DEF Within
    <3>8. i + q <= Most
      BY <1>2, <1>7, <3>1, <3>2, <3>4, <3>7
    <3> QED
      BY <3>6, <3>8
  <2>4. i \in ILo .. IHi /\ Within(i, Most)
    BY <1>9
  <2> HIDE DEF i
  <2>5. Within(After(i, uc, f), Most)
    BY <1>1, <1>8, <2>1, <2>2, <2>3, <2>4, AfterWithin
  <2> QED
    BY <1>5, <2>5 DEF i
<1>11. DerivWithin'
  BY <1>1, <1>5, DifferentiateWithin
<1> QED
  BY <1>9, <1>10, <1>11 DEF WindInv

LEMMA WindReset == ASSUME Windable, IInv, WindInv, Reset PROVE WindInv'
<1>1. /\ integral' = 0 /\ deriv' = 0 /\ first' /\ UNCHANGED <<u_track, u_cmd, charged>>
  BY DEF Reset
<1>2. MaxDeriv \in Nat /\ Most \in Nat /\ MaxCommand \in Nat
  BY DerivTypeOK, MostIs
<1>3. DerivWithin'
  <2>1. Within(deriv', MaxDeriv)
    BY <1>1, <1>2 DEF Within
  <2> QED
    BY <1>1, <2>1 DEF DerivWithin
<1>4. Within(integral', Most)
  BY <1>1, <1>2 DEF Within
<1>5. ASSUME NEW f \in Forwards PROVE Within(After(0, u_cmd, f), Most)
  <2>1. f \in Int /\ Within(f, Extent(Forwards))
    BY WindableExtents, GainsAssumption
  <2>2. u_cmd \in Int /\ Within(u_cmd, MaxCommand)
    <3>1. u_cmd \in (ULo .. UHi) \cup {0}
      BY DEF IInv, TypeOK
    <3>2. Within(ULo, MaxCommand) /\ Within(UHi, MaxCommand) /\ ULo \in Int /\ UHi \in Int
      BY WindableExtents, GainsAssumption
    <3> QED
      BY <1>2, <3>1, <3>2 DEF Within
  <2>3. 0 \in ILo .. IHi /\ Within(0, Most)
    BY <1>2, GainsAssumption DEF Windable, Within
  <2>4. ~(0 < 0) /\ ~(0 > 0)
    OBVIOUS
  <2> QED
    BY <1>2, <2>1, <2>2, <2>3, <2>4, AfterWithin
<1>6. ~charged' => \A f \in Forwards : Within(After(integral', u_cmd', f), Most)
  BY <1>1, <1>5
<1>7. Within(u_track', MaxCommand)
  BY <1>1 DEF WindInv
<1> QED
  BY <1>3, <1>4, <1>6, <1>7 DEF WindInv

LEMMA WindStarts == ASSUME Windable PROVE Init => WindInv
<1> SUFFICES ASSUME Init PROVE WindInv
  OBVIOUS
<1>1. MaxDeriv \in Nat /\ Most \in Nat /\ MaxCommand \in Nat
  BY DerivTypeOK, MostIs
<1>2. integral = 0 /\ deriv = 0 /\ u_track = 0 /\ first /\ charged
  BY DEF Init
<1>3. Within(0, MaxDeriv) /\ Within(0, Most) /\ Within(0, MaxCommand)
  BY <1>1 DEF Within
<1> QED
  BY <1>2, <1>3 DEF WindInv, DerivWithin

LEMMA WindStep == ASSUME Windable PROVE IInv /\ WindInv /\ [Next]_vars => WindInv'
<1> SUFFICES ASSUME IInv, WindInv, [Next]_vars PROVE WindInv'
  OBVIOUS
<1>1. ASSUME NEW r \in Refs, NEW y \in Meas, ControlAuto(r, y) PROVE WindInv'
  BY <1>1, WindAuto
<1>2. ASSUME NEW r \in Refs, NEW y \in Meas, ControlTracking(r, y) PROVE WindInv'
  <2>1. Follow(r, y, u_track) /\ u_track' = u_track /\ r \in Setpoints
    BY <1>2 DEF ControlTracking, Setpoints
  <2>2. u_track \in Int /\ Within(u_track, MaxCommand)
    BY DEF IInv, TypeOK, WindInv
  <2>3. Within(u_track', MaxCommand)
    BY <2>1, <2>2
  <2> QED
    BY <2>1, <2>2, <2>3, WindFollow
<1>3. ASSUME NEW u \in Tracks, NEW y \in Meas, Track(u, y) PROVE WindInv'
  <2>1. Follow(y, y, u) /\ u_track' = u /\ y \in Setpoints
    BY <1>3 DEF Track, Setpoints
  <2>2. u \in Int /\ Within(u, MaxCommand)
    BY WindableExtents, GainsAssumption
  <2>3. Within(u_track', MaxCommand)
    BY <2>1, <2>2
  <2> QED
    BY <2>1, <2>2, <2>3, WindFollow
<1>4. ASSUME NEW f \in Forwards, BackCalculate(f) PROVE WindInv'
  <2>1. /\ ~charged /\ charged' = TRUE /\ integral' = After(integral, u_cmd, f)
        /\ UNCHANGED <<prev_x, deriv, first, u_track>>
    BY <1>4 DEF BackCalculate, After
  <2>2. Within(integral', Most)
    BY <2>1 DEF WindInv
  <2> QED
    BY <2>1, <2>2 DEF WindInv, DerivWithin
<1>5. ASSUME NEW u \in Tracks, Disable(u) PROVE WindInv'
  <2>1. u_track' = u /\ UNCHANGED <<integral, prev_x, deriv, first, u_cmd, charged>>
    BY <1>5 DEF Disable
  <2>2. Within(u_track', MaxCommand)
    BY <2>1, WindableExtents
  <2> QED
    BY <2>1, <2>2 DEF WindInv, DerivWithin
<1>6. CASE Enable
  BY <1>6 DEF Enable, WindInv, DerivWithin
<1>7. CASE Reset
  BY <1>7, WindReset
<1>8. CASE UNCHANGED vars
  BY <1>8 DEF vars, pid, WindInv, DerivWithin
<1> QED
  BY <1>1, <1>2, <1>3, <1>4, <1>5, <1>6, <1>7, <1>8 DEF Next

\* Back-calculation keeps the integral of the PID bounded without any help from its own
\* limits: for all gains, limits around 0, references, measurements and feedforwards, in
\* every order of the calls, if Kbc is not below Ki.
THEOREM WindupStaysBounded == ASSUME Windable PROVE Spec => []WindupBounded
<1>1. IInv /\ WindInv => WindupBounded
  <2> SUFFICES ASSUME IInv, WindInv PROVE WindupBounded
    OBVIOUS
  <2>1. integral \in Int /\ Within(integral, Most)
    BY GainsAssumption DEF IInv, TypeOK, WindInv
  <2> DEFINE b == MaxCommand + Extent(Forwards) + MaxProp + MaxDeriv + MaxDI + Reach
  <2>2. Most = b /\ b \in Int
    <3>1. /\ MaxCommand \in Nat /\ Extent(Forwards) \in Nat /\ MaxProp \in Nat /\ MaxDeriv \in Nat
          /\ MaxDI \in Nat /\ Reach \in Nat
      BY DerivTypeOK, WindableExtents, TermsWithin, ReachType
    <3> QED
      BY <3>1 DEF Most, Law
  <2>3. WindupBounded <=> Abs(integral) <= b
    BY DEF WindupBounded, Reach
  <2> HIDE DEF b
  <2> QED
    BY <2>1, <2>2, <2>3, AbsIs DEF Within
<1> QED
  BY <1>1, InitInv, NextInv, WindStarts, WindStep, PTL DEF Spec

-----------------------------------------------------------------------------
(***************************************************************************)
(* LQI and LQGI, with a reset() between any two calls.                     *)
(***************************************************************************)

Record == [command : Int, applied : Int, feedforward : Int, recorded : BOOLEAN]

FeedbackTypeOK ==
    /\ law \in [estimated : BOOLEAN, Ki : Int, D : Int]
    /\ record \in Record
    /\ xi \in Int /\ e \in Int /\ held \in Int
    /\ plant \in [x : Int, u : Int, cmd : Int, ff : Int]
    /\ call \in {"predict", "update", "control", "write"}
    /\ due = <<>> \/ \E r \in Int : due = <<r>>
    /\ blind \in BOOLEAN /\ (blind => law.estimated)
    /\ astray \in Nat

\* The error held for the next predict() is what is known of it: nothing before
\* control(), then the reference against the state, unless control() was blind.
ErrorIsHeld ==
    /\ due = <<>> => e = 0
    /\ due # <<>> /\ ~blind => e = due[1] - plant.x
    /\ call \in {"update", "control"} => due = <<>>

\* LQGI knows the feedthrough of the input in force.
FeedIsKnown(applied) == law.estimated /\ ~blind => law.D * applied = law.D * plant.u

\* What predict() will take for the applied input is the input in force, or none where
\* a reset() forgot it; after a control() it is the former, and what predict() will take
\* for the command and the feedforward are the parts it was made of.
RecordIsTrue ==
    call = "predict" =>
        /\ Taken(record).applied \in {0, plant.u}
        /\ record.recorded => Taken(record).applied = plant.u
        /\ FeedIsKnown(Taken(record).applied)
        /\ due # <<>> =>
             /\ Taken(record).applied = plant.u
             /\ record.command + Taken(record).feedforward = Asked

\* A report waits only between the write and the predict() that takes it.
ReportIsTaken == call # "predict" => record.recorded = FALSE

\* The feedthrough in a measurement is that of the input the last predict() took.
FedIsTrue ==
    /\ call \in {"update", "control"} => FeedIsKnown(record.applied)
    /\ call = "control" /\ ~blind =>
         held = plant.x + (IF law.estimated THEN law.D * plant.u ELSE 0)

CommandIsKnown ==
    call = "write" =>
        /\ due = <<>> => record.command = 0 /\ (law.estimated /\ ~blind => law.D = 0)
        /\ due # <<>> => record.command = plant.cmd

FeedbackInv ==
    /\ FeedbackTypeOK /\ ErrorIsHeld /\ RecordIsTrue
    /\ ReportIsTaken /\ FedIsTrue /\ CommandIsKnown

-----------------------------------------------------------------------------
(* The record.                                                             *)

LEMMA TakenIs ==
    ASSUME NEW rec \in Record
    PROVE  /\ Taken(rec) \in Record
           /\ Taken(rec).command = rec.command
           /\ Taken(rec).recorded = FALSE
           /\ rec.recorded = TRUE => Taken(rec).applied = rec.applied
                                     /\ Taken(rec).feedforward = rec.feedforward
           /\ rec.recorded = FALSE => Taken(rec).applied = rec.command
                                      /\ Taken(rec).feedforward = 0
<1>1. CASE rec.recorded = TRUE
  <2>1. Taken(rec) = [command |-> rec.command, applied |-> rec.applied,
                      feedforward |-> rec.feedforward, recorded |-> FALSE]
    BY <1>1 DEF Taken, Record
  <2>2. rec.command \in Int /\ rec.applied \in Int /\ rec.feedforward \in Int
    BY DEF Record
  <2>3. Taken(rec) \in Record
    BY <2>1, <2>2 DEF Record
  <2>4. /\ Taken(rec).command = rec.command /\ Taken(rec).recorded = FALSE
        /\ Taken(rec).applied = rec.applied /\ Taken(rec).feedforward = rec.feedforward
    BY <2>1
  <2>5. rec.recorded # FALSE
    BY <1>1
  <2> QED
    BY <2>3, <2>4, <2>5
<1>2. CASE rec.recorded = FALSE
  <2>1. Taken(rec) = [command |-> rec.command, applied |-> rec.command,
                      feedforward |-> 0, recorded |-> FALSE]
    BY <1>2 DEF Taken, Record
  <2>2. rec.command \in Int
    BY DEF Record
  <2>3. Taken(rec) \in Record
    BY <2>1, <2>2 DEF Record
  <2>4. /\ Taken(rec).command = rec.command /\ Taken(rec).recorded = FALSE
        /\ Taken(rec).applied = rec.command /\ Taken(rec).feedforward = 0
    BY <2>1
  <2>5. rec.recorded # TRUE
    BY <1>2
  <2> QED
    BY <2>3, <2>4, <2>5
<1> QED
  BY <1>1, <1>2 DEF Record

LEMMA RecordedIs ==
    ASSUME NEW rec \in Record, NEW u \in Int, NEW ff \in Int
    PROVE  /\ Recorded(rec, u, ff) \in Record
           /\ Recorded(rec, u, ff).command = rec.command
           /\ Recorded(rec, u, ff).applied = u
           /\ Recorded(rec, u, ff).feedforward = ff
           /\ Recorded(rec, u, ff).recorded = TRUE
  BY DEF Record, Recorded

LEMMA ForgottenIs ==
    /\ Forgotten \in Record
    /\ Forgotten.applied = 0 /\ Forgotten.command = 0 /\ Forgotten.feedforward = 0
    /\ Forgotten.recorded = FALSE
  BY DEF Record, Forgotten

LEMMA SaturatedIs ==
    ASSUME NEW v \in Int, NEW lo \in Int, NEW hi \in Int
    PROVE  Saturated(v, lo, hi) \in Int
  BY DEF Saturated

-----------------------------------------------------------------------------
(* The invariant.                                                          *)

LEMMA FeedbackInitInv == FeedbackInit => FeedbackInv
<1> SUFFICES ASSUME FeedbackInit PROVE FeedbackInv
  OBVIOUS
<1>1. law \in [estimated : BOOLEAN, Ki : Int, D : Int]
  BY FeedbackAssumption DEF FeedbackInit
<1>2. plant = [x |-> 0, u |-> 0, cmd |-> 0, ff |-> 0] /\ record = Forgotten
  BY DEF FeedbackInit
<1>3. plant \in [x : Int, u : Int, cmd : Int, ff : Int] /\ plant.x = 0 /\ plant.u = 0
  BY <1>2
<1>4. FeedbackTypeOK
  BY <1>1, <1>2, <1>3, ForgottenIs DEF FeedbackInit, FeedbackTypeOK
<1>5. Taken(record).applied = 0 /\ record.applied = 0 /\ record.recorded = FALSE
  BY <1>2, ForgottenIs, TakenIs
<1>6. law.D * 0 = 0
  BY <1>1
<1>7. ErrorIsHeld /\ CommandIsKnown
  BY DEF FeedbackInit, ErrorIsHeld, CommandIsKnown
<1>8. RecordIsTrue /\ FedIsTrue /\ ReportIsTaken
  BY <1>3, <1>5, <1>6
     DEF FeedbackInit, RecordIsTrue, FedIsTrue, ReportIsTaken, FeedIsKnown
<1> QED
  BY <1>4, <1>7, <1>8 DEF FeedbackInv

LEMMA TakingIs ==
    ASSUME FeedbackTypeOK
    PROVE  Taking \in Int /\ TrueError \in Int /\ Abs(Taking - TrueError) \in Nat
<1>1. /\ e \in Int /\ law.D \in Int /\ Taken(record).applied \in Int
      /\ plant.x \in Int /\ plant.u \in Int
  BY TakenIs DEF FeedbackTypeOK, Record
<1>2. law.D * Taken(record).applied \in Int /\ law.D * plant.u \in Int
  BY <1>1
<1>3. Taking \in Int
  BY <1>1, <1>2 DEF Taking
<1>4. TrueError \in Int
  <2>1. CASE due = <<>>
    BY <2>1 DEF TrueError
  <2>2. CASE due # <<>>
    <3>1. PICK r \in Int : due = <<r>>
      BY <2>2 DEF FeedbackTypeOK
    <3>2. TrueError = r - (plant.x + law.D * plant.u)
      BY <2>2, <3>1 DEF TrueError
    <3> QED
      BY <1>1, <1>2, <3>2
  <2> QED
    BY <2>1, <2>2
<1>5. Taking - TrueError \in Int
  BY <1>3, <1>4
<1> QED
  BY <1>3, <1>4, <1>5 DEF Abs

LEMMA FeedbackPredictInv == ASSUME FeedbackInv, FeedbackPredict PROVE FeedbackInv'
<1>1. /\ record \in Record /\ record' = Taken(record) /\ record' \in Record
      /\ xi \in Int /\ Taking \in Int /\ Abs(Taking - TrueError) \in Nat /\ astray \in Nat
  BY TakenIs, TakingIs DEF FeedbackPredict, FeedbackInv, FeedbackTypeOK
<1>2. /\ call = "predict" /\ call' = "update" /\ due' = <<>> /\ e' = 0
      /\ UNCHANGED <<law, held, plant>>
      /\ blind' = (blind /\ due = <<>> /\ ~record.recorded)
  BY DEF FeedbackPredict
<1>3. xi' \in Int
  BY <1>1 DEF FeedbackPredict
<1>4. astray' \in Nat
  <2>1. astray' = astray \/ astray' = astray + Abs(Taking - TrueError)
    BY DEF FeedbackPredict
  <2> QED
    BY <1>1, <2>1
<1>5. FeedbackTypeOK'
  BY <1>1, <1>2, <1>3, <1>4 DEF FeedbackInv, FeedbackTypeOK
<1>6. ErrorIsHeld'
  BY <1>2 DEF ErrorIsHeld
<1>7. FeedIsKnown(record.applied)'
  <2> SUFFICES ASSUME law.estimated, ~blind'
               PROVE  law.D * Taken(record).applied = law.D * plant.u
    BY <1>1, <1>2 DEF FeedIsKnown
  <2>1. ~blind \/ due # <<>> \/ record.recorded
    BY <1>2
  <2> QED
    BY <1>2, <2>1 DEF FeedbackInv, RecordIsTrue, FeedIsKnown
<1>8. FedIsTrue' /\ ReportIsTaken'
  BY <1>1, <1>2, <1>7, TakenIs DEF FedIsTrue, ReportIsTaken
<1> QED
  BY <1>2, <1>5, <1>6, <1>8 DEF FeedbackInv, RecordIsTrue, CommandIsKnown

LEMMA FeedbackUpdateInv == ASSUME FeedbackInv, FeedbackUpdate PROVE FeedbackInv'
<1> USE DEF FeedbackUpdate
<1>1. PICK x \in States :
        /\ plant' = [plant EXCEPT !.x = x]
        /\ held' = x + (IF law.estimated THEN law.D * plant.u ELSE 0)
  OBVIOUS
<1>2. /\ x \in Int /\ law.D \in Int /\ law.estimated \in BOOLEAN
      /\ plant \in [x : Int, u : Int, cmd : Int, ff : Int]
  BY FeedbackAssumption, ActuatorAssumption DEF FeedbackInv, FeedbackTypeOK
<1>3. /\ plant' \in [x : Int, u : Int, cmd : Int, ff : Int]
      /\ plant'.x = x /\ plant'.u = plant.u /\ law.D * plant.u \in Int
  BY <1>1, <1>2
<1>4. held' \in Int
  BY <1>1, <1>2, <1>3
<1>5. FeedbackTypeOK'
  BY <1>3, <1>4 DEF FeedbackInv, FeedbackTypeOK
<1>6. due = <<>> /\ e = 0
  BY DEF FeedbackInv, ErrorIsHeld
<1>7. ErrorIsHeld'
  BY <1>6 DEF ErrorIsHeld
<1>8. FedIsTrue'
  <2>1. record.applied \in Int /\ plant.u \in Int
    BY <1>2 DEF FeedbackInv, FeedbackTypeOK, Record
  <2>2. law.D = 0 => law.D * record.applied = law.D * plant.u
    BY <2>1
  <2>3. FeedIsKnown(record.applied)'
    BY <1>3, <2>2 DEF FeedbackInv, FedIsTrue, FeedIsKnown
  <2> QED
    BY <1>1, <1>3, <2>3 DEF FedIsTrue
<1>9. ReportIsTaken'
  BY DEF FeedbackInv, ReportIsTaken
<1> QED
  BY <1>5, <1>7, <1>8, <1>9 DEF FeedbackInv, RecordIsTrue, CommandIsKnown

LEMMA FeedbackControlInv == ASSUME FeedbackInv, FeedbackControl PROVE FeedbackInv'
<1> USE DEF FeedbackControl
<1>1. PICK r \in Targets, x \in (IF law.estimated THEN States ELSE {held}) :
        /\ record' = [record EXCEPT !.command = -x - law.Ki * xi]
        /\ e' = r - held + Fed
        /\ due' = <<r>>
  OBVIOUS
<1>2. /\ law.estimated \in BOOLEAN /\ law.Ki \in Int /\ law.D \in Int
      /\ xi \in Int /\ held \in Int /\ x \in Int /\ r \in Int
      /\ record \in Record /\ plant \in [x : Int, u : Int, cmd : Int, ff : Int]
  BY FeedbackAssumption, ActuatorAssumption DEF FeedbackInv, FeedbackTypeOK
<1>3. -x - law.Ki * xi \in Int /\ law.D * plant.u \in Int
  BY <1>2
<1>4. record' \in Record /\ record'.recorded = record.recorded /\ record'.command \in Int
  BY <1>1, <1>2, <1>3 DEF Record
<1>5. /\ plant' \in [x : Int, u : Int, cmd : Int, ff : Int]
      /\ plant'.x = plant.x /\ plant'.cmd = record'.command
  BY <1>2, <1>4
<1>6. ~blind => e' = r - plant.x
  <2> SUFFICES ASSUME ~blind PROVE e' = r - plant.x
    OBVIOUS
  <2>1. /\ law.estimated => law.D * record.applied = law.D * plant.u
        /\ held = plant.x + (IF law.estimated THEN law.D * plant.u ELSE 0)
    BY DEF FeedbackInv, FedIsTrue, FeedIsKnown
  <2>2. Fed = IF law.estimated THEN law.D * plant.u ELSE 0
    BY <2>1 DEF Fed
  <2>3. plant.x \in Int
    BY <1>2
  <2> QED
    BY <1>1, <1>2, <1>3, <2>1, <2>2, <2>3
<1>7. e' \in Int
  <2>1. record.applied \in Int
    BY <1>2 DEF Record
  <2>2. law.D * record.applied \in Int
    BY <1>2, <2>1
  <2>3. Fed \in Int
    BY <2>2 DEF Fed
  <2> QED
    BY <1>1, <1>2, <2>3
<1>8. FeedbackTypeOK'
  BY <1>1, <1>2, <1>4, <1>5, <1>7 DEF FeedbackInv, FeedbackTypeOK
<1>9. ErrorIsHeld'
  BY <1>1, <1>5, <1>6 DEF ErrorIsHeld
<1>10. ReportIsTaken' /\ CommandIsKnown'
  BY <1>1, <1>4, <1>5 DEF FeedbackInv, ReportIsTaken, CommandIsKnown
<1> QED
  BY <1>8, <1>9, <1>10 DEF FeedbackInv, RecordIsTrue, FedIsTrue

LEMMA FeedbackWriteInv == ASSUME FeedbackInv, FeedbackWrite PROVE FeedbackInv'
<1>0. /\ call = "write" /\ call' = "predict"
      /\ UNCHANGED <<law, xi, e, held, due, blind, astray>>
  BY DEF FeedbackWrite
<1>1. PICK u_ff \in Added : \E u \in Driven(u_ff) :
        /\ plant' = [plant EXCEPT !.u = u, !.ff = u_ff]
        /\ \/ record' = Recorded(record, u, u_ff)
           \/ u = plant.cmd /\ u_ff = 0 /\ UNCHANGED record
  BY Zenon DEF FeedbackWrite
<1>a. PICK u \in Driven(u_ff) :
        /\ plant' = [plant EXCEPT !.u = u, !.ff = u_ff]
        /\ \/ record' = Recorded(record, u, u_ff)
           \/ u = plant.cmd /\ u_ff = 0 /\ UNCHANGED record
  BY <1>1
<1>2. /\ u_ff \in Int /\ ActLo \in Int /\ ActHi \in Int /\ law.D \in Int
      /\ record \in Record /\ plant \in [x : Int, u : Int, cmd : Int, ff : Int]
  BY FeedbackAssumption, ActuatorAssumption DEF FeedbackInv, FeedbackTypeOK
<1>3. u \in Int
  <2>1. plant.cmd + u_ff \in Int
    BY <1>2
  <2>2. Saturated(plant.cmd + u_ff, ActLo, ActHi) \in Int
    BY <1>2, <2>1, SaturatedIs
  <2> QED
    BY <2>2, ActuatorAssumption DEF Driven
<1>4. /\ plant' \in [x : Int, u : Int, cmd : Int, ff : Int]
      /\ plant'.x = plant.x /\ plant'.cmd = plant.cmd /\ plant'.ff = u_ff
      /\ plant'.u = u /\ plant.cmd \in Int
  BY <1>a, <1>2, <1>3
<1>5. record' \in Record /\ record'.command = record.command
  <2>1. CASE record' = Recorded(record, u, u_ff)
    <3>1. u \in Int /\ u_ff \in Int /\ record \in Record
      BY <1>2, <1>3
    <3> QED
      BY <2>1, <3>1, RecordedIs
  <2>2. CASE UNCHANGED record
    BY <1>2, <2>2
  <2> QED
    BY <1>a, <2>1, <2>2
<1>6. FeedbackTypeOK'
  BY <1>0, <1>4, <1>5 DEF FeedbackInv, FeedbackTypeOK
<1>7. ErrorIsHeld'
  BY <1>0, <1>4 DEF FeedbackInv, ErrorIsHeld
<1>8. due # <<>> => /\ Taken(record').applied = plant'.u
                   /\ record'.command + Taken(record').feedforward = plant'.cmd + plant'.ff
  <2> SUFFICES ASSUME due # <<>>
               PROVE  /\ Taken(record').applied = plant'.u
                      /\ record'.command + Taken(record').feedforward = plant'.cmd + plant'.ff
    OBVIOUS
  <2>1. record.command = plant.cmd /\ record.recorded = FALSE
    BY <1>0 DEF FeedbackInv, CommandIsKnown, ReportIsTaken
  <2>2. CASE record' = Recorded(record, u, u_ff)
    <3>1. u \in Int /\ u_ff \in Int /\ record \in Record
      BY <1>2, <1>3
    <3>2. /\ record'.applied = u /\ record'.feedforward = u_ff
          /\ record'.recorded = TRUE
      BY <2>2, <3>1, RecordedIs
    <3>3. Taken(record').applied = u /\ Taken(record').feedforward = u_ff
      BY <1>5, <3>2, TakenIs
    <3> QED
      BY <1>4, <1>5, <2>1, <3>3
  <2>3. CASE u = plant.cmd /\ u_ff = 0 /\ UNCHANGED record
    BY <1>2, <1>4, <2>1, <2>3, TakenIs
  <2> QED
    BY <1>a, <2>2, <2>3
<1>9. /\ record'.recorded => Taken(record').applied = plant'.u
      /\ due = <<>> => Taken(record').applied \in {0, plant'.u}
  <2>1. CASE record' = Recorded(record, u, u_ff)
    <3>1. u \in Int /\ u_ff \in Int /\ record \in Record
      BY <1>2, <1>3
    <3>2. record'.applied = u /\ record'.recorded = TRUE
      BY <2>1, <3>1, RecordedIs
    <3>3. Taken(record').applied = plant'.u
      BY <1>4, <1>5, <3>2, TakenIs
    <3> QED
      BY <3>3
  <2>2. CASE UNCHANGED record
    <3>1. record'.recorded = FALSE /\ (due = <<>> => record.command = 0)
      BY <1>0, <2>2 DEF FeedbackInv, ReportIsTaken, CommandIsKnown
    <3>2. Taken(record').applied = record.command
      BY <1>5, <3>1, TakenIs
    <3> QED
      BY <3>1, <3>2
  <2> QED
    BY <1>a, <2>1, <2>2
<1>10. Taken(record').applied \in Int
  BY <1>5, TakenIs DEF Record
<1>11. FeedIsKnown(Taken(record).applied)'
  <2> SUFFICES ASSUME law.estimated, ~blind
               PROVE  law.D * Taken(record').applied = law.D * plant'.u
    BY <1>0 DEF FeedIsKnown
  <2>1. CASE due = <<>>
    <3>1. law.D = 0
      BY <1>0, <2>1 DEF FeedbackInv, CommandIsKnown
    <3> QED
      BY <1>4, <1>10, <3>1
  <2>2. CASE due # <<>>
    BY <1>8, <2>2
  <2> QED
    BY <2>1, <2>2
<1>12. RecordIsTrue'
  BY <1>0, <1>8, <1>9, <1>11 DEF RecordIsTrue, Asked
<1> QED
  BY <1>0, <1>6, <1>7, <1>12 DEF FeedbackInv, ReportIsTaken, FedIsTrue, CommandIsKnown

LEMMA FeedbackManualInv == ASSUME FeedbackInv, FeedbackManual PROVE FeedbackInv'
<1>1. PICK u \in Manuals :
        /\ law.D * u = 0 \/ astray <= MaxAstray
        /\ plant' = [plant EXCEPT !.u = u, !.cmd = u, !.ff = 0]
        /\ record' = Recorded(record, u, 0)
  BY Zenon DEF FeedbackManual
<1>2. u \in Int /\ record \in Record /\ plant \in [x : Int, u : Int, cmd : Int, ff : Int]
  BY FeedbackAssumption, ActuatorAssumption DEF FeedbackInv, FeedbackTypeOK
<1>3. /\ plant' \in [x : Int, u : Int, cmd : Int, ff : Int]
      /\ plant'.u = u
  <2>1. plant' = [x |-> plant.x, u |-> u, cmd |-> u, ff |-> 0] /\ plant.x \in Int
    BY <1>1, <1>2
  <2> QED
    BY <1>2, <2>1
<1>4. record' \in Record /\ Taken(record').applied = u
  <2>1. record' \in Record /\ record'.applied = u /\ record'.recorded = TRUE
    <3>1. 0 \in Int
      OBVIOUS
    <3>2. record' = Recorded(record, u, 0)
      BY <1>1
    <3> QED
      BY <1>2, <3>1, <3>2, RecordedIs
  <2> QED
    BY <2>1, TakenIs
<1>5. FeedbackTypeOK'
  BY <1>3, <1>4 DEF FeedbackManual, FeedbackInv, FeedbackTypeOK
<1>6. due = <<>> /\ e = 0
  BY DEF FeedbackManual, FeedbackInv, ErrorIsHeld
<1>7. ErrorIsHeld' /\ RecordIsTrue'
  BY <1>1, <1>3, <1>4, <1>6 DEF FeedbackManual, ErrorIsHeld, RecordIsTrue, FeedIsKnown
<1> QED
  BY <1>5, <1>7 DEF FeedbackManual, FeedbackInv, ReportIsTaken, FedIsTrue, CommandIsKnown

LEMMA FeedbackResetInv == ASSUME FeedbackInv, FeedbackReset PROVE FeedbackInv'
<1>1. /\ law \in [estimated : BOOLEAN, Ki : Int, D : Int] /\ law.D \in Int /\ plant.u \in Int
      /\ law.D * 0 = 0
  BY DEF FeedbackInv, FeedbackTypeOK
<1>2. /\ record' = Forgotten /\ due' = <<>> /\ e' = 0 /\ xi' = 0 /\ astray' = 0
      /\ blind' = (blind \/ ReadsAhead) /\ UNCHANGED <<law, plant, call>>
      /\ held' = IF law.estimated THEN 0 ELSE held
  BY DEF FeedbackReset
<1>3. /\ record' \in Record /\ record'.applied = 0 /\ record'.recorded = FALSE
      /\ record'.command = 0 /\ Taken(record').applied = 0
  BY <1>2, ForgottenIs, TakenIs
<1>4. blind' \in BOOLEAN /\ (blind' => law.estimated)
  BY <1>2 DEF FeedbackInv, FeedbackTypeOK, ReadsAhead
<1>5. FeedbackTypeOK'
  BY <1>1, <1>2, <1>3, <1>4 DEF FeedbackInv, FeedbackTypeOK
<1>6. law.estimated /\ ~blind' => call # "control" /\ law.D * 0 = law.D * plant.u
                                 /\ (call = "write" => law.D = 0)
  <2> SUFFICES ASSUME law.estimated, ~blind'
               PROVE  call # "control" /\ law.D * 0 = law.D * plant.u
                        /\ (call = "write" => law.D = 0)
    OBVIOUS
  <2>1. call # "control" /\ (law.D = 0 \/ (plant.u = 0 /\ call # "write"))
    BY <1>2 DEF ReadsAhead
  <2> QED
    BY <1>1, <2>1
<1>7. ErrorIsHeld' /\ ReportIsTaken'
  BY <1>2, <1>3 DEF ErrorIsHeld, ReportIsTaken
<1>8. RecordIsTrue'
  BY <1>2, <1>3, <1>6 DEF RecordIsTrue, FeedIsKnown
<1>9. FedIsTrue'
  <2>1. call = "control" /\ ~blind' => ~law.estimated /\ ~blind
    BY <1>2, <1>6
  <2>2. call = "control" /\ ~blind' => held' = plant.x + 0
    BY <1>2, <2>1 DEF FeedbackInv, FedIsTrue
  <2> QED
    BY <1>2, <1>3, <1>6, <2>1, <2>2 DEF FedIsTrue, FeedIsKnown
<1>10. CommandIsKnown'
  BY <1>2, <1>3, <1>6 DEF CommandIsKnown
<1> QED
  BY <1>5, <1>7, <1>8, <1>9, <1>10 DEF FeedbackInv

LEMMA FeedbackNextInv == FeedbackInv /\ [FeedbackNext]_feedbackVars => FeedbackInv'
<1> SUFFICES ASSUME FeedbackInv, [FeedbackNext]_feedbackVars PROVE FeedbackInv'
  OBVIOUS
<1>1. CASE UNCHANGED feedbackVars
  BY <1>1 DEF feedbackVars, FeedbackInv, FeedbackTypeOK, ErrorIsHeld, RecordIsTrue, ReportIsTaken, FedIsTrue,
              FeedIsKnown, CommandIsKnown, Asked
<1> QED
  BY <1>1, FeedbackPredictInv, FeedbackUpdateInv, FeedbackControlInv, FeedbackWriteInv, FeedbackManualInv, FeedbackResetInv DEF FeedbackNext

\* The law, its record and the loop around it keep their types, for every design,
\* actuator and plant in the integers.
THEOREM FeedbackTypeCorrect == FeedbackSpec => []FeedbackTypeOK
<1>1. FeedbackInv => FeedbackTypeOK
  BY DEF FeedbackInv
<1> QED
  BY <1>1, FeedbackInitInv, FeedbackNextInv, PTL DEF FeedbackSpec

-----------------------------------------------------------------------------
(* The integrator.                                                         *)

\* After a control() the record is that of the input in force, so the clamp is judged
\* truly; and unless it was blind, the error taken is the true one.
LEMMA PredictTakesTheError ==
    ASSUME FeedbackInv, FeedbackPredict, due # <<>>
    PROVE  /\ Integrated(Taking)
           /\ ~blind => Taking = TrueError
<1>1. /\ record \in Record /\ record' = Taken(record)
      /\ xi' = IF WindsUp(record', Taking) THEN xi ELSE xi + Taking
  BY DEF FeedbackPredict, FeedbackInv, FeedbackTypeOK
<1>2. /\ record'.applied = plant.u
      /\ record'.command + record'.feedforward = Asked
  BY <1>1, TakenIs DEF FeedbackInv, RecordIsTrue, FeedbackPredict
<1>3. WindsUp(record', Taking) <=> law.Ki * Taking * (plant.u - Asked) > 0
  BY <1>2 DEF WindsUp
<1>4. ASSUME ~blind PROVE Taking = TrueError
  <2>1. PICK r \in Int : due = <<r>>
    BY DEF FeedbackInv, FeedbackTypeOK
  <2>2. /\ law.D \in Int /\ plant.x \in Int /\ plant.u \in Int
    BY DEF FeedbackInv, FeedbackTypeOK
  <2>3. law.D * plant.u \in Int
    BY <2>2
  <2>4. e = r - plant.x
    BY <1>4, <2>1 DEF FeedbackInv, ErrorIsHeld
  <2>5. Taking = e - law.D * plant.u
    BY <1>1, <1>2 DEF Taking
  <2>6. TrueError = r - (plant.x + law.D * plant.u)
    BY <2>1 DEF TrueError
  <2> QED
    BY <2>1, <2>2, <2>3, <2>4, <2>5, <2>6
<1> QED
  BY <1>1, <1>3, <1>4 DEF Integrated

\* Without a control() there is nothing to take but a feedthrough.
LEMMA PredictTakesNoError ==
    ASSUME FeedbackInv, FeedbackPredict, due = <<>>
    PROVE  xi' \in {xi, xi - law.D * plant.u}
<1>1. /\ law.D \in Int /\ plant.u \in Int /\ xi \in Int
  BY DEF FeedbackInv, FeedbackTypeOK
<1>2. law.D * plant.u \in Int /\ law.D * 0 = 0
  BY <1>1
<1>3. Taken(record).applied \in {0, plant.u} /\ e = 0
  BY DEF FeedbackInv, RecordIsTrue, ErrorIsHeld, FeedbackPredict
<1>4. Taking = 0 \/ Taking = 0 - law.D * plant.u
  BY <1>2, <1>3 DEF Taking
<1>5. xi' \in {xi, xi + Taking}
  BY DEF FeedbackPredict
<1> QED
  BY <1>1, <1>2, <1>4, <1>5

\* A tick with a control() moves the integrator by exactly its true error, for every
\* gain, feedthrough, actuator and plant, whoever drives it, whichever reports are left
\* out and wherever reset() comes, but for the sample or the input it takes from LQGI; a
\* tick without one moves it by a feedthrough at most.
THEOREM ErrorsAreTrue == FeedbackSpec => IntegralIsTrue
<1>1. FeedbackInv => [FeedbackPredict =>
         /\ due # <<>> /\ ~blind => Integrated(TrueError)
         /\ due = <<>> => xi' \in {xi, xi - law.D * plant.u}]_feedbackVars
  <2> SUFFICES ASSUME FeedbackInv, FeedbackPredict
               PROVE  /\ due # <<>> /\ ~blind => Integrated(TrueError)
                      /\ due = <<>> => xi' \in {xi, xi - law.D * plant.u}
    OBVIOUS
  <2>1. due # <<>> /\ ~blind => Integrated(TrueError)
    BY PredictTakesTheError DEF Integrated
  <2>2. due = <<>> => xi' \in {xi, xi - law.D * plant.u}
    BY PredictTakesNoError
  <2> QED
    BY <2>1, <2>2
<1> QED
  BY <1>1, FeedbackInitInv, FeedbackNextInv, PTL DEF FeedbackSpec, IntegralIsTrue

-----------------------------------------------------------------------------
(* The integrator of LQI and LQGI is bounded.                              *)

\* Finitely many states, references and inputs; and a gain on xi, without which nothing
\* takes the integral back.
Integrable ==
    /\ 0 \notin Gains
    /\ IsFiniteSet(States) /\ States # {} /\ IsFiniteSet(Targets) /\ Targets # {}
    /\ IsFiniteSet(Added) /\ Added # {} /\ IsFiniteSet(Manuals)
    /\ IsFiniteSet(Feedthroughs) /\ Feedthroughs # {}

MaxInput == Extent({ActLo, ActHi} \cup Manuals)
MaxError == Extent(Targets) + Extent(States) + Extent(Feedthroughs) * MaxInput

LEMMA IntegrableExtents ==
    ASSUME Integrable
    PROVE  /\ MaxInput \in Nat /\ Extent(States) \in Nat /\ Extent(Targets) \in Nat
           /\ Extent(Added) \in Nat /\ Extent(Feedthroughs) \in Nat /\ MaxError \in Nat
           /\ Within(ActLo, MaxInput) /\ Within(ActHi, MaxInput)
           /\ \A u \in Manuals : Within(u, MaxInput)
           /\ \A x \in States : Within(x, Extent(States))
           /\ \A r \in Targets : Within(r, Extent(Targets))
           /\ \A u \in Added : Within(u, Extent(Added))
           /\ \A d \in Feedthroughs : Within(d, Extent(Feedthroughs))
<1> DEFINE U == {ActLo, ActHi} \cup Manuals
<1>1. U \subseteq Int /\ U # {} /\ ActLo \in U /\ ActHi \in U /\ Manuals \subseteq U
  BY ActuatorAssumption
<1>2. IsFiniteSet(U)
  <2>1. IsFiniteSet({} \cup {ActLo})
    BY FS_EmptySet, FS_AddElement
  <2>2. IsFiniteSet(({} \cup {ActLo}) \cup {ActHi})
    BY <2>1, FS_AddElement
  <2>3. IsFiniteSet((({} \cup {ActLo}) \cup {ActHi}) \cup Manuals)
    BY <2>2, FS_Union DEF Integrable
  <2>4. U = (({} \cup {ActLo}) \cup {ActHi}) \cup Manuals
    OBVIOUS
  <2> QED
    BY <2>3, <2>4
<1>3. Extent(U) \in Nat /\ \A u \in U : Within(u, Extent(U))
  <2> HIDE DEF U
  <2> QED
    BY <1>1, <1>2, ExtentIs DEF Within
<1>4. MaxInput = Extent(U)
  BY DEF MaxInput
<1>5. /\ MaxInput \in Nat /\ Within(ActLo, MaxInput) /\ Within(ActHi, MaxInput)
      /\ \A u \in Manuals : Within(u, MaxInput)
  BY <1>1, <1>3, <1>4
<1>6. /\ Extent(States) \in Nat /\ Extent(Targets) \in Nat
      /\ Extent(Added) \in Nat /\ Extent(Feedthroughs) \in Nat
  BY ExtentIs, FeedbackAssumption, ActuatorAssumption DEF Integrable
<1>7. \A x \in States : Within(x, Extent(States))
  BY ExtentIs, FeedbackAssumption DEF Integrable, Within
<1>8. \A r \in Targets : Within(r, Extent(Targets))
  BY ExtentIs, FeedbackAssumption DEF Integrable, Within
<1>9. \A u \in Added : Within(u, Extent(Added))
  BY ExtentIs, ActuatorAssumption DEF Integrable, Within
<1>10. \A d \in Feedthroughs : Within(d, Extent(Feedthroughs))
  BY ExtentIs, FeedbackAssumption DEF Integrable, Within
<1>11. MaxError \in Nat
  <2>1. ASSUME NEW a \in Nat, NEW b \in Nat, NEW c \in Nat, NEW d \in Nat
        PROVE  a + b + c * d \in Nat
    <3>1. c * d \in Nat
      OBVIOUS
    <3> QED
      BY <3>1
  <2> QED
    BY <1>5, <1>6, <2>1 DEF MaxError
<1> QED
  BY <1>5, <1>6, <1>7, <1>8, <1>9, <1>10, <1>11

\* The invariant: the plant's input and state are bounded, and the command in force
\* was made of some state and the integral as it still is.
PlantWithin ==
    /\ Within(plant.u, MaxInput) /\ Within(plant.x, Extent(States))
    /\ law.Ki \in Gains /\ law.D \in Feedthroughs
    /\ due = <<>> \/ \E r \in Targets : due = <<r>>

CommandMadeOf ==
    call \in {"write", "predict"} /\ due # <<>> =>
        \E x \in Int : Within(x, Extent(States)) /\ plant.cmd = -x - law.Ki * xi

FeedforwardWithin == call = "predict" /\ due # <<>> => Within(plant.ff, Extent(Added))

BoundedInv == PlantWithin /\ CommandMadeOf /\ FeedforwardWithin /\ IntegralBounded

\* Beyond what clamp, state and feedforward explain, an error of the integral's own sign
\* would drive the command further into the clamp.
LEMMA HoldsAbove ==
    ASSUME NEW K \in Int, K # 0, NEW i \in Int, NEW x \in Int, NEW ff \in Int, NEW u \in Int,
           NEW err \in Int, NEW U \in Nat, NEW X \in Nat, NEW F \in Nat,
           Within(u, U), Within(x, X), Within(ff, F), i > U + X + F, err > 0
    PROVE  K * err * (u - ((-x - K * i) + ff)) > 0
<1> DEFINE p == K * i
           q == K * err
           d == u - ((-x - p) + ff)
<1>1. i \in Nat /\ i > 0
  OBVIOUS
<1>2. ASSUME NEW a \in Int, NEW b \in Int, a > 0, b > 0 PROVE a * b > 0
  BY <1>2
<1>3. ASSUME NEW a \in Int, NEW b \in Int, a < 0, b < 0 PROVE a * b > 0
  BY <1>3
<1>4. p \in Int /\ q \in Int
  OBVIOUS
<1>5. CASE K > 0
  <2>1. p >= i
    BY <1>1, <1>5
  <2>2. q > 0
    BY <1>2, <1>5
  <2> HIDE DEF p, q
  <2>3. d \in Int /\ d > 0
    BY <1>4, <2>1 DEF Within
  <2> HIDE DEF d
  <2>4. q * d > 0
    BY <1>2, <1>4, <2>2, <2>3
  <2> QED
    BY <2>4 DEF p, q, d
<1>6. CASE K < 0
  <2>1. p <= -i
    BY <1>1, <1>6
  <2>2. q < 0
    BY <1>6
  <2> HIDE DEF p, q
  <2>3. d \in Int /\ d < 0
    BY <1>4, <2>1 DEF Within
  <2> HIDE DEF d
  <2>4. q * d > 0
    BY <1>3, <1>4, <2>2, <2>3
  <2> QED
    BY <2>4 DEF p, q, d
<1> QED
  BY <1>5, <1>6

LEMMA HoldsBelow ==
    ASSUME NEW K \in Int, K # 0, NEW i \in Int, NEW x \in Int, NEW ff \in Int, NEW u \in Int,
           NEW err \in Int, NEW U \in Nat, NEW X \in Nat, NEW F \in Nat,
           Within(u, U), Within(x, X), Within(ff, F), i < -(U + X + F), err < 0
    PROVE  K * err * (u - ((-x - K * i) + ff)) > 0
<1> DEFINE L == -K
           j == -i
           r == -err
<1>1. L \in Int /\ L # 0 /\ j \in Int /\ j > U + X + F /\ r \in Int /\ r > 0
  OBVIOUS
<1>2. L * j = K * i /\ L * r = K * err
  OBVIOUS
<1> HIDE DEF L, j, r
<1>3. L * r * (u - ((-x - L * j) + ff)) > 0
  BY <1>1, HoldsAbove
<1> QED
  BY <1>2, <1>3

\* The integral j after a tick with integral i, state x, feedforward ff, input u and error err.
Ticked(j, K, i, x, ff, u, err) ==
    j = IF K * err * (u - ((-x - K * i) + ff)) > 0 THEN i ELSE i + err

\* So one tick takes the integral no further than one error beyond.
LEMMA StaysWithin ==
    ASSUME NEW K \in Int, K # 0, NEW i \in Int, NEW x \in Int, NEW ff \in Int, NEW u \in Int,
           NEW err \in Int, NEW U \in Nat, NEW X \in Nat, NEW F \in Nat, NEW E \in Nat,
           Within(u, U), Within(x, X), Within(ff, F), Within(err, E),
           Within(i, U + X + F + E), NEW j \in Int, Ticked(j, K, i, x, ff, u, err)
    PROVE  Within(j, U + X + F + E)
<1>1. CASE i > U + X + F /\ err > 0
  <2>1. K * err * (u - ((-x - K * i) + ff)) > 0
    BY <1>1, HoldsAbove
  <2> QED
    BY <2>1 DEF Ticked
<1>2. CASE i < -(U + X + F) /\ err < 0
  <2>1. K * err * (u - ((-x - K * i) + ff)) > 0
    BY <1>2, HoldsBelow
  <2> QED
    BY <2>1 DEF Ticked
<1>3. CASE ~(i > U + X + F /\ err > 0) /\ ~(i < -(U + X + F) /\ err < 0)
  <2>1. j = i \/ j = i + err
    BY DEF Ticked
  <2> QED
    BY <1>3, <2>1 DEF Within
<1> QED
  BY <1>1, <1>2, <1>3

\* The bound, when the excepted ticks have put the integral off by a.
Bound(a) == MaxInput + Extent(States) + Extent(Added) + (MaxError + a)

LEMMA BoundIs ==
    ASSUME Integrable, NEW i \in Int, NEW a \in Nat
    PROVE  /\ Bound(a) \in Nat
           /\ Abs(i) <= MaxInput + Extent(States) + Extent(Added) + MaxError + a
                <=> Within(i, Bound(a))
<1>1. /\ MaxInput \in Nat /\ Extent(States) \in Nat /\ Extent(Added) \in Nat /\ MaxError \in Nat
  BY IntegrableExtents
<1> DEFINE b == MaxInput + Extent(States) + Extent(Added) + MaxError + a
<1>2. Bound(a) = b /\ b \in Nat
  BY <1>1 DEF Bound
<1> HIDE DEF b
<1>3. Abs(i) <= b <=> Within(i, b)
  BY <1>2, AbsIs DEF Within
<1> QED
  BY <1>2, <1>3 DEF b

\* The bound of IntegralBounded, in these names; and after a step.
LEMMA BoundMeans ==
    ASSUME Integrable, xi \in Int, astray \in Nat
    PROVE  IntegralBounded <=> Within(xi, Bound(astray))
<1>1. IntegralBounded <=>
        Abs(xi) <= MaxInput + Extent(States) + Extent(Added) + MaxError + astray
  BY DEF IntegralBounded, MaxInput, MaxError
<1> QED
  BY <1>1, BoundIs

LEMMA BoundMeansNext ==
    ASSUME Integrable, xi' \in Int, astray' \in Nat
    PROVE  IntegralBounded' <=> Within(xi', Bound(astray'))
<1>1. IntegralBounded' <=>
        Abs(xi') <= MaxInput + Extent(States) + Extent(Added) + MaxError + astray'
  BY DEF IntegralBounded, MaxInput, MaxError
<1> QED
  BY <1>1, BoundIs

\* It allows for whatever else is put astray.
LEMMA BoundGrows ==
    ASSUME Integrable, NEW i \in Int, NEW t \in Int, NEW a \in Nat, NEW d \in Nat,
           Within(i, Bound(a)), Within(t, d)
    PROVE  Within(i + t, Bound(a + d))
<1>1. Bound(a) \in Nat /\ Bound(a + d) = Bound(a) + d
  <2>1. /\ MaxInput \in Nat /\ Extent(States) \in Nat /\ Extent(Added) \in Nat
        /\ MaxError \in Nat
    BY IntegrableExtents
  <2> QED
    BY <2>1 DEF Bound
<1> QED
  BY <1>1 DEF Within

\* A true error is one of some reference, state and input.
LEMMA TrueErrorWithin ==
    ASSUME Integrable, FeedbackInv, BoundedInv
    PROVE  Within(TrueError, MaxError)
<1>1. CASE due = <<>>
  BY <1>1, IntegrableExtents DEF TrueError, Within
<1>2. CASE due # <<>>
  <2>1. PICK r \in Targets : due = <<r>>
    BY <1>2 DEF BoundedInv, PlantWithin
  <2> DEFINE p == law.D * plant.u
             m == Extent(Feedthroughs) * MaxInput
  <2>2. /\ law.D \in Int /\ plant.u \in Int /\ plant.x \in Int /\ r \in Int
    BY FeedbackAssumption DEF FeedbackInv, FeedbackTypeOK
  <2>3. /\ Within(law.D, Extent(Feedthroughs)) /\ Within(r, Extent(Targets))
        /\ Within(plant.x, Extent(States)) /\ Within(plant.u, MaxInput)
    BY IntegrableExtents DEF BoundedInv, PlantWithin
  <2>4. Extent(Feedthroughs) \in Nat /\ MaxInput \in Nat
    BY IntegrableExtents
  <2>5. Within(p, m)
    BY <2>2, <2>3, <2>4, ProductWithin
  <2>6. p \in Int
    BY <2>2
  <2>7. m \in Int
    BY <2>4
  <2>8. TrueError = r - (plant.x + p)
    BY <2>1 DEF TrueError
  <2>9. MaxError = Extent(Targets) + Extent(States) + m
    BY DEF MaxError
  <2>10. Extent(Targets) \in Int /\ Extent(States) \in Int
    BY IntegrableExtents
  <2> HIDE DEF p, m
  <2> QED
    BY <2>2, <2>3, <2>5, <2>6, <2>7, <2>8, <2>9, <2>10 DEF Within
<1> QED
  BY <1>1, <1>2

LEMMA BoundedStarts == ASSUME Integrable PROVE FeedbackInit => BoundedInv
<1> SUFFICES ASSUME FeedbackInit PROVE BoundedInv
  OBVIOUS
<1>1. law.Ki \in Gains /\ law.D \in Feedthroughs
  BY DEF FeedbackInit
<1>2. plant.u = 0 /\ plant.x = 0 /\ due = <<>> /\ xi = 0 /\ astray = 0
  BY DEF FeedbackInit
<1>3. PlantWithin
  BY <1>1, <1>2, IntegrableExtents DEF PlantWithin, Within
<1>4. IntegralBounded
  <2>1. Bound(0) \in Nat
    BY BoundIs
  <2> QED
    BY <1>2, <2>1, BoundMeans DEF Within
<1> QED
  BY <1>2, <1>3, <1>4 DEF BoundedInv, CommandMadeOf, FeedforwardWithin

LEMMA BoundedPredict ==
    ASSUME Integrable, FeedbackInv, FeedbackInv', BoundedInv, FeedbackPredict
    PROVE  BoundedInv'
<1>1. UNCHANGED <<law, plant>> /\ call = "predict" /\ due' = <<>>
  BY DEF FeedbackPredict
<1>2. PlantWithin' /\ CommandMadeOf' /\ FeedforwardWithin'
  BY <1>1 DEF BoundedInv, PlantWithin, CommandMadeOf, FeedforwardWithin
<1>3. xi \in Int /\ xi' \in Int /\ astray \in Nat /\ astray' \in Nat
  BY DEF FeedbackInv, FeedbackTypeOK
<1> DEFINE off == Abs(Taking - TrueError)
<1>4. Taking \in Int /\ TrueError \in Int /\ off \in Nat /\ Within(Taking - TrueError, off)
  <2>1. Taking \in Int /\ TrueError \in Int
    BY TakingIs DEF FeedbackInv
  <2>2. Taking - TrueError \in Int
    BY <2>1
  <2> QED
    BY <2>1, <2>2, AbsIs DEF Within
<1>5. Within(xi, Bound(astray)) /\ Bound(astray) \in Nat
  BY <1>3, BoundMeans, BoundIs DEF BoundedInv
<1>6. \/ xi' = xi /\ astray' = astray
      \/ xi' = xi + Taking /\ astray' = astray + off
      \/ due # <<>> /\ ~blind /\ astray' = astray
  BY DEF FeedbackPredict
<1> HIDE DEF off
<1>7. Within(xi', Bound(astray'))
  <2>1. CASE xi' = xi /\ astray' = astray
    BY <1>5, <2>1
  <2>2. CASE due = <<>> /\ xi' = xi + Taking /\ astray' = astray + off
    <3>1. TrueError = 0
      BY <2>2 DEF TrueError
    <3>2. Within(Taking, off)
      BY <1>4, <3>1
    <3> QED
      BY <1>3, <1>4, <1>5, <2>2, <3>2, BoundGrows
  <2>3. CASE /\ due # <<>>
             /\ \/ xi' = xi + Taking /\ astray' = astray + off
                \/ ~blind /\ astray' = astray
    <3>1. Within(TrueError, MaxError) /\ MaxError \in Nat
      BY TrueErrorWithin, IntegrableExtents
    <3>2. astray <= astray' /\ Within(Taking, MaxError + astray')
      <4>1. CASE astray' = astray + off
        BY <1>3, <1>4, <3>1, <4>1 DEF Within
      <4>2. CASE ~blind /\ astray' = astray
        <5>1. Taking = TrueError
          BY <2>3, <4>2, PredictTakesTheError
        <5> QED
          BY <1>3, <1>4, <3>1, <4>2, <5>1 DEF Within
      <4> QED
        BY <2>3, <4>1, <4>2
    <3>3. PICK x \in Int : Within(x, Extent(States)) /\ plant.cmd = -x - law.Ki * xi
      BY <1>1, <2>3 DEF BoundedInv, CommandMadeOf
    <3>4. law.Ki \in Int /\ plant.u \in Int /\ plant.ff \in Int
      BY DEF FeedbackInv, FeedbackTypeOK
    <3>5. law.Ki # 0
      BY DEF BoundedInv, PlantWithin, Integrable
    <3>6. Within(plant.u, MaxInput) /\ Within(plant.ff, Extent(Added))
      BY <1>1, <2>3 DEF BoundedInv, PlantWithin, FeedforwardWithin
    <3>7. Asked = (-x - law.Ki * xi) + plant.ff
      BY <3>3 DEF Asked
    <3>8. Integrated(Taking)
      BY <2>3, PredictTakesTheError
    <3> DEFINE K == law.Ki
               u == plant.u
               ff == plant.ff
               w == Taking
               U == MaxInput
               X == Extent(States)
               F == Extent(Added)
               E == MaxError + astray'
               i == xi
               j == xi'
    <3>9. Ticked(j, K, i, x, ff, u, w)
      BY <3>7, <3>8 DEF Integrated, Ticked
    <3>10. /\ K \in Int /\ K # 0 /\ u \in Int /\ ff \in Int /\ w \in Int
           /\ i \in Int /\ j \in Int
      BY <1>3, <1>4, <3>4, <3>5
    <3>11. U \in Nat /\ X \in Nat /\ F \in Nat
      BY IntegrableExtents
    <3>12. E \in Nat
      <4> DEFINE a == astray'
      <4>1. a \in Nat /\ MaxError \in Nat
        BY <1>3, IntegrableExtents
      <4>2. MaxError + a \in Nat
        <5> HIDE DEF a
        <5> QED
          BY <4>1
      <4> QED
        BY <4>2
    <3>13. Within(u, U) /\ Within(x, X) /\ Within(ff, F) /\ Within(w, E)
      BY <3>2, <3>3, <3>6
    <3>14. Within(i, U + X + F + E)
      <4>1. Bound(astray) <= U + X + F + E
        BY <1>3, <3>1, <3>2, <3>11 DEF Bound
      <4>2. U + X + F + E \in Int
        BY <3>11, <3>12
      <4> HIDE DEF U, X, F, E
      <4> QED
        BY <1>3, <1>5, <4>1, <4>2 DEF Within
    <3> HIDE DEF K, u, ff, w, U, X, F, E, i, j
    <3>15. Within(j, U + X + F + E)
      BY <3>9, <3>10, <3>11, <3>12, <3>13, <3>14, StaysWithin
    <3> QED
      BY <3>15 DEF Bound, U, X, F, E, j
  <2> QED
    BY <1>6, <2>1, <2>2, <2>3
<1>8. IntegralBounded'
  BY <1>3, <1>7, BoundMeansNext
<1> QED
  BY <1>2, <1>8 DEF BoundedInv

\* A step that keeps the integral keeps its bound.
LEMMA BoundKept ==
    ASSUME IntegralBounded, xi' = xi, astray' = astray
    PROVE  IntegralBounded'
  BY DEF IntegralBounded

LEMMA BoundedUpdate ==
    ASSUME Integrable, FeedbackInv, BoundedInv, FeedbackUpdate
    PROVE  BoundedInv'
<1>1. PICK x \in States : plant' = [plant EXCEPT !.x = x]
  BY DEF FeedbackUpdate
<1>2. call' = "control" /\ UNCHANGED <<law, xi, due, astray>>
  BY DEF FeedbackUpdate
<1>3. plant'.x = x /\ plant'.u = plant.u
  BY <1>1 DEF FeedbackInv, FeedbackTypeOK
<1>4. PlantWithin'
  BY <1>2, <1>3, IntegrableExtents DEF BoundedInv, PlantWithin
<1> QED
  BY <1>2, <1>4, BoundKept DEF BoundedInv, CommandMadeOf, FeedforwardWithin

LEMMA BoundedControl ==
    ASSUME Integrable, FeedbackInv, BoundedInv, FeedbackControl
    PROVE  BoundedInv'
<1>1. PICK r \in Targets, x \in (IF law.estimated THEN States ELSE {held}) :
         record' = [record EXCEPT !.command = -x - law.Ki * xi] /\ due' = <<r>>
  BY DEF FeedbackControl
<1>2. /\ call = "control" /\ call' = "write" /\ UNCHANGED <<law, xi, astray>>
      /\ plant' = [plant EXCEPT !.cmd = record'.command]
  BY DEF FeedbackControl
<1>3. record \in Record /\ plant \in [x : Int, u : Int, cmd : Int, ff : Int]
      /\ law.estimated \in BOOLEAN /\ plant.x \in Int
  BY DEF FeedbackInv, FeedbackTypeOK
<1>4. plant'.cmd = -x - law.Ki * xi
  BY <1>1, <1>2, <1>3 DEF Record
<1>5. plant'.x = plant.x /\ plant'.u = plant.u
  BY <1>2, <1>3
<1>6. x \in Int /\ Within(x, Extent(States))
  <2>1. CASE law.estimated
    BY <1>1, <2>1, IntegrableExtents, FeedbackAssumption
  <2>2. CASE ~law.estimated
    <3>0. ~blind
      BY <2>2 DEF FeedbackInv, FeedbackTypeOK
    <3>1. x = held /\ held = plant.x + 0
      BY <1>1, <1>2, <2>2, <3>0 DEF FeedbackInv, FedIsTrue
    <3>2. x = plant.x
      BY <1>3, <3>1
    <3> QED
      BY <1>3, <3>2 DEF BoundedInv, PlantWithin
  <2> QED
    BY <2>1, <2>2
<1>7. PlantWithin'
  BY <1>1, <1>2, <1>5 DEF BoundedInv, PlantWithin
<1>8. CommandMadeOf'
  BY <1>2, <1>4, <1>6 DEF CommandMadeOf
<1> QED
  BY <1>2, <1>7, <1>8, BoundKept DEF BoundedInv, FeedforwardWithin

LEMMA BoundedWrite ==
    ASSUME Integrable, FeedbackInv, BoundedInv, FeedbackWrite
    PROVE  BoundedInv'
<1>1. PICK u_ff \in Added : \E u \in Driven(u_ff) : plant' = [plant EXCEPT !.u = u, !.ff = u_ff]
  BY Zenon DEF FeedbackWrite
<1>2. PICK u \in Driven(u_ff) : plant' = [plant EXCEPT !.u = u, !.ff = u_ff]
  BY <1>1
<1>3. call = "write" /\ call' = "predict" /\ UNCHANGED <<law, xi, due, astray>>
  BY DEF FeedbackWrite
<1>4. /\ plant'.x = plant.x /\ plant'.cmd = plant.cmd /\ plant'.ff = u_ff /\ plant'.u = u
      /\ plant.cmd \in Int
  BY <1>2 DEF FeedbackInv, FeedbackTypeOK
<1>5. Within(u, MaxInput)
  <2> DEFINE v == plant.cmd + u_ff
  <2>1. v \in Int /\ ActLo \in Int /\ ActHi \in Int
    BY <1>4, ActuatorAssumption
  <2>2. MaxInput \in Nat /\ Within(ActLo, MaxInput) /\ Within(ActHi, MaxInput)
    BY IntegrableExtents
  <2>3. u = Saturated(v, ActLo, ActHi) \/ u \in Manuals
    BY DEF Driven
  <2> HIDE DEF v
  <2>4. Within(Saturated(v, ActLo, ActHi), MaxInput)
    BY <2>1, <2>2 DEF Saturated, Within
  <2> QED
    BY <2>3, <2>4, IntegrableExtents
<1>6. PlantWithin'
  BY <1>3, <1>4, <1>5 DEF BoundedInv, PlantWithin
<1>7. CommandMadeOf'
  BY <1>3, <1>4 DEF BoundedInv, CommandMadeOf
<1>8. FeedforwardWithin'
  BY <1>4, IntegrableExtents DEF FeedforwardWithin
<1> QED
  BY <1>3, <1>6, <1>7, <1>8, BoundKept DEF BoundedInv

LEMMA BoundedManual ==
    ASSUME Integrable, FeedbackInv, BoundedInv, FeedbackManual
    PROVE  BoundedInv'
<1>1. PICK u \in Manuals : plant' = [plant EXCEPT !.u = u, !.cmd = u, !.ff = 0]
  BY Zenon DEF FeedbackManual
<1>2. call = "update" /\ due = <<>> /\ UNCHANGED <<law, xi, due, astray>>
  BY DEF FeedbackManual, FeedbackInv, ErrorIsHeld
<1>3. plant'.u = u /\ plant'.x = plant.x
  BY <1>1 DEF FeedbackInv, FeedbackTypeOK
<1>4. PlantWithin'
  BY <1>2, <1>3, IntegrableExtents DEF BoundedInv, PlantWithin
<1> QED
  BY <1>2, <1>4, BoundKept DEF BoundedInv, CommandMadeOf, FeedforwardWithin

LEMMA BoundedReset ==
    ASSUME Integrable, FeedbackInv, BoundedInv, FeedbackReset
    PROVE  BoundedInv'
<1>1. xi' = 0 /\ astray' = 0 /\ due' = <<>> /\ UNCHANGED <<law, plant>>
  BY DEF FeedbackReset
<1>2. PlantWithin' /\ CommandMadeOf' /\ FeedforwardWithin'
  BY <1>1 DEF BoundedInv, PlantWithin, CommandMadeOf, FeedforwardWithin
<1>3. IntegralBounded'
  <2>1. Bound(0) \in Nat
    BY BoundIs
  <2> QED
    BY <1>1, <2>1, BoundMeansNext DEF Within
<1> QED
  BY <1>2, <1>3 DEF BoundedInv

\* However long the command stays beyond the clamp, the integral of LQI and LQGI stays
\* within what the clamp, the state and the feedforward explain, one error, and what the
\* ticks ErrorsAreTrue excepts put astray: for every plant, reference, actuator and
\* feedthrough, and every gain on xi but none.
THEOREM IntegralStaysBounded == ASSUME Integrable PROVE FeedbackSpec => []IntegralBounded
<1>1. FeedbackInit => FeedbackInv /\ BoundedInv
  BY FeedbackInitInv, BoundedStarts
<1>2. FeedbackInv /\ BoundedInv /\ [FeedbackNext]_feedbackVars => (FeedbackInv /\ BoundedInv)'
  <2> SUFFICES ASSUME FeedbackInv, BoundedInv, [FeedbackNext]_feedbackVars
               PROVE  (FeedbackInv /\ BoundedInv)'
    OBVIOUS
  <2>1. FeedbackInv'
    BY FeedbackNextInv
  <2>2. BoundedInv'
    <3>1. CASE UNCHANGED feedbackVars
      BY <3>1 DEF feedbackVars, BoundedInv, PlantWithin, CommandMadeOf, FeedforwardWithin,
                  IntegralBounded
    <3> QED
      BY <2>1, <3>1, BoundedPredict, BoundedUpdate, BoundedControl, BoundedWrite,
         BoundedManual, BoundedReset DEF FeedbackNext
  <2> QED
    BY <2>1, <2>2
<1>3. BoundedInv => IntegralBounded
  BY DEF BoundedInv
<1> QED
  BY <1>1, <1>2, <1>3, PTL DEF FeedbackSpec

-----------------------------------------------------------------------------
(***************************************************************************)
(* MPC.                                                                    *)
(***************************************************************************)

PredictiveTypeOK ==
    /\ design \in [success : BOOLEAN, invariant_set : BOOLEAN, hard : BOOLEAN]
    /\ limits \in {box \in Boxes : Valid(box)}
    /\ base \in Record
    /\ drive \in [u : Int, cmd : Int, ff : Int]
    /\ turn \in {"predict", "control", "write"} /\ known \in BOOLEAN

\* Unless a reset() came since it was written, the input in force and the feedforward in
\* it are what the next predict() will take, and what control() then plans from.
InputIsRecorded ==
    /\ turn = "predict" /\ known =>
         /\ Taken(base).applied = drive.u
         /\ Taken(base).feedforward = drive.ff
    /\ turn = "control" /\ known => base.applied = drive.u /\ base.feedforward = drive.ff

\* A report waits only between the write and the predict() that takes it.
BaseIsTaken == turn # "predict" => base.recorded = FALSE

PredictiveInv == PredictiveTypeOK /\ InputIsRecorded /\ BaseIsTaken

LEMMA PredictiveStarts == PredictiveInit => PredictiveInv
<1> SUFFICES ASSUME PredictiveInit PROVE PredictiveInv
  OBVIOUS
<1>1. drive = [u |-> 0, cmd |-> 0, ff |-> 0] /\ base = Forgotten /\ turn = "predict"
      /\ known = TRUE
  BY DEF PredictiveInit
<1>2. Taken(base).applied = 0 /\ Taken(base).feedforward = 0 /\ base \in Record
  BY <1>1, ForgottenIs, TakenIs
<1>3. PredictiveTypeOK
  <2>1. drive \in [u : Int, cmd : Int, ff : Int]
    BY <1>1
  <2>2. turn \in {"predict", "control", "write"} /\ known \in BOOLEAN
    BY <1>1
  <2> QED
    BY <1>2, <2>1, <2>2 DEF PredictiveInit, PredictiveTypeOK
<1>4. drive.u = 0 /\ drive.ff = 0
  BY <1>1
<1> QED
  BY <1>1, <1>2, <1>3, <1>4 DEF PredictiveInv, InputIsRecorded, BaseIsTaken

LEMMA PredictivePredictInv == ASSUME PredictiveInv, PredictivePredict PROVE PredictiveInv'
<1>1. /\ turn = "predict" /\ turn' = "control" /\ base' = Taken(base)
      /\ UNCHANGED <<design, limits, drive, known>>
  BY DEF PredictivePredict
<1>2. base' \in Record /\ base'.recorded = FALSE
  BY <1>1, TakenIs DEF PredictiveInv, PredictiveTypeOK
<1>3. PredictiveTypeOK'
  BY <1>1, <1>2 DEF PredictiveInv, PredictiveTypeOK
<1> QED
  BY <1>1, <1>2, <1>3 DEF PredictiveInv, InputIsRecorded, BaseIsTaken

\* The plan's first move is a number.
LEMMA ShareIs ==
    ASSUME PredictiveTypeOK, NEW move \in Int
    PROVE  /\ Share(move) \in Int
           /\ limits.lo \in Int /\ limits.hi \in Int /\ limits.down \in Int /\ limits.up \in Int
           /\ limits.lo <= limits.hi /\ limits.down <= limits.up
           /\ base.applied \in Int /\ base.feedforward \in Int
<1>1. limits \in Boxes /\ Valid(limits)
  BY DEF PredictiveTypeOK
<1>2. limits.lo \in Int /\ limits.hi \in Int /\ limits.down \in Int /\ limits.up \in Int
  BY <1>1, PredictiveAssumption
<1>3. base.applied \in Int /\ base.feedforward \in Int
  BY DEF PredictiveTypeOK, Record
<1>4. Saturated(move, limits.down, limits.up) \in Int
  BY <1>2, SaturatedIs
<1>5. Saturated(base.applied + Saturated(move, limits.down, limits.up), limits.lo, limits.hi) \in Int
  <2>1. base.applied + Saturated(move, limits.down, limits.up) \in Int
    BY <1>3, <1>4
  <2> QED
    BY <1>2, <2>1, SaturatedIs
<1> QED
  BY <1>1, <1>2, <1>3, <1>5 DEF Share, Valid

\* What control() commands: the share of some move, or the held input less the feedforward.
LEMMA ControlCommands ==
    ASSUME PredictiveTypeOK, PredictiveControl
    PROVE  /\ base' = [base EXCEPT !.command = base'.command] /\ base'.command \in Int
           /\ design.success => \E move \in Int : base'.command = Share(move)
           /\ ~design.success => base'.command = base.applied - base.feedforward
<1>1. CASE design.success
  <2>1. PICK status \in QPStatus, move \in Moves, feasible \in BOOLEAN :
           base' = [base EXCEPT !.command = Share(IF Takes(status, feasible) THEN move ELSE 0)]
    BY <1>1 DEF PredictiveControl
  <2> DEFINE m == IF Takes(status, feasible) THEN move ELSE 0
  <2>2. m \in Int
    BY PredictiveAssumption
  <2> HIDE DEF m
  <2>3. base' = [base EXCEPT !.command = Share(m)]
    BY <2>1 DEF m
  <2>4. base'.command = Share(m)
    BY <2>3 DEF PredictiveTypeOK, Record
  <2> QED
    BY <1>1, <2>2, <2>3, <2>4, ShareIs
<1>2. CASE ~design.success
  <2>1. base' = [base EXCEPT !.command = base.applied - base.feedforward]
    BY <1>2 DEF PredictiveControl
  <2>2. base'.command = base.applied - base.feedforward
    BY <2>1 DEF PredictiveTypeOK, Record
  <2>3. base.applied - base.feedforward \in Int
    BY DEF PredictiveTypeOK, Record
  <2> QED
    BY <1>2, <2>1, <2>2, <2>3
<1> QED
  BY <1>1, <1>2

LEMMA PredictiveControlInv == ASSUME PredictiveInv, PredictiveControl PROVE PredictiveInv'
<1>1. /\ turn = "control" /\ turn' = "write" /\ UNCHANGED <<design, limits, known>>
      /\ drive' = [drive EXCEPT !.cmd = base'.command]
  BY DEF PredictiveControl
<1>2. base' = [base EXCEPT !.command = base'.command] /\ base'.command \in Int
  BY ControlCommands DEF PredictiveInv
<1>3. base \in Record /\ base.recorded = FALSE
  BY <1>1 DEF PredictiveInv, PredictiveTypeOK, BaseIsTaken
<1>4. base' \in Record /\ base'.recorded = FALSE
  <2> DEFINE c == base'.command
  <2>1. c \in Int
    BY <1>2
  <2> HIDE DEF c
  <2>2. base' = [base EXCEPT !.command = c]
    BY <1>2 DEF c
  <2>3. base' = [command |-> c, applied |-> base.applied, feedforward |-> base.feedforward,
                 recorded |-> base.recorded]
    BY <1>3, <2>2 DEF Record
  <2>4. base.applied \in Int /\ base.feedforward \in Int /\ base.recorded \in BOOLEAN
    BY <1>3 DEF Record
  <2>5. base' \in Record
    BY <2>1, <2>3, <2>4 DEF Record
  <2>6. base'.recorded = base.recorded
    BY <2>3
  <2> QED
    BY <1>3, <2>5, <2>6
<1>5. drive' \in [u : Int, cmd : Int, ff : Int]
  BY <1>1, <1>2 DEF PredictiveInv, PredictiveTypeOK
<1>6. PredictiveTypeOK'
  BY <1>1, <1>4, <1>5 DEF PredictiveInv, PredictiveTypeOK
<1> QED
  BY <1>1, <1>4, <1>6 DEF PredictiveInv, InputIsRecorded, BaseIsTaken

\* A report is what the next predict() takes.
LEMMA ReportIsTakenNext ==
    ASSUME NEW rec \in Record, NEW u \in Int, NEW ff \in Int
    PROVE  LET rec2 == Recorded(rec, u, ff)
           IN rec2 \in Record /\ Taken(rec2).applied = u /\ Taken(rec2).feedforward = ff
<1> DEFINE rec2 == Recorded(rec, u, ff)
<1>1. /\ rec2 \in Record /\ rec2.recorded = TRUE
      /\ rec2.applied = u /\ rec2.feedforward = ff
  BY RecordedIs
<1> HIDE DEF rec2
<1>2. rec2.recorded = TRUE => Taken(rec2).applied = rec2.applied
                             /\ Taken(rec2).feedforward = rec2.feedforward
  BY <1>1, TakenIs
<1>3. Taken(rec2).applied = u /\ Taken(rec2).feedforward = ff
  BY <1>1, <1>2
<1> QED
  BY <1>1, <1>3 DEF rec2

LEMMA PredictiveWriteInv == ASSUME PredictiveInv, PredictiveWrite PROVE PredictiveInv'
<1>1. PICK u_ff \in Added :
         /\ drive' = [drive EXCEPT !.u = Saturated(drive.cmd + u_ff, ActLo, ActHi), !.ff = u_ff]
         /\ \/ base' = Recorded(base, drive'.u, u_ff)
            \/ drive'.u = base.command /\ u_ff = 0 /\ UNCHANGED base
  BY DEF PredictiveWrite
<1>2. turn = "write" /\ turn' = "predict" /\ known' = TRUE /\ UNCHANGED <<design, limits>>
  BY DEF PredictiveWrite
<1>3. /\ base \in Record /\ base.recorded = FALSE
      /\ drive \in [u : Int, cmd : Int, ff : Int]
  BY <1>2 DEF PredictiveInv, PredictiveTypeOK, BaseIsTaken
<1> DEFINE u == Saturated(drive.cmd + u_ff, ActLo, ActHi)
<1>4. u \in Int /\ u_ff \in Int
  BY <1>3, ActuatorAssumption, SaturatedIs
<1> HIDE DEF u
<1>5. drive' = [u |-> u, cmd |-> drive.cmd, ff |-> u_ff]
  BY <1>1, <1>3 DEF u
<1>6. drive' \in [u : Int, cmd : Int, ff : Int] /\ drive'.u = u /\ drive'.ff = u_ff
  BY <1>3, <1>4, <1>5
<1>7. base' \in Record /\ Taken(base').applied = drive'.u /\ Taken(base').feedforward = drive'.ff
  <2>1. CASE base' = Recorded(base, drive'.u, u_ff)
    <3>1. base' = Recorded(base, u, u_ff) /\ drive'.u = u /\ drive'.ff = u_ff
      BY <1>6, <2>1
    <3> QED
      BY <1>3, <1>4, <3>1, ReportIsTakenNext
  <2>2. CASE drive'.u = base.command /\ u_ff = 0 /\ UNCHANGED base
    BY <1>3, <1>6, <2>2, TakenIs
  <2> QED
    BY <1>1, <2>1, <2>2
<1>8. PredictiveTypeOK'
  BY <1>2, <1>6, <1>7 DEF PredictiveInv, PredictiveTypeOK
<1> QED
  BY <1>2, <1>7, <1>8 DEF PredictiveInv, InputIsRecorded, BaseIsTaken

LEMMA PredictiveManualInv == ASSUME PredictiveInv, PredictiveManual PROVE PredictiveInv'
<1>1. PICK u \in Manuals : /\ drive' = [u |-> u, cmd |-> u, ff |-> 0]
                           /\ base' = Recorded(base, u, 0)
  BY DEF PredictiveManual
<1>2. turn' = "predict" /\ known' = TRUE /\ UNCHANGED <<design, limits>>
  BY DEF PredictiveManual
<1>3. u \in Int /\ 0 \in Int /\ base \in Record
  BY ActuatorAssumption DEF PredictiveInv, PredictiveTypeOK
<1>4. drive' \in [u : Int, cmd : Int, ff : Int] /\ drive'.u = u /\ drive'.ff = 0
  BY <1>1, <1>3
<1>5. base' \in Record /\ Taken(base').applied = u /\ Taken(base').feedforward = 0
  BY <1>1, <1>3, ReportIsTakenNext
<1>6. PredictiveTypeOK'
  BY <1>2, <1>4, <1>5 DEF PredictiveInv, PredictiveTypeOK
<1> QED
  BY <1>2, <1>4, <1>5, <1>6 DEF PredictiveInv, InputIsRecorded, BaseIsTaken

LEMMA SetLimitsInv == ASSUME PredictiveInv, SetLimits PROVE PredictiveInv'
<1>1. limits' \in {box \in Boxes : Valid(box)}
  BY DEF SetLimits, PredictiveInv, PredictiveTypeOK
<1>2. UNCHANGED <<design, base, drive, turn, known>>
  BY DEF SetLimits
<1>3. PredictiveTypeOK'
  BY <1>1, <1>2 DEF PredictiveInv, PredictiveTypeOK
<1> QED
  BY <1>2, <1>3 DEF PredictiveInv, InputIsRecorded, BaseIsTaken

LEMMA PredictiveResetInv == ASSUME PredictiveInv, PredictiveReset PROVE PredictiveInv'
<1>1. /\ base' = Forgotten /\ known' = (turn = "write")
      /\ UNCHANGED <<design, limits, drive, turn>>
  BY DEF PredictiveReset
<1>2. PredictiveTypeOK'
  BY <1>1, ForgottenIs DEF PredictiveInv, PredictiveTypeOK
<1> QED
  BY <1>1, <1>2, ForgottenIs DEF PredictiveInv, InputIsRecorded, BaseIsTaken

LEMMA PredictiveStepInv ==
    PredictiveInv /\ [PredictiveNext]_predictiveVars => PredictiveInv'
<1> SUFFICES ASSUME PredictiveInv, [PredictiveNext]_predictiveVars PROVE PredictiveInv'
  OBVIOUS
<1>1. CASE UNCHANGED predictiveVars
  BY <1>1 DEF predictiveVars, PredictiveInv, PredictiveTypeOK, InputIsRecorded, BaseIsTaken
<1> QED
  BY <1>1, PredictivePredictInv, PredictiveControlInv, PredictiveWriteInv,
     PredictiveManualInv, SetLimitsInv, PredictiveResetInv DEF PredictiveNext

LEMMA PredictiveInvariant == PredictiveSpec => []PredictiveInv
  BY PredictiveStarts, PredictiveStepInv, PTL DEF PredictiveSpec

\* Types of the controller, its record and the input in force; the limits in use are valid.
THEOREM PredictiveTypeCorrect == PredictiveSpec => []PredictiveTypeOK
<1>1. PredictiveInv => PredictiveTypeOK
  BY DEF PredictiveInv
<1> QED
  BY <1>1, PredictiveInvariant, PTL

LEMMA SaturatedValues ==
    ASSUME NEW v \in Int, NEW lo \in Int, NEW hi \in Int, lo <= hi
    PROVE  /\ v < lo => Saturated(v, lo, hi) = lo
           /\ v > hi => Saturated(v, lo, hi) = hi
           /\ lo <= v /\ v <= hi => Saturated(v, lo, hi) = v
           /\ lo <= Saturated(v, lo, hi) /\ Saturated(v, lo, hi) <= hi
  BY DEF Saturated

LEMMA CommandStaysInBoxes ==
    ASSUME PredictiveInv, PredictiveControl, known
    PROVE  LET total == base'.command + drive.ff IN
           IF design.success
           THEN /\ limits.lo <= total /\ total <= limits.hi
                /\ \/ drive.u + limits.down <= total /\ total <= drive.u + limits.up
                   \/ drive.u + limits.up < limits.lo /\ total = limits.lo
                   \/ drive.u + limits.down > limits.hi /\ total = limits.hi
           ELSE total = drive.u
<1>1. PredictiveTypeOK /\ turn = "control"
  BY DEF PredictiveInv, PredictiveControl
<1>2. base.applied = drive.u /\ base.feedforward = drive.ff
  BY <1>1 DEF PredictiveInv, InputIsRecorded
<1>3. drive.u \in Int /\ drive.ff \in Int
  BY <1>1 DEF PredictiveTypeOK
<1>4. CASE design.success
  <2>1. PICK move \in Int : base'.command = Share(move)
    BY <1>1, <1>4, ControlCommands
  <2> DEFINE total == Saturated(drive.u + Saturated(move, limits.down, limits.up),
                                limits.lo, limits.hi)
  <2>2. base'.command = total - drive.ff
    BY <1>2, <2>1 DEF Share
  <2>3. /\ total \in Int /\ limits.lo <= total /\ total <= limits.hi
        /\ \/ drive.u + limits.down <= total /\ total <= drive.u + limits.up
           \/ drive.u + limits.up < limits.lo /\ total = limits.lo
           \/ drive.u + limits.down > limits.hi /\ total = limits.hi
    <3> DEFINE m == Saturated(move, limits.down, limits.up)
               v == drive.u + m
    <3>1. /\ limits.lo \in Int /\ limits.hi \in Int /\ limits.down \in Int /\ limits.up \in Int
          /\ limits.lo <= limits.hi /\ limits.down <= limits.up
      BY <1>1, ShareIs
    <3>2. m \in Int /\ limits.down <= m /\ m <= limits.up
      BY <3>1, SaturatedIs, SaturatedValues
    <3> HIDE DEF m
    <3>3. v \in Int /\ drive.u + limits.down <= v /\ v <= drive.u + limits.up
      BY <1>3, <3>1, <3>2
    <3> HIDE DEF v
    <3>4. total = Saturated(v, limits.lo, limits.hi)
      BY DEF v, m
    <3> HIDE DEF total
    <3>5. /\ total \in Int /\ limits.lo <= total /\ total <= limits.hi
          /\ v < limits.lo => total = limits.lo
          /\ v > limits.hi => total = limits.hi
          /\ limits.lo <= v /\ v <= limits.hi => total = v
      BY <3>1, <3>3, <3>4, SaturatedIs, SaturatedValues
    <3> QED
      BY <1>3, <3>1, <3>3, <3>5
  <2> HIDE DEF total
  <2>4. base'.command + drive.ff = total
    BY <1>3, <2>2, <2>3
  <2> QED
    BY <1>4, <2>3, <2>4
<1>5. CASE ~design.success
  <2>1. base'.command = drive.u - drive.ff
    BY <1>1, <1>2, <1>5, ControlCommands
  <2> QED
    BY <1>3, <1>5, <2>1
<1> QED
  BY <1>4, <1>5

\* Every command of MPC stays in both boxes, for every box, move, feedforward and actuator,
\* and whatever its solver answers.
THEOREM MovesStayInBoxes == PredictiveSpec => MovesAreBounded
<1> DEFINE Bounded ==
      PredictiveControl /\ known =>
         LET total == base'.command + drive.ff IN
         IF design.success
         THEN /\ limits.lo <= total /\ total <= limits.hi
              /\ \/ drive.u + limits.down <= total /\ total <= drive.u + limits.up
                 \/ drive.u + limits.up < limits.lo /\ total = limits.lo
                 \/ drive.u + limits.down > limits.hi /\ total = limits.hi
         ELSE total = drive.u
<1>1. PredictiveInv /\ [PredictiveNext]_predictiveVars => [Bounded]_predictiveVars
  BY CommandStaysInBoxes
<1> QED
  BY <1>1, PredictiveInvariant, PTL DEF PredictiveSpec, MovesAreBounded
=============================================================================
