------------------------ MODULE RelayAutotunerProofs ------------------------
(***************************************************************************)
(* Proofs about the relay experiment, for every set of errors, every       *)
(* configuration config.valid() admits and every plant.                    *)
(***************************************************************************)
EXTENDS RelayAutotuner, CommonLemmas, TLAPS

-----------------------------------------------------------------------------
(* The operators the steps are built from.                                 *)

\* A fresh window is a window, whatever integers seed its cycle peaks.
LEMMA EmptyWindowType ==
    ASSUME NEW hi \in Int, NEW lo \in Int
    PROVE  EmptyWindow(hi, lo) \in Windows
  BY ConfigAssumption DEF EmptyWindow, Windows

\* Recording a sample keeps the window's type, counts and sums, and the peak
\* of the current half-period is at least the sample on both sides.
LEMMA PeakedWindow ==
    ASSUME NEW w \in Windows, NEW y \in Int
    PROVE  /\ Peaked(w, y) \in Windows
           /\ Peaked(w, y).count = w.count
           /\ Peaked(w, y).sum = w.sum
           /\ Peaked(w, y).n = w.n
           /\ Peaked(w, y).peakPos = w.peakPos
           /\ Peaked(w, y).peakNeg = w.peakNeg
           /\ Peaked(w, y).cycPos >= y
           /\ Peaked(w, y).cycNeg <= y
<1>1. Maximum(w.cycPos, y) \in Int /\ Minimum(w.cycNeg, y) \in Int
  BY DEF Windows, Maximum, Minimum
<1>2. Peaked(w, y) \in Windows
  BY <1>1 DEF Peaked, Windows
<1>3. /\ Peaked(w, y).cycPos = Maximum(w.cycPos, y)
      /\ Peaked(w, y).cycNeg = Minimum(w.cycNeg, y)
  BY DEF Peaked, Windows
<1>4. Peaked(w, y).cycPos >= y /\ Peaked(w, y).cycNeg <= y
  BY <1>3 DEF Windows, Maximum, Minimum
<1>5. /\ Peaked(w, y).count = w.count
      /\ Peaked(w, y).sum = w.sum
      /\ Peaked(w, y).n = w.n
      /\ Peaked(w, y).peakPos = w.peakPos
      /\ Peaked(w, y).peakNeg = w.peakNeg
  BY DEF Peaked, Windows
<1> QED
  BY <1>2, <1>4, <1>5

\* Counting a half-period adds it to the sum, and the peaks dominate the peaks
\* of the half-period just completed.
LEMMA CountedWindow ==
    ASSUME NEW w \in Windows, NEW half \in Nat, NEW y \in Int
    PROVE  /\ Counted(w, half, y) \in Windows
           /\ Counted(w, half, y).count = w.count + 1
           /\ Counted(w, half, y).sum = w.sum + half
           /\ Counted(w, half, y).n = w.n
           /\ Counted(w, half, y).peakPos >= w.peakPos
           /\ Counted(w, half, y).peakPos >= w.cycPos
           /\ Counted(w, half, y).peakNeg <= w.peakNeg
           /\ Counted(w, half, y).peakNeg <= w.cycNeg
<1>1. /\ Maximum(w.peakPos, w.cycPos) \in Int
      /\ Minimum(w.peakNeg, w.cycNeg) \in Int
      /\ Minimum(w.min, w.prev + half) \in Nat
      /\ Maximum(w.max, w.prev + half) \in Nat
      /\ w.sum + half \in Nat
      /\ w.count + 1 \in Nat
  BY DEF Windows, Maximum, Minimum
<1> DEFINE mn == IF (w.count + 1) % 2 = 0 THEN Minimum(w.min, w.prev + half) ELSE w.min
           mx == IF (w.count + 1) % 2 = 0 THEN Maximum(w.max, w.prev + half) ELSE w.max
<1>a. mn \in Nat /\ mx \in Nat
  BY <1>1 DEF Windows
<1>b. Counted(w, half, y) =
        [w EXCEPT !.peakPos = Maximum(w.peakPos, w.cycPos),
                  !.peakNeg = Minimum(w.peakNeg, w.cycNeg),
                  !.sum = w.sum + half, !.count = w.count + 1,
                  !.min = mn, !.max = mx, !.prev = half,
                  !.cycPos = y, !.cycNeg = y]
  BY DEF Counted
<1> HIDE DEF mn, mx
<1>2. Counted(w, half, y) \in Windows
  BY <1>1, <1>a, <1>b DEF Windows
<1>3. /\ Counted(w, half, y).peakPos = Maximum(w.peakPos, w.cycPos)
      /\ Counted(w, half, y).peakNeg = Minimum(w.peakNeg, w.cycNeg)
      /\ Counted(w, half, y).count = w.count + 1
      /\ Counted(w, half, y).sum = w.sum + half
      /\ Counted(w, half, y).n = w.n
  BY DEF Counted, Windows
<1>4. /\ Maximum(w.peakPos, w.cycPos) >= w.peakPos
      /\ Maximum(w.peakPos, w.cycPos) >= w.cycPos
      /\ Minimum(w.peakNeg, w.cycNeg) <= w.peakNeg
      /\ Minimum(w.peakNeg, w.cycNeg) <= w.cycNeg
  BY DEF Windows, Maximum, Minimum
<1> QED
  BY <1>2, <1>3, <1>4

\* Averaging a sample counts it and leaves the period bookkeeping alone.
LEMMA AveragedWindow ==
    ASSUME NEW w \in Windows, NEW y \in Int, NEW s \in {-1, 1}
    PROVE  /\ Averaged(w, y, s) \in Windows
           /\ Averaged(w, y, s).n = w.n + 1
           /\ Averaged(w, y, s).count = w.count
           /\ Averaged(w, y, s).sum = w.sum
           /\ Averaged(w, y, s).peakPos = w.peakPos
           /\ Averaged(w, y, s).peakNeg = w.peakNeg
<1>1. w.sumU + Command(s) \in Int /\ w.sumY + y \in Int /\ w.n + 1 \in Nat
  BY ConfigAssumption DEF Command, Windows
<1>2. Averaged(w, y, s) \in Windows
  BY <1>1 DEF Averaged, Windows
<1>3. /\ Averaged(w, y, s).n = w.n + 1
      /\ Averaged(w, y, s).count = w.count
      /\ Averaged(w, y, s).sum = w.sum
      /\ Averaged(w, y, s).peakPos = w.peakPos
      /\ Averaged(w, y, s).peakNeg = w.peakNeg
  BY DEF Averaged, Windows
<1> QED
  BY <1>2, <1>3

\* A window that saw both sides of the hysteresis has a positive radicand:
\* the amplitude check of finalize() passes.
LEMMA RadicandPositive ==
    ASSUME NEW w \in Windows,
           w.peakPos > Hysteresis, w.peakNeg < -Hysteresis
    PROVE  Radicand(w) \in Int /\ Radicand(w) > 0
<1> DEFINE lo == w.peakPos - w.peakNeg - 2 * Hysteresis
           hi == w.peakPos - w.peakNeg + 2 * Hysteresis
<1>1. lo \in Nat /\ lo > 0 /\ hi \in Nat /\ hi > 0
  BY ConfigAssumption DEF Windows
<1>2. \A a, b \in Nat : a > 0 /\ b > 0 => a * b \in Int /\ a * b > 0
  OBVIOUS
<1>3. lo * hi \in Int /\ lo * hi > 0
  BY <1>1, <1>2
<1> QED
  BY <1>3 DEF Radicand

\* A switch flips the relay, on a sample beyond the hysteresis on the side it
\* flips away from.
LEMMA SwitchFlips ==
    ASSUME NEW y \in Int, relay_sign \in {-1, 1}, Switches(y)
    PROVE  /\ DesiredSign(relay_sign, y) = -relay_sign
           /\ relay_sign = 1 => y > Hysteresis
           /\ relay_sign = -1 => y < -Hysteresis
  BY ConfigAssumption DEF Switches, DesiredSign

-----------------------------------------------------------------------------
(* The inductive invariant.                                                *)

\* The clocks: none has run in an Idle tuner, and while the experiment is on
\* the half-period in progress is no longer than the experiment, which has not
\* timed out.
Clocks ==
    /\ status = "Idle" => since = 0 /\ elapsed = 0
    /\ status \in {"Warmup", "Measuring"} =>
         1 <= since /\ since <= elapsed /\ elapsed <= MaxDuration

\* An Idle tuner has an empty window, so an experiment without warm-up measures
\* from its first sample.
IdleEmpty == status = "Idle" => win.n = 0 /\ win.sum = 0 /\ win.count = 0

\* After one counted half-period the peaks reach beyond the hysteresis on the
\* side the relay last switched away from; after two, on both sides.
PeaksReach ==
    status = "Measuring" =>
        /\ win.count >= 1 =>
             \/ relay_sign = -1 /\ win.peakPos > Hysteresis
             \/ relay_sign = 1 /\ win.peakNeg < -Hysteresis
        /\ win.count >= 2 =>
             win.peakPos > Hysteresis /\ win.peakNeg < -Hysteresis

IInv ==
    /\ TypeOK
    /\ Clocks
    /\ IdleEmpty
    /\ PeaksReach
    /\ WindowAccounting
    /\ FailsOnlyByTimeout
    /\ ResultOnlyWhenDone

\* What the end of a step does while the experiment is on.
LEMMA FinishStep ==
    ASSUME TypeOK, elapsed <= MaxDuration,
           NEW st \in {"Warmup", "Measuring"}, NEW w \in Windows, NEW y \in Int,
           relay_sign' \in {-1, 1},
           Finish(st, w, y)
    PROVE  /\ elapsed' = elapsed + 1
           /\ elapsed' \in 0 .. MaxDuration + 1
           /\ status' \in {st, "Failed"}
           /\ status' = "Failed" => elapsed' > MaxDuration
           /\ status' # "Failed" => elapsed' <= MaxDuration
           /\ win' \in Windows
           /\ win'.count = w.count
           /\ win'.sum = w.sum
           /\ win'.peakPos = w.peakPos
           /\ win'.peakNeg = w.peakNeg
           /\ status' = "Measuring" => win'.n = w.n + 1
<1>1. elapsed' = elapsed + 1 /\ elapsed' \in 0 .. MaxDuration + 1
  BY ConfigAssumption DEF Finish, Tick, Minimum, TypeOK
<1>2. /\ status' \in {st, "Failed"}
      /\ status' = "Failed" => elapsed' > MaxDuration
      /\ status' # "Failed" => elapsed' <= MaxDuration
  BY <1>1, ConfigAssumption DEF Finish, TimedOut, TypeOK
<1>3. CASE status' = "Measuring"
  <2>1. win' = Averaged(w, y, relay_sign')
    BY <1>3 DEF Finish
  <2> QED
    BY <1>1, <1>2, <2>1, AveragedWindow
<1>4. CASE status' # "Measuring"
  <2>1. win' = w
    BY <1>4 DEF Finish
  <2> QED
    BY <1>1, <1>2, <1>4, <2>1
<1> QED
  BY <1>3, <1>4

\* The invariant at the end of a step that leaves the experiment on: what is
\* left to show of such a step is how it changed the window it hands over.
LEMMA OngoingStep ==
    ASSUME IInv, elapsed <= MaxDuration,
           NEW st \in {"Warmup", "Measuring"}, NEW w \in Windows, NEW y \in Int,
           relay_sign' \in {-1, 1},
           Finish(st, w, y),
           valid_design' = valid_design, result' = result, resets' = resets,
           result = Unset,
           warmup_count' \in Nat, halves' \in Seq(Nat),
           since' \in Nat, since' >= 1, since' <= elapsed + 1,
           st = "Measuring" => w.n + 1 = w.sum + since',
           st = "Measuring" /\ w.count >= 1 =>
             \/ relay_sign' = -1 /\ w.peakPos > Hysteresis
             \/ relay_sign' = 1 /\ w.peakNeg < -Hysteresis,
           st = "Measuring" /\ w.count >= 2 =>
             w.peakPos > Hysteresis /\ w.peakNeg < -Hysteresis
    PROVE  IInv'
<1> USE DEF IInv
<1>1. /\ elapsed' = elapsed + 1
      /\ elapsed' \in 0 .. MaxDuration + 1
      /\ status' \in {st, "Failed"}
      /\ status' = "Failed" => elapsed' > MaxDuration
      /\ status' # "Failed" => elapsed' <= MaxDuration
      /\ win' \in Windows
      /\ win'.count = w.count
      /\ win'.sum = w.sum
      /\ win'.peakPos = w.peakPos
      /\ win'.peakNeg = w.peakNeg
      /\ status' = "Measuring" => win'.n = w.n + 1
  BY FinishStep
<1>2. since' \in 0 .. MaxDuration + 1
  BY <1>1, ConfigAssumption DEF TypeOK
<1>3. TypeOK'
  BY <1>1, <1>2 DEF TypeOK, Statuses
<1>4. Clocks'
  BY <1>1 DEF Clocks, TypeOK
<1>5. IdleEmpty'
  BY <1>1 DEF IdleEmpty
<1>6. PeaksReach'
  BY <1>1 DEF PeaksReach
<1>7. WindowAccounting'
  BY <1>1 DEF WindowAccounting
<1>8. FailsOnlyByTimeout'
  BY <1>1 DEF FailsOnlyByTimeout
<1>9. ResultOnlyWhenDone'
  BY <1>1 DEF ResultOnlyWhenDone, Unset
<1> QED
  BY <1>3, <1>4, <1>5, <1>6, <1>7, <1>8, <1>9

LEMMA InitInv == Init => IInv
<1> SUFFICES ASSUME Init PROVE IInv
  OBVIOUS
<1>1. win \in Windows
  BY ConfigAssumption, EmptyWindowType DEF Init
<1>2. TypeOK
  BY <1>1, ConfigAssumption DEF Init, TypeOK, Statuses, Unset, Results
<1>3. Clocks /\ IdleEmpty /\ PeaksReach /\ WindowAccounting
  BY DEF Init, Clocks, IdleEmpty, PeaksReach, WindowAccounting, EmptyWindow
<1>4. FailsOnlyByTimeout /\ ResultOnlyWhenDone
  BY DEF Init, FailsOnlyByTimeout, ResultOnlyWhenDone
<1> QED
  BY <1>2, <1>3, <1>4 DEF IInv

\* A switch while Measuring.
MeasuredHalf(y) ==
    /\ status = "Measuring"
    /\ Switches(y)
    /\ relay_sign' = DesiredSign(relay_sign, y)

\* The window with the half-period that a switch completes: its averages cover
\* exactly its half-periods, and its peaks reach beyond the hysteresis on the
\* side of the switch, on both sides from the second half-period on.
LEMMA CompletedHalf ==
    ASSUME IInv, NEW y \in Errors, MeasuredHalf(y)
    PROVE  LET w == Counted(Peaked(win, y), since, y) IN
           /\ w \in Windows
           /\ w.n = w.sum /\ w.sum > 0
           /\ relay_sign' \in {-1, 1}
           /\ \/ relay_sign' = -1 /\ w.peakPos > Hysteresis
              \/ relay_sign' = 1 /\ w.peakNeg < -Hysteresis
           /\ w.count >= 2 =>
                w.peakPos > Hysteresis /\ w.peakNeg < -Hysteresis
<1> DEFINE p == Peaked(win, y)
           w == Counted(p, since, y)
<1>1. /\ y \in Int /\ win \in Windows /\ relay_sign \in {-1, 1}
      /\ since \in Nat /\ since >= 1
  BY ConfigAssumption DEF IInv, TypeOK, Clocks, MeasuredHalf
<1>2. /\ p \in Windows
      /\ p.count = win.count /\ p.sum = win.sum /\ p.n = win.n
      /\ p.peakPos = win.peakPos /\ p.peakNeg = win.peakNeg
      /\ p.cycPos >= y /\ p.cycNeg <= y
  BY <1>1, PeakedWindow
<1> HIDE DEF p
<1>3. /\ w \in Windows
      /\ w.count = p.count + 1 /\ w.sum = p.sum + since /\ w.n = p.n
      /\ w.peakPos >= p.peakPos /\ w.peakPos >= p.cycPos
      /\ w.peakNeg <= p.peakNeg /\ w.peakNeg <= p.cycNeg
  BY <1>1, <1>2, CountedWindow
<1> HIDE DEF w
<1>4. w.n = w.sum /\ w.sum > 0
  BY <1>1, <1>2, <1>3 DEF IInv, WindowAccounting, MeasuredHalf, Windows
<1>5. /\ relay_sign' = -relay_sign /\ relay_sign' \in {-1, 1}
      /\ relay_sign = 1 => y > Hysteresis
      /\ relay_sign = -1 => y < -Hysteresis
  BY <1>1, SwitchFlips DEF MeasuredHalf
<1>6. \/ relay_sign' = -1 /\ w.peakPos > Hysteresis
      \/ relay_sign' = 1 /\ w.peakNeg < -Hysteresis
  BY <1>1, <1>2, <1>3, <1>5, ConfigAssumption DEF Windows
<1>7. ASSUME w.count >= 2
      PROVE  w.peakPos > Hysteresis /\ w.peakNeg < -Hysteresis
  <2>1. win.count >= 1
    BY <1>1, <1>2, <1>3, <1>7 DEF Windows
  <2>2. \/ relay_sign = -1 /\ win.peakPos > Hysteresis
        \/ relay_sign = 1 /\ win.peakNeg < -Hysteresis
    BY <2>1 DEF IInv, PeaksReach, MeasuredHalf
  <2> QED
    BY <1>1, <1>2, <1>3, <1>5, <1>6, <2>2, ConfigAssumption DEF Windows
<1> QED
  BY <1>3, <1>4, <1>5, <1>6, <1>7 DEF p, w

\* Every step keeps the invariant: one step of the proof per action.
LEMMA NextInv == IInv /\ [Next]_vars => IInv'
<1> SUFFICES ASSUME IInv, [Next]_vars PROVE IInv'
  OBVIOUS
<1> USE DEF IInv
<1>1. ASSUME NEW y \in Errors, Start(y) PROVE IInv'
  <2> DEFINE st == IF WarmupCycles > 0 THEN "Warmup" ELSE "Measuring"
             w  == [win EXCEPT !.cycPos = y, !.cycNeg = y]
  <2>1. /\ y \in Int /\ status = "Idle"
        /\ since = 0 /\ elapsed = 0 /\ elapsed <= MaxDuration
        /\ result = Unset
    BY <1>1, ConfigAssumption DEF Start, Clocks, ResultOnlyWhenDone, TypeOK
  <2>2. w \in Windows /\ w.n = win.n /\ w.sum = win.sum /\ w.count = win.count
    BY <2>1 DEF TypeOK, Windows
  <2>3. w.n = 0 /\ w.sum = 0 /\ w.count = 0
    BY <2>1, <2>2 DEF IdleEmpty
  <2>4. Finish(st, w, y) /\ st \in {"Warmup", "Measuring"}
    BY <1>1 DEF Start
  <2>5. relay_sign' \in {-1, 1} /\ since' = 1
    BY <1>1, <2>1 DEF Start
  <2> HIDE DEF st, w
  <2> QED
    BY <1>1, <2>1, <2>2, <2>3, <2>4, <2>5, OngoingStep DEF Start, TypeOK
<1>2. ASSUME NEW y \in Errors, Hold(y) PROVE IInv'
  <2>1. /\ y \in Int /\ status \in {"Warmup", "Measuring"}
        /\ since \in Nat /\ since >= 1 /\ since <= elapsed /\ elapsed <= MaxDuration
        /\ result = Unset /\ win \in Windows
    BY <1>2, ConfigAssumption DEF Hold, Clocks, ResultOnlyWhenDone, TypeOK
  <2> DEFINE w == Peaked(win, y)
  <2>2. /\ w \in Windows
        /\ w.count = win.count /\ w.sum = win.sum /\ w.n = win.n
        /\ w.peakPos = win.peakPos /\ w.peakNeg = win.peakNeg
    BY <2>1, PeakedWindow
  <2>3. Finish(status, w, y) /\ relay_sign' = relay_sign /\ since' = since + 1
    BY <1>2 DEF Hold
  <2>4. status = "Measuring" => w.n + 1 = w.sum + since'
    BY <2>1, <2>2, <2>3 DEF WindowAccounting, Windows
  <2> HIDE DEF w
  <2> QED
    BY <1>2, <2>1, <2>2, <2>3, <2>4, OngoingStep DEF Hold, TypeOK, PeaksReach
<1>3. ASSUME NEW y \in Errors, WarmupSwitch(y) PROVE IInv'
  <2>1. /\ y \in Int /\ status = "Warmup"
        /\ elapsed \in Nat /\ elapsed >= 1 /\ elapsed <= MaxDuration
        /\ result = Unset /\ win \in Windows /\ relay_sign \in {-1, 1}
    BY <1>3, ConfigAssumption DEF WarmupSwitch, Clocks, ResultOnlyWhenDone, TypeOK
  <2>2. relay_sign' \in {-1, 1}
    BY <1>3, <2>1, SwitchFlips DEF WarmupSwitch
  <2>3. CASE Finish("Measuring", EmptyWindow(y, y), y)
    <3>1. /\ EmptyWindow(y, y) \in Windows
          /\ EmptyWindow(y, y).n = 0 /\ EmptyWindow(y, y).sum = 0
          /\ EmptyWindow(y, y).count = 0
      BY <2>1, EmptyWindowType DEF EmptyWindow
    <3> QED
      BY <1>3, <2>1, <2>2, <2>3, <3>1, OngoingStep DEF WarmupSwitch, TypeOK
  <2>4. CASE Finish("Warmup", [win EXCEPT !.cycPos = y, !.cycNeg = y], y)
    <3>1. [win EXCEPT !.cycPos = y, !.cycNeg = y] \in Windows
      BY <2>1 DEF Windows
    <3> QED
      BY <1>3, <2>1, <2>2, <2>4, <3>1, OngoingStep DEF WarmupSwitch, TypeOK
  <2> QED
    BY <1>3, <2>3, <2>4 DEF WarmupSwitch
<1>4. ASSUME NEW y \in Errors, MeasureSwitch(y) PROVE IInv'
  <2> DEFINE w == Counted(Peaked(win, y), since, y)
  <2>1. MeasuredHalf(y)
    BY <1>4 DEF MeasureSwitch, MeasuredHalf
  <2>2. /\ w \in Windows
        /\ w.count >= 2 => w.peakPos > Hysteresis /\ w.peakNeg < -Hysteresis
        /\ \/ relay_sign' = -1 /\ w.peakPos > Hysteresis
           \/ relay_sign' = 1 /\ w.peakNeg < -Hysteresis
        /\ w.n = w.sum
    BY <2>1, CompletedHalf
  <2>3. /\ y \in Int /\ elapsed \in Nat /\ elapsed >= 1 /\ elapsed <= MaxDuration
        /\ result = Unset /\ since \in Nat
    BY <1>4, ConfigAssumption DEF MeasureSwitch, Clocks, ResultOnlyWhenDone, TypeOK
  <2>4. /\ Finish("Measuring", w, y)
        /\ relay_sign' \in {-1, 1} /\ since' = 1 /\ halves' = Append(halves, since)
    BY <1>4, <2>2 DEF MeasureSwitch
  <2>5. halves' \in Seq(Nat) /\ w.n + 1 = w.sum + since'
    BY <2>2, <2>3, <2>4 DEF TypeOK, Windows
  <2> HIDE DEF w
  <2> QED
    BY <1>4, <2>2, <2>3, <2>4, <2>5, OngoingStep DEF MeasureSwitch, TypeOK
<1>5. ASSUME NEW y \in Errors, Remeasure(y) PROVE IInv'
  <2>1. MeasuredHalf(y)
    BY <1>5 DEF Remeasure, MeasuredHalf
  <2>2. /\ y \in Int /\ elapsed \in Nat /\ elapsed >= 1 /\ elapsed <= MaxDuration
        /\ result = Unset
    BY <1>5, ConfigAssumption DEF Remeasure, Clocks, ResultOnlyWhenDone, TypeOK
  <2>3. /\ EmptyWindow(y, y) \in Windows
        /\ EmptyWindow(y, y).n = 0 /\ EmptyWindow(y, y).sum = 0
        /\ EmptyWindow(y, y).count = 0
    BY <2>2, EmptyWindowType DEF EmptyWindow
  <2>4. /\ Finish("Measuring", EmptyWindow(y, y), y)
        /\ relay_sign' \in {-1, 1} /\ since' = 1 /\ halves' = << >>
    BY <1>5, <2>1, CompletedHalf DEF Remeasure
  <2>5. halves' \in Seq(Nat)
    BY <2>4
  <2> QED
    BY <1>5, <2>2, <2>3, <2>4, <2>5, OngoingStep DEF Remeasure, TypeOK
<1>6. ASSUME NEW y \in Errors, Settle(y) PROVE IInv'
  <2> DEFINE w == Counted(Peaked(win, y), since, y)
  <2>1. MeasuredHalf(y)
    BY <1>6 DEF Settle, MeasuredHalf
  <2>2. w \in Windows /\ w.n = w.sum /\ w.sum > 0 /\ relay_sign' \in {-1, 1}
    BY <2>1, CompletedHalf
  <2>3. w.count >= 2
    BY <1>6, <2>2, ConfigAssumption DEF Settle, WindowFull, Windows
  <2>4. Radicand(w) \in Int /\ Radicand(w) > 0
    BY <2>1, <2>2, <2>3, CompletedHalf, RadicandPositive
  <2>5. since \in Nat /\ elapsed \in Nat /\ elapsed <= MaxDuration /\ y \in Int
    BY <1>6, ConfigAssumption DEF Settle, Clocks, TypeOK
  <2>6. Finish("Done", w, y)
    BY <1>6, <2>4 DEF Settle, FinalStatus
  <2>7. status' = "Done" /\ win' = w /\ elapsed' \in 0 .. MaxDuration + 1
    BY <2>5, <2>6, ConfigAssumption DEF Finish, Tick, Minimum
  <2>8. /\ result'.Tu = <<2 * w.sum, w.count>> /\ result'.Ku = Radicand(w)
        /\ result' \in Results
    <3>1. w.n \in Nat /\ w.sumU \in Int /\ w.sumY \in Int /\ w.sum \in Nat /\ w.count \in Nat
      BY <2>2 DEF Windows
    <3>2. FinalResult(w) =
            [Tu |-> <<2 * w.sum, w.count>>, Ku |-> Radicand(w),
             Ks |-> IF w.n > 0 /\ w.sumU # 0 THEN <<w.sumY, w.sumU>> ELSE <<0, 1>>]
      BY <2>4 DEF FinalResult
    <3>3. (IF w.n > 0 /\ w.sumU # 0 THEN <<w.sumY, w.sumU>> ELSE <<0, 1>>) \in Int \X Int
      BY <3>1
    <3>4. <<2 * w.sum, w.count>> \in Nat \X Nat
      BY <3>1
    <3>5. result' = FinalResult(w)
      BY <1>6 DEF Settle
    <3> HIDE DEF w
    <3> QED
      BY <2>4, <3>2, <3>3, <3>4, <3>5 DEF Results
  <2>9. since' = 1 /\ halves' \in Seq(Nat)
    BY <1>6, <2>5 DEF Settle, TypeOK
  <2> HIDE DEF w
  <2>10. TypeOK'
    BY <1>6, <2>2, <2>7, <2>8, <2>9, ConfigAssumption DEF Settle, TypeOK, Statuses
  <2>11. WindowAccounting' /\ Clocks' /\ IdleEmpty' /\ PeaksReach' /\ FailsOnlyByTimeout'
    BY <2>2, <2>7 DEF WindowAccounting, Clocks, IdleEmpty, PeaksReach, FailsOnlyByTimeout
  <2>12. ResultOnlyWhenDone'
    BY <2>2, <2>3, <2>4, <2>7, <2>8 DEF ResultOnlyWhenDone, Windows
  <2> QED
    BY <2>10, <2>11, <2>12
<1>7. ASSUME NEW y \in Errors, StepDone(y) PROVE IInv'
  <2>1. /\ status = "Done" /\ y \in Int /\ win \in Windows /\ relay_sign \in {-1, 1}
        /\ elapsed \in Nat /\ since \in Nat
    BY <1>7, ConfigAssumption DEF StepDone, TypeOK
  <2> DEFINE w == Peaked(win, y)
  <2>2. w \in Windows /\ w.n = win.n /\ w.sum = win.sum
    BY <2>1, PeakedWindow
  <2>3. status' = "Done" /\ win' = w
    BY <1>7 DEF StepDone, Finish
  <2>4. elapsed' \in 0 .. MaxDuration + 1 /\ since' \in 0 .. MaxDuration + 1
    BY <1>7, <2>1, ConfigAssumption DEF StepDone, Finish, Tick, Minimum, TypeOK
  <2>5. relay_sign' \in {-1, 1}
    BY <1>7, <2>1 DEF StepDone, DesiredSign
  <2> HIDE DEF w
  <2>6. TypeOK'
    BY <1>7, <2>2, <2>3, <2>4, <2>5 DEF StepDone, TypeOK
  <2>7. WindowAccounting' /\ ResultOnlyWhenDone'
    BY <1>7, <2>1, <2>2, <2>3 DEF StepDone, WindowAccounting, ResultOnlyWhenDone
  <2>8. Clocks' /\ IdleEmpty' /\ PeaksReach' /\ FailsOnlyByTimeout'
    BY <2>3 DEF Clocks, IdleEmpty, PeaksReach, FailsOnlyByTimeout
  <2> QED
    BY <2>6, <2>7, <2>8
<1>8. CASE Reset
  <2>1. win' \in Windows
    BY <1>8, ConfigAssumption, EmptyWindowType DEF Reset
  <2>2. TypeOK'
    BY <1>8, <2>1, ConfigAssumption DEF Reset, TypeOK, Statuses, Unset, Results
  <2>3. Clocks' /\ IdleEmpty' /\ PeaksReach' /\ WindowAccounting'
    BY <1>8 DEF Reset, Clocks, IdleEmpty, PeaksReach, WindowAccounting, EmptyWindow, TypeOK
  <2>4. FailsOnlyByTimeout' /\ ResultOnlyWhenDone'
    BY <1>8 DEF Reset, FailsOnlyByTimeout, ResultOnlyWhenDone, TypeOK
  <2> QED
    BY <2>2, <2>3, <2>4
<1>9. CASE UNCHANGED vars
  BY <1>9 DEF vars, TypeOK, Clocks, IdleEmpty, PeaksReach, WindowAccounting,
              FailsOnlyByTimeout, ResultOnlyWhenDone
<1>10. CASE StepFailed
  BY <1>9, <1>10 DEF StepFailed
<1> QED
  BY <1>1, <1>2, <1>3, <1>4, <1>5, <1>6, <1>7, <1>8, <1>9, <1>10 DEF Next, Step

-----------------------------------------------------------------------------
(* The theorems.                                                           *)

LEMMA InductiveInvariant == Spec => []IInv
  BY InitInv, NextInv, PTL DEF Spec

\* Every reachable state of every experiment is well typed.
THEOREM TypeCorrect == Spec => []TypeOK
<1>1. IInv => TypeOK
  BY DEF IInv
<1> QED
  BY <1>1, InductiveInvariant, PTL

\* The averages behind Ks cover exactly the measured periods, for every plant
\* and every configuration.
THEOREM AveragesCoverPeriods == Spec => []WindowAccounting
<1>1. IInv => WindowAccounting
  BY DEF IInv
<1> QED
  BY <1>1, InductiveInvariant, PTL

\* The amplitude check of finalize() never refuses: a valid design fails only
\* by its timeout, for every plant and every configuration.
THEOREM TimeoutIsTheOnlyFailure == Spec => []FailsOnlyByTimeout
<1>1. IInv => FailsOnlyByTimeout
  BY DEF IInv
<1> QED
  BY <1>1, InductiveInvariant, PTL

\* Gains are reported exactly by a Done tuner, and they are usable.
THEOREM ResultsOnlyWhenDone == Spec => []ResultOnlyWhenDone
<1>1. IInv => ResultOnlyWhenDone
  BY DEF IInv
<1> QED
  BY <1>1, InductiveInvariant, PTL

\* No step but reset() changes a finished experiment's status or gains.
THEOREM DoneStaysDone == Spec => DoneIsLatched
<1>1. ASSUME IInv, Next, status = "Done"
      PROVE  \/ status' = "Done" /\ result' = result
             \/ resets' = resets + 1
  <2>1. ASSUME NEW y \in Errors, StepDone(y)
        PROVE  status' = "Done" /\ result' = result
    BY <2>1 DEF StepDone, Finish
  <2>2. CASE Reset
    BY <2>2 DEF Reset
  <2> QED
    BY <1>1, <2>1, <2>2 DEF Next, Step, Start, Hold, WarmupSwitch, MeasureSwitch,
                            Remeasure, Settle, StepFailed
<1>2. IInv /\ [Next]_vars =>
        [status = "Done" =>
           \/ status' = "Done" /\ result' = result
           \/ resets' = resets + 1]_vars
  BY <1>1
<1> QED
  BY <1>2, InductiveInvariant, PTL DEF Spec, DoneIsLatched

-----------------------------------------------------------------------------
(* What the window records of the half-periods it counted.                 *)

FullPeriod(h, k) == h[2 * k - 1] + h[2 * k]

\* The window w has counted the half-periods h: their number and sum, the last
\* of them, and bounds of the full periods they make in pairs.
WindowOf(w, h) ==
    /\ w.count = Len(h)
    /\ w.sum = SeqSum(h)
    /\ h # <<>> => w.prev = h[Len(h)]
    /\ \A k \in 1 .. Len(h) \div 2 : w.min <= FullPeriod(h, k) /\ FullPeriod(h, k) <= w.max

\* While the window is open it is that of the history; the mean command runs
\* along; a Done window passed both tests of on_half_period_complete() and
\* gave the period reported.
HistoryInv ==
    /\ status \in {"Idle", "Warmup"} => halves = <<>>
    /\ status = "Idle" => win = EmptyWindow(-Huge, Huge)
    /\ status \in {"Measuring", "Done"} => WindowOf(win, halves)
    /\ CommandAccounting
    /\ status = "Done" =>
         /\ WindowFull(win) /\ Settled(win)
         /\ result.Tu = <<2 * win.sum, win.count>>

\* What two windows must share to be windows of the same half-periods.
SamePeriods(v, w) ==
    /\ v.count = w.count /\ v.sum = w.sum /\ v.prev = w.prev
    /\ v.min = w.min /\ v.max = w.max

LEMMA SameHistory ==
    ASSUME NEW v, NEW w, NEW h, WindowOf(w, h), SamePeriods(v, w)
    PROVE  WindowOf(v, h)
  BY DEF WindowOf, SamePeriods

\* A window that counted nothing is the window of no half-period.
LEMMA FreshWindow ==
    ASSUME NEW w, w.count = 0, w.sum = 0
    PROVE  WindowOf(w, <<>>)
<1>1. SeqSum(<<>>) = 0
  <2>1. <<>> \in Seq(Int) /\ Len(<<>>) = 0
    OBVIOUS
  <2> QED
    BY <2>1, SeqSumType
<1>2. 1 .. Len(<<>>) \div 2 = {}
  OBVIOUS
<1> QED
  BY <1>1, <1>2 DEF WindowOf

\* Recording or averaging a sample counts no period.
LEMMA PeakedPeriods ==
    ASSUME NEW w \in Windows, NEW y \in Int
    PROVE  SamePeriods(Peaked(w, y), w) /\ Peaked(w, y).sumU = w.sumU
  BY DEF Peaked, SamePeriods, Windows

LEMMA AveragedPeriods ==
    ASSUME NEW w \in Windows, NEW y \in Int, NEW s \in {-1, 1}
    PROVE  /\ SamePeriods(Averaged(w, y, s), w)
           /\ Averaged(w, y, s).sumU = w.sumU + Command(s)
  BY DEF Averaged, SamePeriods, Windows

LEMMA FinishPeriods ==
    ASSUME NEW st \in {"Warmup", "Measuring", "Done"}, NEW w \in Windows, NEW y \in Int,
           relay_sign' \in {-1, 1},
           Finish(st, w, y)
    PROVE  /\ status' \in {st, "Failed"}
           /\ SamePeriods(win', w)
           /\ status' = "Measuring" => win'.sumU = w.sumU + Command(relay_sign')
<1>1. status' \in {st, "Failed"}
  BY DEF Finish
<1>2. CASE status' = "Measuring"
  <2>1. win' = Averaged(w, y, relay_sign')
    BY <1>2 DEF Finish
  <2> QED
    BY <1>1, <2>1, AveragedPeriods
<1>3. CASE status' # "Measuring"
  <2>1. win' = w
    BY <1>3 DEF Finish
  <2> QED
    BY <1>1, <1>3, <2>1 DEF SamePeriods
<1> QED
  BY <1>2, <1>3

\* The pairs of half-periods that are counted two by two.
LEMMA HalvesPair ==
    ASSUME NEW n \in Nat, NEW k \in 1 .. (n + 1) \div 2
    PROVE  /\ 2 * k - 1 \in 1 .. n + 1 /\ 2 * k \in 1 .. n + 1
           /\ k \in 1 .. n \div 2 => 2 * k - 1 \in 1 .. n /\ 2 * k \in 1 .. n
           /\ k \notin 1 .. n \div 2 =>
                2 * k = n + 1 /\ 2 * k - 1 = n /\ n >= 1 /\ (n + 1) % 2 = 0
  OBVIOUS

\* Counting a half-period keeps the window that of the history with it: a pair
\* it completes is a full period inside the new bounds.
LEMMA CountedHistory ==
    ASSUME NEW w \in Windows, NEW h \in Seq(Nat), WindowOf(w, h),
           NEW half \in Nat, NEW y \in Int
    PROVE  /\ WindowOf(Counted(w, half, y), Append(h, half))
           /\ Counted(w, half, y).sumU = w.sumU
<1> DEFINE c == Counted(w, half, y)
           r == Append(h, half)
           n == Len(h)
           paired == (n + 1) % 2 = 0
<1>1. /\ n \in Nat /\ r \in Seq(Nat) /\ Len(r) = n + 1
      /\ r[n + 1] = half /\ \A i \in 1 .. n : r[i] = h[i] /\ h[i] \in Nat
      /\ h \in Seq(Int) /\ r \in Seq(Int) /\ r # <<>>
  OBVIOUS
<1>2. w.count = n
  BY DEF WindowOf
<1>3. /\ c.count = n + 1 /\ c.sum = w.sum + half /\ c.prev = half /\ c.sumU = w.sumU
      /\ c.min = IF paired THEN Minimum(w.min, w.prev + half) ELSE w.min
      /\ c.max = IF paired THEN Maximum(w.max, w.prev + half) ELSE w.max
  BY <1>2 DEF Counted, Windows
<1>4. w.min \in Nat /\ w.max \in Nat /\ w.prev \in Nat
  BY DEF Windows
<1> HIDE DEF c, r
<1>5. c.sum = SeqSum(r)
  <2>1. SeqSum(r) = SeqSum(h) + r[Len(r)]
    BY <1>1, SeqSumGrows
  <2> QED
    BY <1>1, <1>3, <2>1 DEF WindowOf
<1>6. c.min <= w.min /\ c.max >= w.max
  BY <1>3, <1>4 DEF Minimum, Maximum
<1>7. ASSUME NEW k \in 1 .. Len(r) \div 2
      PROVE  c.min <= FullPeriod(r, k) /\ FullPeriod(r, k) <= c.max
  <2>1. k \in 1 .. (n + 1) \div 2
    BY <1>1
  <2>2. CASE k \in 1 .. n \div 2
    <3>1. 2 * k - 1 \in 1 .. n /\ 2 * k \in 1 .. n
      BY <1>1, <2>1, <2>2, HalvesPair
    <3>2. FullPeriod(r, k) = FullPeriod(h, k) /\ FullPeriod(h, k) \in Nat
      <4> DEFINE i == 2 * k - 1
                 j == 2 * k
      <4>1. FullPeriod(r, k) = r[i] + r[j] /\ FullPeriod(h, k) = h[i] + h[j]
        BY DEF FullPeriod
      <4>2. i \in 1 .. n /\ j \in 1 .. n
        BY <3>1
      <4> HIDE DEF i, j
      <4>3. r[i] = h[i] /\ r[j] = h[j] /\ h[i] \in Nat /\ h[j] \in Nat
        BY <1>1, <4>2
      <4> QED
        BY <4>1, <4>3
    <3>3. w.min <= FullPeriod(h, k) /\ FullPeriod(h, k) <= w.max
      BY <2>2 DEF WindowOf
    <3>4. c.min \in Int /\ c.max \in Int
      BY <1>3, <1>4 DEF Minimum, Maximum
    <3> QED
      BY <1>4, <1>6, <3>2, <3>3, <3>4
  <2>3. CASE k \notin 1 .. n \div 2
    <3>1. 2 * k = n + 1 /\ 2 * k - 1 = n /\ n >= 1 /\ paired
      BY <1>1, <2>1, <2>3, HalvesPair
    <3>2. n \in 1 .. n /\ h # <<>>
      BY <1>1, <3>1
    <3>3. r[2 * k] = half /\ r[2 * k - 1] = h[n] /\ h[n] = w.prev
      BY <1>1, <3>1, <3>2 DEF WindowOf
    <3>4. FullPeriod(r, k) = w.prev + half
      BY <3>3 DEF FullPeriod
    <3> QED
      BY <1>3, <1>4, <3>1, <3>4 DEF Minimum, Maximum
  <2> QED
    BY <2>2, <2>3
<1>8. WindowOf(c, r)
  BY <1>1, <1>3, <1>5, <1>7 DEF WindowOf
<1> QED
  BY <1>3, <1>8 DEF c, r

-----------------------------------------------------------------------------
(* What the relay commanded over the half-periods.                         *)

LEMMA CommandType == \A s \in {-1, 1} : Command(s) \in Int
  BY ConfigAssumption DEF Command

LEMMA CommandedType ==
    ASSUME NEW h \in Seq(Nat), NEW sign \in {-1, 1}
    PROVE  /\ Commanded(h, sign) \in Seq(Int) /\ Len(Commanded(h, sign)) = Len(h)
           /\ \A i \in 1 .. Len(h) :
                Commanded(h, sign)[i]
                  = Command(IF (Len(h) - i) % 2 = 0 THEN -sign ELSE sign) * h[i]
<1> DEFINE n == Len(h)
           sgn(i) == IF (n - i) % 2 = 0 THEN -sign ELSE sign
           e(i) == Command(sgn(i)) * h[i]
<1>1. n \in Nat
  OBVIOUS
<1>2. ASSUME NEW i \in 1 .. n PROVE e(i) \in Int
  <2>1. sgn(i) \in {-1, 1} /\ h[i] \in Int
    OBVIOUS
  <2>2. Command(sgn(i)) \in Int
    BY <2>1, CommandType
  <2> HIDE DEF sgn
  <2>3. \A a, b \in Int : a * b \in Int
    OBVIOUS
  <2> QED
    BY <2>1, <2>2, <2>3
<1>3. Commanded(h, sign) = [i \in 1 .. n |-> e(i)]
  BY DEF Commanded
<1> HIDE DEF e, n
<1> QED
  BY <1>1, <1>2, <1>3 DEF e, n

LEMMA ParityFlips == \A d \in Int : (d + 1) % 2 = 0 <=> ~(d % 2 = 0)
  OBVIOUS

\* A switch ends a half-period: with it the commands of the history sum to what
\* they summed to and the command of the half-period just ended.
LEMMA CommandedGrows ==
    ASSUME NEW h \in Seq(Nat), NEW sign \in {-1, 1}, NEW half \in Nat
    PROVE  /\ SeqSum(Commanded(h, sign)) \in Int
           /\ SeqSum(Commanded(Append(h, half), -sign))
                = SeqSum(Commanded(h, sign)) + Command(sign) * half
<1> DEFINE n == Len(h)
           r == Append(h, half)
           q == Commanded(h, sign)
           p == Commanded(r, -sign)
<1>1. /\ n \in Nat /\ r \in Seq(Nat) /\ Len(r) = n + 1
      /\ r[n + 1] = half /\ -sign \in {-1, 1} /\ -(-sign) = sign
      /\ \A i \in 1 .. n : r[i] = h[i]
  OBVIOUS
<1>2. /\ q \in Seq(Int) /\ Len(q) = n
      /\ \A i \in 1 .. n :
           q[i] = Command(IF (n - i) % 2 = 0 THEN -sign ELSE sign) * h[i]
  BY CommandedType
<1> HIDE DEF n, r
<1>3. /\ p \in Seq(Int) /\ Len(p) = n + 1
      /\ \A i \in 1 .. n + 1 :
           p[i] = Command(IF (n + 1 - i) % 2 = 0 THEN sign ELSE -sign) * r[i]
  <2> DEFINE m == -sign
  <2>1. m \in {-1, 1} /\ -m = sign
    BY <1>1
  <2> HIDE DEF m
  <2>2. /\ Commanded(r, m) \in Seq(Int) /\ Len(Commanded(r, m)) = Len(r)
        /\ \A i \in 1 .. Len(r) :
             Commanded(r, m)[i]
               = Command(IF (Len(r) - i) % 2 = 0 THEN -m ELSE m) * r[i]
    BY <1>1, <2>1, CommandedType
  <2> QED
    BY <1>1, <2>1, <2>2 DEF m
<1> HIDE DEF p, q
<1>4. ASSUME NEW i \in 1 .. n PROVE p[i] = q[i]
  <2>1. i \in 1 .. n + 1 /\ ((n + 1 - i) % 2 = 0 <=> ~((n - i) % 2 = 0))
    <3>1. n - i \in Int /\ n + 1 - i = (n - i) + 1 /\ i \in 1 .. n + 1
      BY <1>1
    <3> DEFINE d == n - i
    <3>2. d \in Int /\ n + 1 - i = d + 1
      BY <3>1
    <3> HIDE DEF d
    <3>3. (d + 1) % 2 = 0 <=> ~(d % 2 = 0)
      BY <3>2, ParityFlips
    <3> QED
      BY <3>1, <3>2, <3>3 DEF d
  <2>2. p[i] = Command(IF (n + 1 - i) % 2 = 0 THEN sign ELSE -sign) * h[i]
    BY <1>1, <1>3, <2>1
  <2>3. (IF (n + 1 - i) % 2 = 0 THEN sign ELSE -sign)
          = IF (n - i) % 2 = 0 THEN -sign ELSE sign
    BY <2>1
  <2> QED
    BY <1>2, <2>2, <2>3
<1>5. p[n + 1] = Command(sign) * half
  <2>1. n + 1 \in 1 .. n + 1 /\ (n + 1 - (n + 1)) % 2 = 0
    BY <1>1
  <2> QED
    BY <1>1, <1>3, <2>1
<1>6. SeqSum(q) \in Int
  BY <1>2, SeqSumType
<1>7. SeqSum(p) = SeqSum(q) + p[Len(p)]
  BY <1>2, <1>3, <1>4, SeqSumGrows
<1> QED
  BY <1>3, <1>5, <1>6, <1>7 DEF p, q, r

-----------------------------------------------------------------------------
(* The second inductive invariant.                                         *)

\* The history at the end of a step that leaves the experiment on.
LEMMA OngoingHistory ==
    ASSUME NEW st \in {"Warmup", "Measuring"}, NEW w \in Windows, NEW y \in Int,
           relay_sign' \in {-1, 1},
           Finish(st, w, y),
           st = "Warmup" => halves' = <<>>,
           st = "Measuring" =>
             /\ WindowOf(w, halves')
             /\ w.sumU + Command(relay_sign')
                  = SeqSum(Commanded(halves', relay_sign')) + Command(relay_sign') * since'
    PROVE  HistoryInv'
<1>1. /\ status' \in {st, "Failed"}
      /\ SamePeriods(win', w)
      /\ status' = "Measuring" => win'.sumU = w.sumU + Command(relay_sign')
  BY FinishPeriods
<1>2. status' \in {"Idle", "Warmup"} => halves' = <<>>
  BY <1>1
<1>3. status' # "Idle" /\ status' # "Done"
  BY <1>1
<1>4. status' = "Measuring" => WindowOf(win', halves')
  BY <1>1, SameHistory
<1>5. CommandAccounting'
  BY <1>1 DEF CommandAccounting
<1> QED
  BY <1>2, <1>3, <1>4, <1>5 DEF HistoryInv

\* Nothing is commanded over no half-period.
LEMMA NothingCommanded == \A sign \in {-1, 1} : SeqSum(Commanded(<<>>, sign)) = 0
<1> SUFFICES ASSUME NEW sign \in {-1, 1} PROVE SeqSum(Commanded(<<>>, sign)) = 0
  OBVIOUS
<1> DEFINE none == <<>>
<1>1. none \in Seq(Nat) /\ Len(none) = 0
  OBVIOUS
<1> HIDE DEF none
<1>2. Commanded(none, sign) \in Seq(Int) /\ Len(Commanded(none, sign)) = 0
  BY <1>1, CommandedType
<1>3. SeqSum(Commanded(none, sign)) = 0
  BY <1>2, SeqSumType
<1> QED
  BY <1>3 DEF none

\* A step that opens the window, with one sample in progress.
LEMMA OpeningHistory ==
    ASSUME NEW w \in Windows, NEW y \in Int, relay_sign' \in {-1, 1},
           Finish("Measuring", w, y),
           w.count = 0, w.sum = 0, w.sumU = 0, halves' = <<>>, since' = 1
    PROVE  HistoryInv'
<1>1. WindowOf(w, halves')
  BY FreshWindow
<1>2. SeqSum(Commanded(halves', relay_sign')) = 0
  BY NothingCommanded
<1>3. Command(relay_sign') \in Int
  BY CommandType
<1> DEFINE c == Command(relay_sign')
<1>4. 0 + c = 0 + c * 1
  <2> HIDE DEF c
  <2>1. c \in Int
    BY <1>3 DEF c
  <2> QED
    BY <2>1
<1>5. w.sumU + c = SeqSum(Commanded(halves', relay_sign')) + c * since'
  BY <1>2, <1>4
<1> QED
  BY <1>1, <1>5, OngoingHistory

\* The window with the half-period that a switch completes.
LEMMA CompletedHistory ==
    ASSUME IInv, HistoryInv, NEW y \in Errors, MeasuredHalf(y)
    PROVE  LET w == Counted(Peaked(win, y), since, y) IN
           /\ w \in Windows
           /\ WindowOf(w, Append(halves, since))
           /\ relay_sign' = -relay_sign /\ relay_sign' \in {-1, 1}
           /\ w.sumU = SeqSum(Commanded(Append(halves, since), relay_sign'))
<1> DEFINE p == Peaked(win, y)
           w == Counted(p, since, y)
           r == Append(halves, since)
<1>1. /\ y \in Int /\ win \in Windows /\ relay_sign \in {-1, 1} /\ since \in Nat
      /\ halves \in Seq(Nat) /\ status = "Measuring"
  BY ConfigAssumption DEF IInv, TypeOK, MeasuredHalf
<1>2. relay_sign' = -relay_sign /\ relay_sign' \in {-1, 1}
  BY <1>1, SwitchFlips DEF MeasuredHalf
<1>3. p \in Windows /\ SamePeriods(p, win) /\ p.sumU = win.sumU
  BY <1>1, PeakedPeriods, PeakedWindow
<1> HIDE DEF p
<1>4. WindowOf(p, halves)
  BY <1>1, <1>3, SameHistory DEF HistoryInv
<1>5. w \in Windows
  BY <1>1, <1>3, CountedWindow
<1>6. WindowOf(w, r) /\ w.sumU = p.sumU
  BY <1>1, <1>3, <1>4, CountedHistory
<1>7. SeqSum(Commanded(r, -relay_sign))
        = SeqSum(Commanded(halves, relay_sign)) + Command(relay_sign) * since
  BY <1>1, CommandedGrows
<1>8. win.sumU = SeqSum(Commanded(halves, relay_sign)) + Command(relay_sign) * since
  BY <1>1 DEF HistoryInv, CommandAccounting
<1> HIDE DEF w, r
<1> QED
  BY <1>2, <1>3, <1>5, <1>6, <1>7, <1>8 DEF p, w, r

LEMMA HistoryInit == Init => HistoryInv
<1> SUFFICES ASSUME Init PROVE HistoryInv
  OBVIOUS
<1>1. status \in {"Idle", "Failed"} /\ halves = <<>> /\ win = EmptyWindow(-Huge, Huge)
  BY DEF Init
<1>2. CommandAccounting
  BY <1>1 DEF CommandAccounting
<1> QED
  BY <1>1, <1>2 DEF HistoryInv

LEMMA HistoryNext == IInv /\ HistoryInv /\ [Next]_vars => HistoryInv'
<1> SUFFICES ASSUME IInv, HistoryInv, [Next]_vars PROVE HistoryInv'
  OBVIOUS
<1>a. /\ Errors \subseteq Int /\ win \in Windows /\ relay_sign \in {-1, 1}
      /\ halves \in Seq(Nat) /\ since \in Nat
  BY ConfigAssumption DEF IInv, TypeOK
<1>1. ASSUME NEW y \in Errors, Start(y) PROVE HistoryInv'
  <2> DEFINE w == [win EXCEPT !.cycPos = y, !.cycNeg = y]
  <2>1. /\ y \in Int /\ status = "Idle" /\ halves = <<>> /\ since = 0
        /\ win = EmptyWindow(-Huge, Huge)
    BY <1>1, <1>a DEF Start, HistoryInv, IInv, Clocks
  <2>2. w \in Windows /\ w.count = 0 /\ w.sum = 0 /\ w.sumU = 0
    <3>1. win.count = 0 /\ win.sum = 0 /\ win.sumU = 0
      BY <2>1 DEF EmptyWindow
    <3> QED
      BY <1>a, <2>1, <3>1 DEF Windows
  <2>3. relay_sign' \in {-1, 1} /\ since' = 1 /\ halves' = <<>>
    BY <1>1, <2>1 DEF Start
  <2> HIDE DEF w
  <2>4. CASE WarmupCycles > 0
    <3>1. Finish("Warmup", w, y)
      BY <1>1, <2>4 DEF Start, w
    <3> QED
      BY <2>1, <2>2, <2>3, <3>1, OngoingHistory
  <2>5. CASE ~(WarmupCycles > 0)
    <3>1. Finish("Measuring", w, y)
      BY <1>1, <2>5 DEF Start, w
    <3> QED
      BY <2>1, <2>2, <2>3, <3>1, OpeningHistory
  <2> QED
    BY <2>4, <2>5
<1>2. ASSUME NEW y \in Errors, Hold(y) PROVE HistoryInv'
  <2> DEFINE w == Peaked(win, y)
  <2>1. /\ y \in Int /\ status \in {"Warmup", "Measuring"} /\ Finish(status, w, y)
        /\ relay_sign' = relay_sign /\ halves' = halves /\ since' = since + 1
    BY <1>2, <1>a DEF Hold
  <2>2. w \in Windows /\ SamePeriods(w, win) /\ w.sumU = win.sumU
    BY <1>a, <2>1, PeakedPeriods, PeakedWindow
  <2> HIDE DEF w
  <2>3. status = "Warmup" => halves' = <<>>
    BY <2>1 DEF HistoryInv
  <2>4. ASSUME status = "Measuring"
        PROVE  /\ WindowOf(w, halves')
               /\ w.sumU + Command(relay_sign')
                    = SeqSum(Commanded(halves', relay_sign')) + Command(relay_sign') * since'
    <3>1. WindowOf(win, halves)
      BY <2>4 DEF HistoryInv
    <3>2. win.sumU = SeqSum(Commanded(halves, relay_sign)) + Command(relay_sign) * since
      BY <2>4 DEF HistoryInv, CommandAccounting
    <3>3. SeqSum(Commanded(halves, relay_sign)) \in Int /\ Command(relay_sign) \in Int
      BY <1>a, CommandedGrows, CommandType
    <3>4. \A s, c, n \in Int : (s + c * n) + c = s + c * (n + 1)
      OBVIOUS
    <3>5. w.sumU + Command(relay_sign)
            = SeqSum(Commanded(halves, relay_sign)) + Command(relay_sign) * (since + 1)
      BY <1>a, <2>2, <3>2, <3>3, <3>4
    <3> QED
      BY <2>1, <2>2, <3>1, <3>5, SameHistory
  <2> QED
    BY <1>a, <2>1, <2>2, <2>3, <2>4, OngoingHistory
<1>3. ASSUME NEW y \in Errors, WarmupSwitch(y) PROVE HistoryInv'
  <2>1. /\ y \in Int /\ halves = <<>> /\ halves' = <<>> /\ since' = 1
        /\ relay_sign' \in {-1, 1}
    BY <1>3, <1>a, SwitchFlips DEF WarmupSwitch, HistoryInv
  <2>2. CASE Finish("Measuring", EmptyWindow(y, y), y)
    <3>1. /\ EmptyWindow(y, y) \in Windows /\ EmptyWindow(y, y).count = 0
          /\ EmptyWindow(y, y).sum = 0 /\ EmptyWindow(y, y).sumU = 0
      BY <2>1, EmptyWindowType DEF EmptyWindow
    <3> QED
      BY <2>1, <2>2, <3>1, OpeningHistory
  <2>3. CASE Finish("Warmup", [win EXCEPT !.cycPos = y, !.cycNeg = y], y)
    <3>1. [win EXCEPT !.cycPos = y, !.cycNeg = y] \in Windows
      BY <1>a, <2>1 DEF Windows
    <3> QED
      BY <2>1, <2>3, <3>1, OngoingHistory
  <2> QED
    BY <1>3, <2>2, <2>3 DEF WarmupSwitch
<1>4. ASSUME NEW y \in Errors, MeasureSwitch(y) PROVE HistoryInv'
  <2> DEFINE w == Counted(Peaked(win, y), since, y)
  <2>1. MeasuredHalf(y) /\ y \in Int
    BY <1>4, <1>a DEF MeasureSwitch, MeasuredHalf
  <2>2. /\ w \in Windows /\ WindowOf(w, Append(halves, since))
        /\ relay_sign' \in {-1, 1}
        /\ w.sumU = SeqSum(Commanded(Append(halves, since), relay_sign'))
    BY <2>1, CompletedHistory
  <2>3. Finish("Measuring", w, y) /\ since' = 1 /\ halves' = Append(halves, since)
    BY <1>4 DEF MeasureSwitch
  <2> HIDE DEF w
  <2>4. w.sumU + Command(relay_sign')
          = SeqSum(Commanded(halves', relay_sign')) + Command(relay_sign') * since'
    <3>1. Command(relay_sign') \in Int
      BY <2>2, CommandType
    <3>2. \A c \in Int : c * 1 = c
      OBVIOUS
    <3> QED
      BY <2>2, <2>3, <3>1, <3>2
  <2> QED
    BY <2>1, <2>2, <2>3, <2>4, OngoingHistory
<1>5. ASSUME NEW y \in Errors, Remeasure(y) PROVE HistoryInv'
  <2>1. MeasuredHalf(y) /\ y \in Int
    BY <1>5, <1>a DEF Remeasure, MeasuredHalf
  <2>2. relay_sign' \in {-1, 1}
    BY <2>1, CompletedHistory
  <2>3. /\ EmptyWindow(y, y) \in Windows /\ EmptyWindow(y, y).count = 0
        /\ EmptyWindow(y, y).sum = 0 /\ EmptyWindow(y, y).sumU = 0
    BY <2>1, EmptyWindowType DEF EmptyWindow
  <2>4. Finish("Measuring", EmptyWindow(y, y), y) /\ since' = 1 /\ halves' = <<>>
    BY <1>5 DEF Remeasure
  <2> QED
    BY <2>1, <2>2, <2>3, <2>4, OpeningHistory
<1>6. ASSUME NEW y \in Errors, Settle(y) PROVE HistoryInv'
  <2> DEFINE w == Counted(Peaked(win, y), since, y)
  <2>1. MeasuredHalf(y) /\ y \in Int
    BY <1>6, <1>a DEF Settle, MeasuredHalf
  <2>2. w \in Windows /\ WindowOf(w, Append(halves, since)) /\ relay_sign' \in {-1, 1}
    BY <2>1, CompletedHistory
  <2>3. /\ Finish(FinalStatus(w), w, y) /\ halves' = Append(halves, since)
        /\ WindowFull(w) /\ Settled(w) /\ result' = FinalResult(w)
    BY <1>6 DEF Settle
  <2> HIDE DEF w
  <2>4. FinalStatus(w) \in {"Failed", "Done"}
    BY DEF FinalStatus
  <2>5. status' \in {"Failed", "Done"} /\ win' = w
    BY <2>3, <2>4 DEF Finish
  <2>6. result'.Tu = <<2 * w.sum, w.count>>
    <3>1. result \in Results
      BY DEF IInv, TypeOK
    <3> QED
      BY <2>3, <3>1 DEF FinalResult, Results
  <2>7. CommandAccounting'
    BY <2>5 DEF CommandAccounting
  <2>8. WindowFull(win)' /\ Settled(win)'
    BY <2>3, <2>5 DEF WindowFull, Settled
  <2>9. WindowOf(win', halves')
    BY <2>2, <2>3, <2>5
  <2> QED
    BY <2>5, <2>6, <2>7, <2>8, <2>9 DEF HistoryInv
<1>7. ASSUME NEW y \in Errors, StepDone(y) PROVE HistoryInv'
  <2> DEFINE w == Peaked(win, y)
  <2>1. /\ y \in Int /\ status = "Done" /\ status' = "Done" /\ win' = w
        /\ halves' = halves /\ result' = result
    BY <1>7, <1>a DEF StepDone, Finish
  <2>2. SamePeriods(w, win)
    BY <1>a, <2>1, PeakedPeriods
  <2> HIDE DEF w
  <2>3. WindowFull(win)' /\ Settled(win)' /\ result'.Tu = <<2 * win'.sum, win'.count>>
    BY <2>1, <2>2 DEF HistoryInv, WindowFull, Settled, SamePeriods
  <2>4. WindowOf(win', halves')
    BY <2>1, <2>2, SameHistory DEF HistoryInv
  <2>5. CommandAccounting'
    BY <2>1 DEF CommandAccounting
  <2> QED
    BY <2>1, <2>3, <2>4, <2>5 DEF HistoryInv
<1>8. CASE Reset
  <2>1. status' \in {"Idle", "Failed"} /\ halves' = <<>> /\ win' = EmptyWindow(-Huge, Huge)
    BY <1>8 DEF Reset
  <2>2. CommandAccounting'
    BY <2>1 DEF CommandAccounting
  <2>3. EmptyWindow(-Huge, Huge)' = EmptyWindow(-Huge, Huge)
    BY DEF EmptyWindow
  <2> QED
    BY <2>1, <2>2, <2>3 DEF HistoryInv
<1>9. ASSUME UNCHANGED vars PROVE HistoryInv'
  <2>1. UNCHANGED <<status, since, relay_sign, win, result, halves>>
    BY <1>9 DEF vars
  <2>2. CommandAccounting'
    BY <2>1 DEF HistoryInv, CommandAccounting
  <2>3. WindowFull(win)' = WindowFull(win) /\ Settled(win)' = Settled(win)
    BY <2>1 DEF WindowFull, Settled
  <2>4. EmptyWindow(-Huge, Huge)' = EmptyWindow(-Huge, Huge)
    BY DEF EmptyWindow
  <2>5. WindowOf(win, halves)' = WindowOf(win, halves)
    BY <2>1 DEF WindowOf, FullPeriod, SeqSum
  <2> QED
    BY <2>1, <2>2, <2>3, <2>4, <2>5 DEF HistoryInv
<1>10. CASE StepFailed
  BY <1>9, <1>10 DEF StepFailed
<1> QED
  BY <1>1, <1>2, <1>3, <1>4, <1>5, <1>6, <1>7, <1>8, <1>9, <1>10 DEF Next, Step

LEMMA InductiveHistory == Spec => [](IInv /\ HistoryInv)
  BY InitInv, NextInv, HistoryInit, HistoryNext, PTL DEF Spec

\* The mean command behind Ks is aligned with the window, half-period by
\* half-period, for every plant and every configuration.
THEOREM CommandIsAccounted == Spec => []CommandAccounting
<1>1. HistoryInv => CommandAccounting
  BY DEF HistoryInv
<1> QED
  BY <1>1, InductiveHistory, PTL

\* A product with a natural keeps the order.
LEMMA ScaledOrder ==
    ASSUME NEW a \in Int, NEW b \in Int, NEW c \in Nat, a <= b
    PROVE  a * c <= b * c
  OBVIOUS

\* "Done: limit cycle settled" (RelayAutotuneStatus): a Done tuner measured whole
\* periods, at least measure_cycles of half-periods, Tu is their mean, and no two
\* of them are further apart than period_tolerance allows.
THEOREM DoneIsSettled == Spec => []DoneMeansSettled
<1>1. IInv /\ HistoryInv => DoneMeansSettled
  <2> SUFFICES ASSUME IInv, HistoryInv, status = "Done" PROVE DoneMeansSettled
    BY DEF DoneMeansSettled
  <2> DEFINE n == Len(halves)
  <2>1. /\ win.count = n /\ win.sum = SeqSum(halves)
        /\ \A k \in 1 .. n \div 2 : win.min <= FullPeriod(halves, k)
                                    /\ FullPeriod(halves, k) <= win.max
        /\ WindowFull(win) /\ Settled(win)
        /\ result.Tu = <<2 * win.sum, win.count>>
    BY DEF HistoryInv, WindowOf
  <2>2. /\ n \in Nat /\ halves \in Seq(Nat)
        /\ win.min \in Nat /\ win.max \in Nat /\ win.sum \in Nat
    BY DEF IInv, TypeOK, Windows
  <2> HIDE DEF n
  <2>3. n >= MeasureCycles /\ n % 2 = 0
    BY <2>1 DEF WindowFull
  <2>4. ASSUME NEW p \in FullPeriods, NEW q \in FullPeriods
        PROVE  (p - q) * TolDen * n <= TolNum * 2 * win.sum
    <3>1. \A f \in FullPeriods : f \in Int /\ win.min <= f /\ f <= win.max
      <4> SUFFICES ASSUME NEW f \in FullPeriods
                   PROVE  f \in Int /\ win.min <= f /\ f <= win.max
        OBVIOUS
      <4>1. PICK k \in 1 .. n \div 2 : f = FullPeriod(halves, k)
        BY DEF FullPeriods, FullPeriod, n
      <4>2. FullPeriod(halves, k) \in Int
        <5> DEFINE i == 2 * k - 1
                   j == 2 * k
        <5>1. i \in 1 .. n /\ j \in 1 .. n /\ FullPeriod(halves, k) = halves[i] + halves[j]
          BY <2>2 DEF FullPeriod
        <5> HIDE DEF i, j
        <5>2. halves[i] \in Nat /\ halves[j] \in Nat
          BY <2>2, <5>1 DEF n
        <5> QED
          BY <5>1, <5>2
      <4> QED
        BY <2>1, <4>1, <4>2
    <3>2. p - q \in Int /\ p - q <= win.max - win.min
      BY <2>2, <3>1
    <3>3. TolDen \in Nat /\ TolDen * n \in Nat
      <4>1. \A a, b \in Nat : a * b \in Nat
        OBVIOUS
      <4> QED
        BY <2>2, <4>1, ConfigAssumption
    <3> DEFINE m == TolDen * n
               d == p - q
               e == win.max - win.min
    <3>4. e * m <= TolNum * 2 * win.sum
      <4>1. (win.max - win.min) * n * TolDen <= TolNum * 2 * win.sum
        BY <2>1 DEF Settled
      <4>2. \A a, b, c \in Int : a * b * c = a * (c * b)
        OBVIOUS
      <4>3. win.max - win.min \in Int /\ n \in Int /\ TolDen \in Int
        BY <2>2, <3>3
      <4> QED
        BY <4>1, <4>2, <4>3
    <3>5. d * m = (p - q) * TolDen * n
      <4>1. \A a, b, c \in Int : a * b * c = a * (b * c)
        OBVIOUS
      <4>2. p - q \in Int /\ n \in Int /\ TolDen \in Int
        BY <2>2, <3>2, <3>3
      <4> QED
        BY <4>1, <4>2
    <3>6. d \in Int /\ e \in Int /\ d <= e /\ m \in Nat
      BY <2>2, <3>2, <3>3
    <3>7. TolNum * 2 * win.sum \in Int
      <4>1. \A a, b \in Nat : a * 2 * b \in Int
        OBVIOUS
      <4> QED
        BY <2>2, <4>1, ConfigAssumption
    <3>8. d * m \in Int /\ e * m \in Int /\ d * m <= e * m
      <4> HIDE DEF d, e, m
      <4>1. \A a, b \in Int : a * b \in Int
        OBVIOUS
      <4> QED
        BY <3>6, <4>1, ScaledOrder
    <3> HIDE DEF d, e, m
    <3> QED
      BY <3>4, <3>5, <3>7, <3>8
  <2> QED
    BY <2>1, <2>3, <2>4 DEF DoneMeansSettled, n
<1> QED
  BY <1>1, InductiveHistory, PTL

-----------------------------------------------------------------------------
(* How many ticks an experiment can still take.                            *)

Over == status \in {"Done", "Failed"}

\* The ticks before the safety timeout, and the one that detects it.
TicksLeft == IF Over THEN 0 ELSE (MaxDuration + 1) - elapsed

LEMMA TicksAre == IInv => TicksLeft \in Nat /\ (TicksLeft = 0 <=> Over)
BY ConfigAssumption DEF IInv, TypeOK, Clocks, Statuses, Over, TicksLeft

LEMMA TickIs ==
    ASSUME IInv, Step
    PROVE  /\ ~Over => Over' \/ elapsed' = elapsed + 1
           /\ Over => Over'
<1>1. ASSUME NEW y \in Errors, Start(y) \/ Hold(y) \/ WarmupSwitch(y) \/ MeasureSwitch(y)
                               \/ Remeasure(y) \/ Settle(y)
      PROVE  elapsed' = Tick(elapsed) /\ ~Over
  BY <1>1 DEF Start, Hold, WarmupSwitch, MeasureSwitch, Remeasure, Settle, Finish, Over
<1>2. ~Over => Tick(elapsed) = elapsed + 1
  BY ConfigAssumption DEF IInv, TypeOK, Clocks, Statuses, Over, Tick, Minimum
<1>3. ASSUME NEW y \in Errors, StepDone(y) \/ StepFailed PROVE Over /\ Over'
  BY <1>3 DEF StepDone, StepFailed, Finish, Over, vars
<1> QED
  BY <1>1, <1>2, <1>3 DEF Step

\* step(): an experiment has only so many ticks to take.
THEOREM ExperimentsRunOut ==
    Spec => /\ [](TicksLeft \in Nat /\ (TicksLeft = 0 <=> Over))
            /\ [][Step => IF Over THEN TicksLeft' = 0 ELSE TicksLeft' < TicksLeft]_vars
<1>1. IInv /\ [Next]_vars =>
        [Step => IF Over THEN TicksLeft' = 0 ELSE TicksLeft' < TicksLeft]_vars
  <2> SUFFICES ASSUME IInv, Step
               PROVE  IF Over THEN TicksLeft' = 0 ELSE TicksLeft' < TicksLeft
    OBVIOUS
  <2>1. TicksLeft \in Nat /\ (TicksLeft = 0 <=> Over) /\ elapsed \in Int
    BY TicksAre DEF IInv, TypeOK
  <2>2. /\ ~Over => Over' \/ elapsed' = elapsed + 1
        /\ Over => Over'
    BY TickIs
  <2>3. Over' => TicksLeft' = 0
    BY DEF TicksLeft
  <2>4. ~Over /\ ~Over' => TicksLeft' < TicksLeft
    BY <2>1, <2>2, ConfigAssumption DEF TicksLeft
  <2> QED
    BY <2>1, <2>2, <2>3, <2>4
<1> QED
  BY <1>1, TicksAre, InductiveInvariant, PTL DEF Spec
=============================================================================
