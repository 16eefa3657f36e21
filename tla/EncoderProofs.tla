---------------------------- MODULE EncoderProofs ----------------------------
(***************************************************************************)
(* Proofs about the encoder gate and the tracker behind it.                *)
(*                                                                         *)
(* The gate: for every set of positions, speeds and times between calls,   *)
(* and every configuration.  The window itself (Within) stays unexpanded:  *)
(* these results hold whatever its shape.                                  *)
(*                                                                         *)
(* The gated tracker: for every speed of the axis, every gain of the       *)
(* tracker, every configuration of the gate and every offset of a glitch   *)
(* the window excludes.                                                    *)
(***************************************************************************)
EXTENDS GatedTracker, TLAPS

-----------------------------------------------------------------------------
(* What the history of readings remembers.                                 *)

\* The longest history the model keeps.
Cap == IF ResyncCount > 1 THEN ResyncCount ELSE 1

\* The last k readings of s follow each other.
Chain(s, k) == \A i \in 0 .. k - 2 : Follows(s, Len(s) - i)

\* The history of a step: s with the reading r, its oldest one dropped when full.
LEMMA RecentReadings ==
    ASSUME NEW s \in Seq(Reading), Len(s) <= Cap, NEW r \in Reading
    PROVE  LET t == Recent(Append(s, r)) IN
           /\ t \in Seq(Reading)
           /\ 1 <= Len(t) /\ Len(t) <= Cap
           /\ t[Len(t)] = r
           /\ Len(s) < Cap => Len(t) = Len(s) + 1
           /\ Len(s) = Cap => Len(t) = Cap
           /\ \A i \in 1 .. Len(t) - 1 : t[Len(t) - i] = s[Len(s) + 1 - i]
<1> DEFINE a == Append(s, r)
           t == Recent(a)
<1>1. /\ a \in Seq(Reading)
      /\ Len(a) = Len(s) + 1
      /\ a[Len(a)] = r
      /\ \A i \in 1 .. Len(s) : a[i] = s[i]
  OBVIOUS
<1>2. CASE Len(a) > ResyncCount /\ Len(a) > 1
  <2>1. t = Tail(a)
    BY <1>2 DEF Recent
  <2>2. /\ t \in Seq(Reading)
        /\ Len(t) = Len(a) - 1
        /\ \A i \in 1 .. Len(t) : t[i] = a[i + 1]
    BY <1>1, <1>2, <2>1
  <2>3. Len(t) = Cap
    BY <1>1, <1>2, <2>2, GateAssumption DEF Cap
  <2>4. t[Len(t)] = r
    BY <1>1, <1>2, <2>2
  <2>5. ASSUME NEW i \in 1 .. Len(t) - 1
        PROVE  t[Len(t) - i] = s[Len(s) + 1 - i]
    <3>1. Len(t) - i \in 1 .. Len(t) /\ Len(t) - i + 1 \in 1 .. Len(s)
      BY <1>1, <2>2
    <3>2. t[Len(t) - i] = a[Len(t) - i + 1]
      BY <2>2, <3>1
    <3>3. a[Len(t) - i + 1] = s[Len(t) - i + 1]
      BY <1>1, <3>1
    <3>4. Len(t) - i + 1 = Len(s) + 1 - i
      BY <1>1, <2>2
    <3> QED
      BY <3>2, <3>3, <3>4
  <2>6. 1 <= Len(t)
    BY <1>2, <2>2, <1>1
  <2>7. ~(Len(s) < Cap)
    BY <1>1, <1>2, <2>2, <2>3
  <2> QED
    BY <2>2, <2>3, <2>4, <2>5, <2>6, <2>7
<1>3. CASE ~(Len(a) > ResyncCount /\ Len(a) > 1)
  <2>1. t = a
    BY <1>3 DEF Recent
  <2>2. Len(a) <= Cap
    BY <1>1, <1>3, GateAssumption DEF Cap
  <2>3. ASSUME NEW i \in 1 .. Len(t) - 1
        PROVE  t[Len(t) - i] = s[Len(s) + 1 - i]
    BY <1>1, <2>1
  <2> QED
    BY <1>1, <2>1, <2>2, <2>3
<1> QED
  BY <1>2, <1>3

\* A reading that follows the last of a chain makes the chain one longer.
LEMMA LongerChain ==
    ASSUME NEW s \in Seq(Reading), Len(s) <= Cap, NEW r \in Reading,
           NEW k \in Nat, 1 <= k, k <= Len(s), k < Cap, Chain(s, k),
           Within(r.p - (s[Len(s)].p + r.w * r.gap), r.gap)
    PROVE  LET t == Recent(Append(s, r)) IN k + 1 <= Len(t) /\ Chain(t, k + 1)
<1> DEFINE t == Recent(Append(s, r))
<1>1. /\ t \in Seq(Reading) /\ t[Len(t)] = r
      /\ Len(s) < Cap => Len(t) = Len(s) + 1
      /\ Len(s) = Cap => Len(t) = Cap
      /\ \A i \in 1 .. Len(t) - 1 : t[Len(t) - i] = s[Len(s) + 1 - i]
  BY RecentReadings
<1>2. Cap \in Nat
  BY GateAssumption DEF Cap
<1>3. k + 1 <= Len(t) /\ Len(t) \in Nat
  BY <1>1, <1>2
<1>4. ASSUME NEW i \in 0 .. (k + 1) - 2
      PROVE  Follows(t, Len(t) - i)
  <2>1. i + 1 \in 1 .. Len(t) - 1
    BY <1>3
  <2>2. t[Len(t) - (i + 1)] = s[Len(s) + 1 - (i + 1)]
    BY <1>1, <2>1
  <2>3. Len(t) - (i + 1) = Len(t) - i - 1 /\ Len(s) + 1 - (i + 1) = Len(s) - i
    BY <1>3
  <2>4. CASE i = 0
    <3>1. Len(t) - i = Len(t) /\ Len(s) - i = Len(s)
      BY <2>4, <1>3
    <3> QED
      BY <1>1, <2>2, <2>3, <3>1 DEF Follows
  <2>5. CASE i > 0
    <3>1. i \in 1 .. Len(t) - 1 /\ i - 1 \in 0 .. k - 2
      BY <1>3, <2>5
    <3>2. t[Len(t) - i] = s[Len(s) + 1 - i]
      BY <1>1, <3>1
    <3>3. Follows(s, Len(s) - (i - 1))
      BY <3>1 DEF Chain
    <3>4. Len(s) - (i - 1) = Len(s) + 1 - i /\ (Len(s) + 1 - i) - 1 = Len(s) - i
      BY <3>1
    <3>5. Follows(s, Len(s) + 1 - i)
      BY <3>3, <3>4
    <3> QED
      BY <2>2, <2>3, <3>2, <3>4, <3>5 DEF Follows
  <2> QED
    BY <2>4, <2>5
<1> QED
  BY <1>3, <1>4 DEF Chain

-----------------------------------------------------------------------------
(* The invariant.                                                          *)

\* The gate's candidate track is the tail of the history: the latest candidate
\* is the last reading seen, its age is the time since, and the readings of the
\* track follow each other.
TrackMirrors ==
    /\ Len(seen) <= Cap
    /\ candidates > 0 =>
         /\ candidates <= Len(seen)
         /\ cand = seen[Len(seen)].p
         /\ cand_since = idle
         /\ Chain(seen, candidates)

GateInv == TypeOK /\ StaleIsAge /\ TrackIsShort /\ TrackMirrors /\ ResyncIsConfirmed

\* Saturated times are times, and do not fall behind stale_time.
LEMMA Ages ==
    ASSUME TypeOK, NEW dt \in Dts
    PROVE  /\ Age(dt) \in 0 .. MaxTime
           /\ CandAge(dt) \in 0 .. MaxTime
           /\ Saturated(idle + dt) \in 0 .. MaxTime
           /\ StaleTime > 0 /\ since > StaleTime => Age(dt) > StaleTime
  BY GateAssumption DEF TypeOK, Age, CandAge, Saturated

LEMMA PendingReadings ==
    ASSUME TypeOK, TrackMirrors
    PROVE  Pending \in Seq(Reading) /\ Len(Pending) <= Cap
  BY GateAssumption DEF TypeOK, TrackMirrors, Pending, Cap

\* The fault and the lock after the ageing at the head of check().
LEMMA Ageing ==
    ASSUME TypeOK, StaleIsAge, NEW dt \in Dts
    PROVE  /\ stale \/ GoesStale(dt) <=> StaleTime > 0 /\ Age(dt) > StaleTime
           /\ LockedNow(dt) => ~stale /\ ~GoesStale(dt)
           /\ LockedNow(dt) \in BOOLEAN
  BY Ages DEF TypeOK, StaleIsAge, GoesStale, LockedNow

LEMMA NoReadings == <<>> \in Seq(Reading) /\ Len(<<>>) = 0
  OBVIOUS

\* The type invariant in parts: each action disturbs them for different reasons.
NumbersOK ==
    /\ last \in Int /\ cand \in Int
    /\ since \in 0 .. MaxTime /\ cand_since \in 0 .. MaxTime
    /\ interval \in 0 .. MaxTime
    /\ candidates \in 0 .. UInt16Max
    /\ idle \in 0 .. MaxTime

FlagsOK ==
    /\ locked \in BOOLEAN /\ stale \in BOOLEAN
    /\ verdict \in {"None", "Accepted", "Invalid", "Jump", "Resync"}

LEMMA TypeParts == TypeOK <=> NumbersOK /\ FlagsOK /\ seen \in Seq(Reading)
  BY DEF TypeOK, NumbersOK, FlagsOK

LEMMA Bounds ==
    /\ MaxTime \in Nat /\ StaleTime \in Int
    /\ ResyncCount \in Nat /\ UInt16Max \in Nat /\ ResyncCount <= UInt16Max
    /\ Cap \in Nat /\ Cap >= 1
<1>1. UInt16Max \in Nat
  BY DEF UInt16Max
<1> QED
  BY <1>1, GateAssumption DEF Cap

\* Both the initial state and the state reset() leaves satisfy the invariant.
LEMMA GateStarts == Init => GateInv
<1> SUFFICES ASSUME Init PROVE GateInv
  OBVIOUS
<1>1. NumbersOK
  BY Bounds DEF Init, NumbersOK
<1>2. FlagsOK
  BY DEF Init, FlagsOK
<1>3. seen \in Seq(Reading)
  BY NoReadings DEF Init
<1>4. StaleIsAge /\ TrackIsShort /\ ResyncIsConfirmed
  BY Bounds DEF Init, StaleIsAge, TrackIsShort, ResyncIsConfirmed
<1>5. TrackMirrors
  BY Bounds DEF Init, TrackMirrors
<1> QED
  BY <1>2, <1>1, <1>3, <1>4, <1>5, TypeParts DEF GateInv

LEMMA InvalidInv ==
    ASSUME GateInv, NEW dt \in Dts, CheckInvalid(dt)
    PROVE  GateInv'
<1>1. /\ TypeOK /\ NumbersOK /\ FlagsOK
      /\ StaleIsAge /\ TrackIsShort /\ TrackMirrors
  BY TypeParts DEF GateInv
<1>2. NumbersOK'
  BY <1>1, Ages DEF CheckInvalid, NumbersOK
<1>3. FlagsOK'
  BY <1>1, Ageing DEF CheckInvalid, FlagsOK, GoesStale
<1>4. seen' \in Seq(Reading)
  BY <1>1, PendingReadings DEF CheckInvalid
<1>5. StaleIsAge'
  BY <1>1, Ageing DEF CheckInvalid, StaleIsAge
<1>6. TrackIsShort' /\ ResyncIsConfirmed'
  BY <1>1 DEF CheckInvalid, TrackIsShort, ResyncIsConfirmed
<1>7. TrackMirrors'
  <2>1. Len(seen') <= Cap
    BY <1>1, PendingReadings DEF CheckInvalid
  <2>2. ASSUME candidates' > 0
        PROVE  /\ candidates' <= Len(seen')
               /\ cand' = seen'[Len(seen')].p
               /\ cand_since' = idle'
               /\ Chain(seen', candidates')
    <3>1. candidates > 0 /\ seen' = seen /\ candidates' = candidates /\ cand' = cand
      BY <1>1, <2>2 DEF CheckInvalid, Pending, TrackIsShort
    <3>2. cand_since' = idle'
      BY <1>1, <3>1 DEF CheckInvalid, CandAge, TrackMirrors
    <3> QED
      BY <1>1, <3>1, <3>2 DEF TrackMirrors
  <2> QED
    BY <2>1, <2>2 DEF TrackMirrors, Chain, Follows
<1>8. TypeOK'
  BY <1>2, <1>3, <1>4 DEF TypeOK, NumbersOK, FlagsOK
<1> QED
  BY <1>5, <1>6, <1>7, <1>8 DEF GateInv

LEMMA AcceptedInv ==
    ASSUME GateInv, NEW p \in Positions, NEW w \in Speeds, NEW dt \in Dts,
           CheckAccepted(p, w, dt)
    PROVE  GateInv'
<1>1. TypeOK /\ NumbersOK /\ FlagsOK /\ StaleIsAge
  BY TypeParts DEF GateInv
<1>2. LockedNow(dt) /\ ~stale
  BY <1>1, Ageing DEF CheckAccepted, InWindow
<1>3. p \in Int
  BY GateAssumption
<1>4. NumbersOK'
  BY <1>1, <1>3, Ages, Bounds DEF CheckAccepted, NumbersOK
<1>5. FlagsOK' /\ seen' \in Seq(Reading)
  BY <1>1, NoReadings DEF CheckAccepted, FlagsOK
<1>6. StaleIsAge'
  <2>1. stale' = stale /\ since' = 0
    BY DEF CheckAccepted
  <2> QED
    BY <1>2, <2>1, Bounds DEF StaleIsAge
<1>7. TrackIsShort' /\ ResyncIsConfirmed'
  BY DEF CheckAccepted, TrackIsShort, ResyncIsConfirmed
<1>8. TrackMirrors'
  BY Bounds DEF CheckAccepted, TrackMirrors
<1>9. TypeOK'
  BY <1>4, <1>5 DEF TypeOK, NumbersOK, FlagsOK
<1> QED
  BY <1>6, <1>7, <1>8, <1>9 DEF GateInv

\* What a reading outside the window does to the track and to the history.
LEMMA CandidateTrack ==
    ASSUME GateInv, NEW p \in Positions, NEW w \in Speeds, NEW dt \in Dts
    PROVE  /\ Noted(p, w, dt) \in Seq(Reading)
           /\ 1 <= Len(Noted(p, w, dt)) /\ Len(Noted(p, w, dt)) <= Cap
           /\ Noted(p, w, dt)[Len(Noted(p, w, dt))].p = p
           /\ Track(p, w, dt) \in {1, candidates + 1}
           /\ Track(p, w, dt) <= Len(Noted(p, w, dt))
           /\ Chain(Noted(p, w, dt), Track(p, w, dt))
<1> DEFINE r == [p |-> p, w |-> w, gap |-> Saturated(idle + dt)]
           t == Recent(Append(Pending, r))
           follows == candidates > 0 /\ Within(p - (cand + w * CandAge(dt)), CandAge(dt))
<1>1. TypeOK /\ NumbersOK /\ TrackIsShort /\ TrackMirrors
  BY TypeParts DEF GateInv
<1>2. r \in Reading /\ r.p = p
  BY <1>1, Ages, GateAssumption DEF Reading
<1>3. Pending \in Seq(Reading) /\ Len(Pending) <= Cap
  BY <1>1, PendingReadings
<1>4. Noted(p, w, dt) = t
  BY DEF Noted
<1>5. t \in Seq(Reading) /\ 1 <= Len(t) /\ Len(t) <= Cap /\ t[Len(t)] = r
  BY <1>2, <1>3, RecentReadings
<1>6. ASSUME follows
      PROVE  candidates + 1 <= Len(t) /\ Chain(t, candidates + 1)
  <2>1. /\ Pending = seen /\ candidates <= Len(seen) /\ cand = seen[Len(seen)].p
        /\ cand_since = idle /\ Chain(seen, candidates) /\ candidates < ResyncCount
    BY <1>1, <1>6 DEF Pending, TrackIsShort, TrackMirrors
  <2>2. r.gap = CandAge(dt) /\ r.p = p /\ r.w = w
    BY <2>1 DEF CandAge
  <2>3. Within(r.p - (seen[Len(seen)].p + r.w * r.gap), r.gap)
    BY <1>6, <2>1, <2>2
  <2>4. candidates \in Nat /\ 1 <= candidates
    BY <1>1, <1>6 DEF NumbersOK
  <2>5. candidates < Cap
    BY <2>1, <2>4, Bounds DEF Cap
  <2> HIDE DEF r
  <2> QED
    BY <1>2, <1>3, <2>1, <2>3, <2>4, <2>5, LongerChain
<1>7. Chain(t, 1)
  BY DEF Chain
<1>8. Track(p, w, dt) = IF follows THEN candidates + 1 ELSE 1
  BY DEF Track
<1>9. Track(p, w, dt) \in {1, candidates + 1}
  BY <1>8
<1> HIDE DEF t, r, follows
<1>10. Track(p, w, dt) <= Len(t) /\ Chain(t, Track(p, w, dt))
  BY <1>5, <1>6, <1>7, <1>8
<1> QED
  BY <1>2, <1>4, <1>5, <1>9, <1>10

LEMMA JumpInv ==
    ASSUME GateInv, NEW p \in Positions, NEW w \in Speeds, NEW dt \in Dts,
           CheckJump(p, w, dt)
    PROVE  GateInv'
<1> DEFINE k == Track(p, w, dt)
           t == Noted(p, w, dt)
<1>1. TypeOK /\ NumbersOK /\ FlagsOK /\ StaleIsAge
  BY TypeParts DEF GateInv
<1>2. /\ t \in Seq(Reading) /\ 1 <= Len(t) /\ Len(t) <= Cap /\ t[Len(t)].p = p
      /\ k \in {1, candidates + 1} /\ k <= Len(t) /\ Chain(t, k)
  BY CandidateTrack
<1>3. k < ResyncCount /\ seen' = t /\ candidates' = k
  BY DEF CheckJump
<1> HIDE DEF k, t
<1>4. p \in Int
  BY GateAssumption
<1>5. candidates' \in 0 .. UInt16Max
  <2>1. candidates + 1 \in Nat
    BY <1>1 DEF NumbersOK
  <2>2. k \in Nat
    BY <1>2, <2>1
  <2> QED
    BY <1>3, <2>2, Bounds
<1>6. NumbersOK'
  BY <1>1, <1>4, <1>5, Ages, Bounds DEF CheckJump, NumbersOK
<1>7. FlagsOK'
  BY <1>1, Ageing DEF CheckJump, FlagsOK, GoesStale
<1>8. StaleIsAge'
  BY <1>1, Ageing DEF CheckJump, StaleIsAge
<1>9. TrackIsShort' /\ ResyncIsConfirmed'
  BY <1>3 DEF CheckJump, TrackIsShort, ResyncIsConfirmed
<1>10. TrackMirrors'
  <2>1. cand' = p /\ cand_since' = idle'
    BY DEF CheckJump
  <2> QED
    BY <1>2, <1>3, <2>1 DEF TrackMirrors, Chain, Follows
<1>11. TypeOK'
  BY <1>2, <1>3, <1>6, <1>7 DEF TypeOK, NumbersOK, FlagsOK
<1> QED
  BY <1>8, <1>9, <1>10, <1>11 DEF GateInv

\* A track long enough to resync fills the whole history.
LEMMA ResyncInv ==
    ASSUME GateInv, NEW p \in Positions, NEW w \in Speeds, NEW dt \in Dts,
           CheckResync(p, w, dt)
    PROVE  GateInv'
<1> DEFINE k == Track(p, w, dt)
           t == Noted(p, w, dt)
<1>1. NumbersOK /\ TrackIsShort
  BY TypeParts DEF GateInv
<1>2. /\ t \in Seq(Reading) /\ 1 <= Len(t) /\ Len(t) <= Cap
      /\ k \in {1, candidates + 1} /\ k <= Len(t) /\ Chain(t, k)
  BY CandidateTrack
<1>3. k >= ResyncCount /\ seen' = t
  BY DEF CheckResync
<1> HIDE DEF k, t
<1>4. p \in Int
  BY GateAssumption
<1>5. NumbersOK'
  BY <1>4, Bounds DEF CheckResync, NumbersOK
<1>6. FlagsOK'
  BY DEF CheckResync, FlagsOK
<1>7. StaleIsAge' /\ TrackIsShort'
  BY Bounds DEF CheckResync, StaleIsAge, TrackIsShort
<1>8. Len(t) = k /\ Len(t) >= ResyncCount
  <2>1. candidates \in Nat /\ (candidates = 0 \/ candidates < ResyncCount)
    BY <1>1 DEF NumbersOK, TrackIsShort
  <2> QED
    BY <1>1, <1>2, <1>3, <2>1, Bounds DEF Cap, NumbersOK
<1>9. Consistent(t)
  <2>1. ASSUME NEW i \in 2 .. Len(t) PROVE Follows(t, i)
    <3>1. Len(t) - i \in 0 .. k - 2 /\ Len(t) - (Len(t) - i) = i
      BY <1>2, <1>8
    <3> QED
      BY <1>2, <3>1 DEF Chain
  <2> QED
    BY <2>1 DEF Consistent
<1>10. ResyncIsConfirmed'
  BY <1>3, <1>8, <1>9 DEF ResyncIsConfirmed, Consistent, Follows
<1>11. TrackMirrors'
  BY <1>2, <1>3 DEF CheckResync, TrackMirrors
<1>12. TypeOK'
  BY <1>2, <1>3, <1>5, <1>6 DEF TypeOK, NumbersOK, FlagsOK
<1> QED
  BY <1>7, <1>10, <1>11, <1>12 DEF GateInv

LEMMA GateStepKeeps == GateInv /\ [Next]_vars => GateInv'
<1> SUFFICES ASSUME GateInv, [Next]_vars PROVE GateInv'
  OBVIOUS
<1>1. CASE Check
  BY <1>1, InvalidInv, AcceptedInv, JumpInv, ResyncInv DEF Check
<1>2. CASE Reset
  <2>1. Init'
    BY <1>2 DEF Reset, Init
  <2> QED
    BY <2>1, GateStarts, PTL
<1>3. CASE UNCHANGED vars
  BY <1>3 DEF vars, gate, GateInv, TypeOK, StaleIsAge, TrackIsShort, TrackMirrors,
              ResyncIsConfirmed, Chain, Follows, Consistent
<1> QED
  BY <1>1, <1>2, <1>3 DEF Next

-----------------------------------------------------------------------------
(* The theorems.                                                           *)

LEMMA GateInvariant == Spec => []GateInv
  BY GateStarts, GateStepKeeps, PTL DEF Spec

\* Times stay below the saturation and the candidate count in its uint16.
THEOREM GateTypeCorrect == Spec => []TypeOK
<1>1. GateInv => TypeOK
  BY DEF GateInv
<1> QED
  BY <1>1, GateInvariant, PTL

\* The fault shows exactly while the last reading let through is too old, and a
\* gate with the fault is unlocked.
THEOREM FaultIsAge == Spec => []StaleIsAge
<1>1. GateInv => StaleIsAge
  BY DEF GateInv
<1> QED
  BY <1>1, GateInvariant, PTL

\* The candidate count never reaches resync_count between calls.
THEOREM TrackStaysShort == Spec => []TrackIsShort
<1>1. GateInv => TrackIsShort
  BY DEF GateInv
<1> QED
  BY <1>1, GateInvariant, PTL

\* No Resync without resync_count readings in a row that follow each other,
\* whatever the window, the speeds, the frame times and the dropped frames.
THEOREM ResyncsAreConfirmed == Spec => []ResyncIsConfirmed
<1>1. GateInv => ResyncIsConfirmed
  BY DEF GateInv
<1> QED
  BY <1>1, GateInvariant, PTL

-----------------------------------------------------------------------------
(* The gate implements the promise.                                        *)

\* The promise counts time, ages the lock and records the readings as the gate does.
LEMMA SameTimes ==
    /\ \A t, dt : Promise!Elapsed(t, dt) = Saturated(t + dt)
    /\ \A dt : (locked /\ ~Promise!Expires(dt)) <=> LockedNow(dt)
    /\ \A p, w, dt : Promise!With(p, w, dt) = Noted(p, w, dt)
    /\ \A s : Promise!Chain(s) <=> Consistent(s)
<1>1. \A t, dt : Promise!Elapsed(t, dt) = Saturated(t + dt)
  BY DEF Promise!Elapsed, Saturated
<1>2. \A dt : Promise!Expires(dt) <=> GoesStale(dt)
  BY <1>1 DEF Promise!Expires, GoesStale, Age
<1>3. \A p, w, dt : Promise!With(p, w, dt) = Noted(p, w, dt)
  BY <1>1 DEF Promise!With, Noted, Recent
<1>4. \A s : Promise!Chain(s) <=> Consistent(s)
  BY DEF Promise!Chain, Consistent, Follows
<1> QED
  BY <1>1, <1>2, <1>3, <1>4 DEF LockedNow

LEMMA InvalidLoses ==
    ASSUME TypeOK, NEW dt \in Dts, CheckInvalid(dt)
    PROVE  Promise!Lose(dt)
<1>1. Pending' = Pending
  BY DEF CheckInvalid, Pending
<1>2. locked' = (locked /\ ~Promise!Expires(dt))
  BY SameTimes DEF CheckInvalid, LockedNow, Promise!Expires, GoesStale, Age
<1> QED
  BY <1>1, <1>2, SameTimes DEF CheckInvalid, Promise!Lose, Promise!Kept, Age

LEMMA AcceptedDelivers ==
    ASSUME NEW p \in Positions, NEW w \in Speeds, NEW dt \in Dts,
           CheckAccepted(p, w, dt)
    PROVE  Promise!Deliver(p, w, dt)
<1>1. Pending' = <<>>
  BY DEF CheckAccepted, Pending
<1>2. Promise!Delivered(p)
  BY <1>1 DEF CheckAccepted, Promise!Delivered
<1> QED
  BY <1>2, SameTimes DEF CheckAccepted, InWindow, Age, Promise!Deliver

LEMMA JumpWithholds ==
    ASSUME TypeOK, NEW p \in Positions, NEW w \in Speeds, NEW dt \in Dts,
           CheckJump(p, w, dt)
    PROVE  Promise!Withhold(p, w, dt)
<1>1. Pending' = Noted(p, w, dt)
  BY DEF CheckJump, Pending
<1>2. locked' = (locked /\ ~Promise!Expires(dt))
  BY SameTimes DEF CheckJump, LockedNow, Promise!Expires, GoesStale, Age
<1> QED
  BY <1>1, <1>2, SameTimes DEF CheckJump, Promise!Withhold, Promise!Kept, Age

\* The track that resyncs the gate is the whole history, and a chain.
LEMMA ResyncConfirms ==
    ASSUME GateInv, GateInv', NEW p \in Positions, NEW w \in Speeds, NEW dt \in Dts,
           CheckResync(p, w, dt)
    PROVE  Promise!Confirm(p, w, dt)
<1>1. Len(Noted(p, w, dt)) >= ResyncCount /\ Consistent(Noted(p, w, dt))
  BY DEF GateInv, ResyncIsConfirmed, CheckResync, Consistent, Follows
<1>2. Pending' = <<>>
  BY DEF CheckResync, Pending
<1>3. Promise!Delivered(p)
  BY <1>2 DEF CheckResync, Promise!Delivered
<1> QED
  BY <1>1, <1>3, SameTimes DEF Promise!Confirm

LEMMA StepKeepsPromise ==
    ASSUME GateInv, GateInv', [Next]_vars
    PROVE  [Promise!Next]_(Promise!delivery)
<1>1. CASE Check
  <2>1. ASSUME NEW dt \in Dts, CheckInvalid(dt) PROVE Promise!Next
    BY <2>1, InvalidLoses DEF GateInv, Promise!Next
  <2>2. ASSUME NEW dt \in Dts, NEW p \in Positions, NEW w \in Speeds,
               CheckAccepted(p, w, dt) \/ CheckJump(p, w, dt) \/ CheckResync(p, w, dt)
        PROVE  Promise!Next
    BY <2>2, AcceptedDelivers, JumpWithholds, ResyncConfirms DEF GateInv, Promise!Next
  <2> QED
    BY <1>1, <2>1, <2>2 DEF Check
<1>2. CASE Reset
  BY <1>2 DEF Reset, Pending, Promise!Next, Promise!Restart
<1>3. CASE UNCHANGED vars
  BY <1>3 DEF vars, gate, Pending, Promise!delivery
<1> QED
  BY <1>1, <1>2, <1>3 DEF Next

\* The gate implements ConfirmedDelivery: whatever the window, the times and the
\* dropped frames, a reading gets through near a fresh one or confirmed by
\* resync_count readings in a row, and the track, its age and the fault flag are
\* no more than the means to it.
THEOREM GateKeepsPromise == Spec => KeepsPromise
<1>1. Init => Promise!Init
  BY DEF Init, Promise!Init, Pending
<1>2. GateInv /\ GateInv' /\ [Next]_vars => [Promise!Next]_(Promise!delivery)
  BY StepKeepsPromise
<1> QED
  BY <1>1, <1>2, GateInvariant, PTL DEF Spec, KeepsPromise, Promise!Spec

-----------------------------------------------------------------------------
(* The tracker behind the gate.                                            *)

allVars == <<vars, tracker, world>>

-----------------------------------------------------------------------------
(* Arithmetic.                                                             *)

\* The axis after one more tick.
LEMMA OneTickFurther ==
    ASSUME NEW v \in Int, NEW n \in Int
    PROVE  v * (n + 1) = v * n + v
OBVIOUS

\* Two stretches of a motion join.
LEMMA StretchesJoin ==
    ASSUME NEW v \in Int, NEW a \in Int, NEW b \in Int
    PROVE  v * (a - b) + v * b = v * a
OBVIOUS

\* A correction by no deviation is none.
LEMMA NoCorrection ==
    ASSUME NEW k \in Int, NEW dt \in Int
    PROVE  k * 0 * dt = 0
OBVIOUS

\* A longer time opens the window further.
LEMMA LongerIsWider ==
    ASSUME NEW a \in Nat, NEW s \in Nat, NEW t \in Nat, s <= t
    PROVE  a * s * s <= a * t * t
<1>1. s * s <= t * t
  <2>1. s * s <= t * s
    OBVIOUS
  <2>2. t * s <= t * t
    OBVIOUS
  <2>3. s * s \in Int /\ t * s \in Int /\ t * t \in Int
    OBVIOUS
  <2> QED
    BY <2>1, <2>2, <2>3
<1>2. ASSUME NEW x \in Int, NEW y \in Int, x <= y
      PROVE  a * x <= a * y
  BY <1>2
<1>3. a * (s * s) <= a * (t * t)
  BY <1>1, <1>2
<1> QED
  BY <1>3

\* The constants as plain integers.
LEMMA Numbers ==
    /\ Velocity \in Int /\ Kp \in Int /\ Ki \in Int /\ Glitches \subseteq Int
    /\ MaxTime \in Nat /\ MaxNow \in Nat /\ MaxPeriod \in Nat
    /\ MaxNow <= MaxTime
    /\ ResyncCount \in Nat /\ Tolerance \in Int /\ MaxAccel \in Int
BY GateAssumption, TrackerAssumption

\* A glitch is outside the window at every time the gate can measure, on either side.
LEMMA GlitchIsOutside ==
    ASSUME NEW g \in Glitches, NEW t \in 0 .. MaxTime
    PROVE  ~Within(g, t) /\ ~Within(-g, t)
<1> DEFINE accel == IF MaxAccel > 0 THEN MaxAccel ELSE 0
           dist == IF g < 0 THEN -g ELSE g
<1>1. g \in Int /\ accel \in Nat /\ dist \in Nat
  BY Numbers
<1>2. Tolerance > 0 /\ ~(2 * dist <= 2 * Tolerance + accel * MaxTime * MaxTime)
  BY TrackerAssumption DEF Within
<1>3. accel * t * t <= accel * MaxTime * MaxTime
  BY <1>1, Numbers, LongerIsWider
<1>4. accel * t * t \in Int /\ accel * MaxTime * MaxTime \in Int
  BY <1>1, Numbers
<1>5. ASSUME NEW p \in Int, NEW q \in Int, p <= q, ~(2 * dist <= 2 * Tolerance + q)
      PROVE  ~(2 * dist <= 2 * Tolerance + p)
  BY <1>1, <1>5, Numbers
<1>6. ~(2 * dist <= 2 * Tolerance + accel * t * t)
  BY <1>2, <1>3, <1>4, <1>5
<1>7. dist = IF -g < 0 THEN -(-g) ELSE -g
  BY <1>1
<1> QED
  BY <1>2, <1>6, <1>7 DEF Within

-----------------------------------------------------------------------------
(* The invariant.                                                          *)

TrackerNumbers ==
    /\ meas \in Int /\ since_meas \in Nat
    /\ now \in 0 .. MaxNow /\ waiting \in 0 .. now /\ glitched \in Nat
    /\ delivered \in 0 .. now
    /\ since \in Nat /\ cand_since \in Nat /\ last \in Int /\ cand \in Int
    /\ candidates \in Nat

TrackerType == TrackerNumbers /\ locked \in BOOLEAN

\* The gate's clocks are real times.
Clocks ==
    /\ since + waiting <= now /\ cand_since + waiting <= now
    /\ locked => since + waiting = now - delivered

\* A locked gate compares with a true position.
LastIsTrue == locked => last + Velocity * (since + waiting) = Truth

\* A candidate track ends in a true position, or is made of the glitches since the last.
TrackIsKnown ==
    candidates > 0 =>
        \/ cand + Velocity * (cand_since + waiting) = Truth
        \/ candidates <= glitched

IInv == TrackerType /\ Clocks /\ LastIsTrue /\ TrackIsKnown /\ TrackerUndisturbed

\* The clocks of the gate do not saturate.
LEMMA ClocksRun ==
    ASSUME TrackerType, Clocks
    PROVE  /\ Age(waiting) = since + waiting /\ CandAge(waiting) = cand_since + waiting
           /\ Age(waiting) \in 0 .. MaxTime /\ CandAge(waiting) \in 0 .. MaxTime
BY Numbers DEF TrackerType, TrackerNumbers, Clocks, Age, CandAge, Saturated

LEMMA Starts == TInit => IInv
<1> SUFFICES ASSUME TInit PROVE IInv
  OBVIOUS
<1>1. Velocity * 0 = 0 /\ Velocity \in Int
  BY Numbers
<1>2. TrackerNumbers
  BY Numbers DEF TInit, Init, TrackerNumbers
<1>5. locked \in BOOLEAN
  BY Zenon DEF TInit, Init
<1>3. Clocks /\ LastIsTrue /\ TrackIsKnown
  BY DEF TInit, Init, Clocks, LastIsTrue, TrackIsKnown
<1>4. TrackerUndisturbed
  BY <1>1 DEF TInit, TrackerUndisturbed, Truth, Position
<1> QED
  BY <1>2, <1>3, <1>4, <1>5 DEF IInv, TrackerType

-----------------------------------------------------------------------------
(* One lemma per action.                                                   *)

LEMMA PredictKeeps == ASSUME IInv, Predict PROVE IInv'
<1> USE Numbers
<1>1. /\ now \in Nat /\ waiting \in Nat /\ since \in Nat /\ cand_since \in Nat /\ since_meas \in Nat
      /\ meas \in Int /\ last \in Int /\ cand \in Int
  BY DEF IInv, TrackerType, TrackerNumbers
<1>2. /\ now' = now + 1 /\ waiting' = waiting + 1 /\ since_meas' = since_meas + 1
      /\ est' = est + omega /\ omega' = omega /\ meas' = meas
      /\ since' = since /\ cand_since' = cand_since /\ last' = last /\ cand' = cand
      /\ candidates' = candidates /\ locked' = locked
      /\ glitched' = glitched /\ delivered' = delivered
  BY DEF Predict, vars, gate
<1>3. Truth' = Truth + Velocity
  BY <1>1, <1>2, OneTickFurther DEF Truth
<1>4. ASSUME NEW a \in Nat, NEW b \in Nat
      PROVE  Velocity * (a + (b + 1)) = Velocity * (a + b) + Velocity
  <2>1. a + (b + 1) = (a + b) + 1
    OBVIOUS
  <2> QED
    BY <2>1, OneTickFurther
<1>5. /\ Truth \in Int
      /\ \A a, b \in Nat : Velocity * (a + b) \in Int
  BY <1>1 DEF Truth
<1>6. TrackerType'
  BY <1>1, <1>2 DEF IInv, TrackerType, TrackerNumbers, Predict
<1>7. Clocks'
  BY <1>1, <1>2 DEF IInv, TrackerType, TrackerNumbers, Clocks
<1>8. LastIsTrue'
  BY <1>1, <1>2, <1>3, <1>4, <1>5 DEF IInv, LastIsTrue
<1>9. TrackIsKnown'
  BY <1>1, <1>2, <1>3, <1>4, <1>5 DEF IInv, TrackIsKnown
<1>10. TrackerUndisturbed'
  <2>1. omega = Velocity /\ est = Truth /\ meas + Velocity * since_meas = Truth
    BY DEF IInv, TrackerUndisturbed, Position
  <2>2. Velocity * (since_meas + 1) = Velocity * since_meas + Velocity
    BY <1>1, OneTickFurther
  <2>3. Velocity * since_meas \in Int
    BY <1>1
  <2> QED
    BY <1>1, <1>2, <1>3, <1>5, <2>1, <2>2, <2>3 DEF TrackerUndisturbed, Position
<1> QED
  BY <1>6, <1>7, <1>8, <1>9, <1>10 DEF IInv

\* A reading that is let through and true leaves the tracker on the axis.
LEMMA TrueReadingKeeps ==
    ASSUME TrackerType, TrackerUndisturbed, now' = now,
           NEW dt \in Int,
           \/ interval' = dt /\ TrackerUpdate(Truth, interval')
           \/ TrackerReset(Truth, omega)
    PROVE  TrackerUndisturbed' /\ meas' \in Int /\ since_meas' \in Nat
<1> USE Numbers
<1>1. est = Truth /\ omega = Velocity /\ now \in Int
  BY DEF TrackerType, TrackerNumbers, TrackerUndisturbed
<1>2. Truth \in Int /\ Truth' = Truth
  BY <1>1 DEF Truth
<1>3. Truth - est = 0
  BY <1>1, <1>2
<1>4. Kp * 0 * dt = 0 /\ Ki * 0 * dt = 0 /\ Velocity * 0 = 0
  BY NoCorrection
<1>5. meas' = Truth /\ since_meas' = 0
  BY DEF TrackerUpdate, TrackerReset
<1>6. est' = Truth /\ omega' = Velocity
  <2>1. CASE interval' = dt /\ TrackerUpdate(Truth, interval')
    <3>1. est' = est + Kp * 0 * dt /\ omega' = omega + Ki * 0 * dt
      BY <1>3, <2>1 DEF TrackerUpdate
    <3> QED
      BY <1>1, <1>2, <1>4, <3>1
  <2>2. CASE TrackerReset(Truth, omega)
    BY <1>1, <2>2 DEF TrackerReset
  <2> QED
    BY <2>1, <2>2
<1> QED
  BY <1>2, <1>4, <1>5, <1>6 DEF TrackerUndisturbed, Position

LEMMA GoodFrameKeeps == ASSUME IInv, GoodFrame PROVE IInv'
<1> USE Numbers
<1>1. now' = now /\ waiting' = 0 /\ glitched' = 0 /\ Truth' = Truth
  BY DEF GoodFrame, Truth
<1>2. /\ Age(waiting) = since + waiting /\ CandAge(waiting) = cand_since + waiting
      /\ Age(waiting) \in 0 .. MaxTime /\ CandAge(waiting) \in 0 .. MaxTime
  BY ClocksRun DEF IInv
<1>3. /\ now \in Nat /\ waiting \in Nat /\ since \in Nat /\ cand_since \in Nat
      /\ candidates \in Nat /\ Truth \in Int /\ last \in Int /\ cand \in Int
      /\ delivered \in 0 .. now /\ now \in 0 .. MaxNow /\ glitched \in Nat
  BY DEF IInv, TrackerType, TrackerNumbers, Truth
<1>4. Velocity * (0 + 0) = 0
  OBVIOUS
<1>5. CASE CheckAccepted(Truth, omega, waiting) /\ TrackerUpdate(Truth, interval') /\ delivered' = now
  <2>1. /\ last' = Truth /\ since' = 0 /\ cand' = cand /\ cand_since' = cand_since + waiting
        /\ candidates' = 0 /\ locked' = TRUE /\ interval' = since + waiting
    BY <1>2, <1>5 DEF CheckAccepted
  <2>2. TrackerUndisturbed' /\ meas' \in Int /\ since_meas' \in Nat
    BY <1>1, <1>3, <1>5, <2>1, TrueReadingKeeps DEF IInv
  <2>3. TrackerType' /\ Clocks'
    BY <1>1, <1>3, <1>5, <2>1, <2>2 DEF IInv, TrackerType, TrackerNumbers, Clocks
  <2>4. LastIsTrue' /\ TrackIsKnown'
    BY <1>1, <1>3, <1>4, <2>1 DEF LastIsTrue, TrackIsKnown
  <2> QED
    BY <2>2, <2>3, <2>4 DEF IInv
<1>6. CASE CheckJump(Truth, omega, waiting) /\ UNCHANGED <<tracker, delivered>>
  <2>1. /\ last' = last /\ since' = since + waiting /\ cand' = Truth /\ cand_since' = 0
        /\ candidates' = Track(Truth, omega, waiting)
        /\ locked' = LockedNow(waiting)
        /\ UNCHANGED <<meas, est, omega, since_meas, delivered>>
    BY <1>2, <1>6 DEF CheckJump, tracker
  <2>2. Track(Truth, omega, waiting) \in Nat
    BY <1>3 DEF Track
  <2>3. LockedNow(waiting) \in BOOLEAN /\ (LockedNow(waiting) => locked)
    BY DEF LockedNow
  <2>4. TrackerUndisturbed'
    BY <1>1, <2>1 DEF IInv, TrackerUndisturbed, Position
  <2>5. TrackerType' /\ Clocks'
    BY <1>1, <1>3, <2>1, <2>2, <2>3 DEF IInv, TrackerType, TrackerNumbers, Clocks
  <2>6. LastIsTrue'
    BY <1>1, <1>3, <2>1, <2>3 DEF IInv, LastIsTrue
  <2>7. TrackIsKnown'
    BY <1>1, <1>3, <1>4, <2>1 DEF TrackIsKnown
  <2> QED
    BY <2>4, <2>5, <2>6, <2>7 DEF IInv
<1>7. CASE CheckResync(Truth, omega, waiting) /\ TrackerReset(Truth, omega) /\ delivered' = now
  <2>1. /\ last' = Truth /\ since' = 0 /\ cand' = Truth /\ cand_since' = 0
        /\ candidates' = 0 /\ locked' = TRUE
    BY <1>7 DEF CheckResync
  <2>2. TrackerUndisturbed' /\ meas' \in Int /\ since_meas' \in Nat
    BY <1>1, <1>3, <1>7, TrueReadingKeeps DEF IInv
  <2>3. TrackerType' /\ Clocks'
    BY <1>1, <1>3, <1>7, <2>1, <2>2 DEF IInv, TrackerType, TrackerNumbers, Clocks
  <2>4. LastIsTrue' /\ TrackIsKnown'
    BY <1>1, <1>3, <1>4, <2>1 DEF LastIsTrue, TrackIsKnown
  <2> QED
    BY <2>2, <2>3, <2>4 DEF IInv
<1> QED
  BY <1>5, <1>6, <1>7 DEF GoodFrame, Update

\* What a glitch deviates by from a true position carried on.
LEMMA Deviation ==
    ASSUME NEW g \in Int, NEW p \in Int, NEW v \in Int, NEW t \in Int, NEW from \in Int,
           from + v * t = p
    PROVE  (p + g) - (from + v * t) = g
OBVIOUS

LEMMA GlitchFrameKeeps == ASSUME IInv, GlitchFrame PROVE IInv'
<1> USE Numbers
<1>1. /\ now' = now /\ waiting' = 0 /\ glitched' = glitched + 1 /\ Truth' = Truth
      /\ glitched + 1 < ResyncCount
  BY DEF GlitchFrame, Truth
<1>2. PICK g \in Glitches : Update(Truth + g, waiting)
  BY DEF GlitchFrame
<1>3. /\ Age(waiting) = since + waiting /\ CandAge(waiting) = cand_since + waiting
      /\ Age(waiting) \in 0 .. MaxTime /\ CandAge(waiting) \in 0 .. MaxTime
  BY ClocksRun DEF IInv
<1>4. /\ now \in Nat /\ waiting \in Nat /\ since \in Nat /\ cand_since \in Nat
      /\ candidates \in Nat /\ Truth \in Int /\ last \in Int /\ cand \in Int
      /\ delivered \in 0 .. now /\ now \in 0 .. MaxNow /\ glitched \in Nat
      /\ omega = Velocity /\ g \in Int
  BY DEF IInv, TrackerType, TrackerNumbers, Truth, TrackerUndisturbed
<1>5. ~InWindow(Truth + g, omega, waiting)
  <2>1. CASE ~LockedNow(waiting)
    BY <2>1 DEF InWindow
  <2>2. CASE LockedNow(waiting)
    <3>1. last + Velocity * (since + waiting) = Truth
      BY <2>2 DEF IInv, LastIsTrue, LockedNow
    <3>2. (Truth + g) - (last + omega * Age(waiting)) = g
      BY <1>3, <1>4, <3>1, Deviation
    <3> QED
      BY <1>3, <3>2, GlitchIsOutside DEF InWindow
  <2> QED
    BY <2>1, <2>2
<1>6. /\ Track(Truth + g, omega, waiting) \in Nat
      /\ Track(Truth + g, omega, waiting) <= glitched + 1
  <2>1. CASE candidates > 0 /\ cand + Velocity * (cand_since + waiting) = Truth
    <3>1. (Truth + g) - (cand + omega * CandAge(waiting)) = g
      BY <1>3, <1>4, <2>1, Deviation
    <3>2. Track(Truth + g, omega, waiting) = 1
      BY <1>3, <3>1, GlitchIsOutside DEF Track
    <3> QED
      BY <1>4, <3>2
  <2>2. CASE candidates = 0 \/ candidates <= glitched
    BY <1>4, <2>2 DEF Track
  <2> QED
    BY <1>4, <2>1, <2>2 DEF IInv, TrackIsKnown
<1>7. CheckJump(Truth + g, omega, waiting) /\ UNCHANGED <<tracker, delivered>>
  <2>1. Track(Truth + g, omega, waiting) < ResyncCount
    BY <1>1, <1>4, <1>6
  <2>2. ~CheckAccepted(Truth + g, omega, waiting)
    BY <1>5 DEF CheckAccepted
  <2>3. ~CheckResync(Truth + g, omega, waiting)
    BY <2>1, <1>6 DEF CheckResync
  <2> QED
    BY <1>2, <2>2, <2>3 DEF Update
<1>8. /\ last' = last /\ since' = since + waiting /\ cand' = Truth + g /\ cand_since' = 0
      /\ candidates' = Track(Truth + g, omega, waiting)
      /\ locked' = LockedNow(waiting)
      /\ UNCHANGED <<meas, est, omega, since_meas, delivered>>
  BY <1>3, <1>7 DEF CheckJump, tracker
<1>9. LockedNow(waiting) \in BOOLEAN /\ (LockedNow(waiting) => locked)
  BY DEF LockedNow
<1>10. TrackerUndisturbed'
  BY <1>1, <1>8 DEF IInv, TrackerUndisturbed, Position
<1>11. TrackerType' /\ Clocks'
  BY <1>1, <1>4, <1>6, <1>8, <1>9 DEF IInv, TrackerType, TrackerNumbers, Clocks
<1>12. LastIsTrue'
  BY <1>1, <1>4, <1>8, <1>9 DEF IInv, LastIsTrue
<1>13. TrackIsKnown'
  BY <1>1, <1>4, <1>6, <1>8 DEF TrackIsKnown
<1> QED
  BY <1>10, <1>11, <1>12, <1>13 DEF IInv

LEMMA LostFrameKeeps == ASSUME IInv, LostFrame PROVE IInv'
<1> USE Numbers
<1>1. /\ Age(waiting) = since + waiting /\ CandAge(waiting) = cand_since + waiting
  BY ClocksRun DEF IInv
<1>2. /\ waiting' = 0 /\ now' = now /\ glitched' = glitched /\ delivered' = delivered
      /\ since' = since + waiting /\ cand_since' = cand_since + waiting
      /\ locked' = LockedNow(waiting) /\ Truth' = Truth
      /\ UNCHANGED <<meas, est, omega, since_meas, last, cand, candidates>>
  BY <1>1 DEF LostFrame, CheckInvalid, tracker, Truth
<1>3. LockedNow(waiting) \in BOOLEAN /\ (LockedNow(waiting) => locked)
  BY DEF LockedNow
<1>4. TrackerUndisturbed'
  BY <1>2 DEF IInv, TrackerUndisturbed, Position
<1>5. TrackerType' /\ Clocks'
  BY <1>2, <1>3 DEF IInv, TrackerType, TrackerNumbers, Clocks
<1>6. since + waiting + 0 = since + waiting /\ cand_since + waiting + 0 = cand_since + waiting
  BY DEF IInv, TrackerType, TrackerNumbers
<1>7. LastIsTrue'
  BY <1>2, <1>3, <1>6 DEF IInv, LastIsTrue
<1>8. TrackIsKnown'
  BY <1>2, <1>6 DEF IInv, TrackIsKnown
<1> QED
  BY <1>4, <1>5, <1>7, <1>8 DEF IInv

LEMMA GateResetKeeps == ASSUME IInv, GateReset PROVE IInv'
<1> USE Numbers
<1>1. /\ last' = 0 /\ cand' = 0 /\ since' = 0 /\ cand_since' = 0 /\ candidates' = 0
      /\ locked' = FALSE /\ delivered' = now /\ Truth' = Truth
      /\ UNCHANGED <<meas, est, omega, since_meas, now, waiting, glitched>>
  BY DEF GateReset, Reset, tracker, Truth
<1>2. TrackerUndisturbed'
  BY <1>1 DEF IInv, TrackerUndisturbed, Position
<1>3. TrackerNumbers'
  BY <1>1 DEF IInv, TrackerType, TrackerNumbers
<1>6. (locked \in BOOLEAN)'
  BY <1>1, Zenon
<1>4. Clocks'
  BY <1>1 DEF IInv, TrackerType, TrackerNumbers, Clocks
<1>5. LastIsTrue' /\ TrackIsKnown'
  BY <1>1 DEF LastIsTrue, TrackIsKnown
<1> QED
  BY <1>2, <1>3, <1>4, <1>5, <1>6 DEF IInv, TrackerType

LEMMA StutterKeeps == ASSUME IInv, UNCHANGED allVars PROVE IInv'
BY DEF IInv, allVars, vars, gate, tracker, world, TrackerType, TrackerNumbers, Clocks, LastIsTrue,
   TrackIsKnown, TrackerUndisturbed, Truth, Position

LEMMA StepKeeps == ASSUME IInv, [TNext]_allVars PROVE IInv'
BY PredictKeeps, GoodFrameKeeps, GlitchFrameKeeps, LostFrameKeeps, GateResetKeeps,
   StutterKeeps DEF TNext, TimeUp, allVars

-----------------------------------------------------------------------------
(* The theorems.                                                           *)

\* No glitch, lost frame, stale period, resync or reset of the gate ever moves the
\* tracker off an axis it follows: whatever its gains, the speed, the rates of the two
\* loops and the configuration of the gate.
THEOREM GlitchesLeaveNoTrace ==
    TSpec => []TrackerUndisturbed
<1>1. TInit => IInv
  BY Starts
<1>2. IInv /\ [TNext]_<<vars, tracker, world>> => IInv'
  BY StepKeeps DEF allVars
<1>3. IInv => TrackerUndisturbed
  BY DEF IInv
<1> QED
  BY <1>1, <1>2, <1>3, PTL DEF TSpec

\* The interval an accepted reading is integrated over is always the real one.
THEOREM IntervalsAreReal ==
    TSpec => IntervalIsReal
<1> DEFINE Real == verdict' = "Accepted" /\ delivered' # delivered
                     => interval' = now - delivered
<1>1. TInit => IInv
  BY Starts
<1>2. IInv /\ [TNext]_<<vars, tracker, world>> => IInv'
  BY StepKeeps DEF allVars
<1>3. ASSUME IInv, TNext, verdict' = "Accepted", delivered' # delivered
      PROVE  interval' = now - delivered
  <2>1. PICK p : CheckAccepted(p, omega, waiting)
    <3>1. ~CheckJump(Truth, omega, waiting) /\ ~CheckResync(Truth, omega, waiting)
      BY <1>3 DEF CheckJump, CheckResync
    <3>2. \A g : ~CheckJump(Truth + g, omega, waiting) /\ ~CheckResync(Truth + g, omega, waiting)
      BY <1>3 DEF CheckJump, CheckResync
    <3>3. ~Predict /\ ~LostFrame /\ ~GateReset /\ ~TimeUp
      BY <1>3 DEF Predict, LostFrame, CheckInvalid, GateReset, Reset, TimeUp, world
    <3> QED
      BY <1>3, <3>1, <3>2, <3>3 DEF TNext, GoodFrame, GlitchFrame, Update
  <2>2. interval' = Age(waiting) /\ locked
    BY <2>1 DEF CheckAccepted, InWindow, LockedNow
  <2>3. since + waiting = now - delivered
    BY <1>3, <2>2 DEF IInv, Clocks
  <2> QED
    BY <1>3, <2>2, <2>3, ClocksRun DEF IInv
<1>4. IInv /\ [TNext]_<<vars, tracker, world>> => [Real]_<<vars, tracker, world>>
  BY <1>3
<1> QED
  BY <1>1, <1>2, <1>4, PTL DEF TSpec, IntervalIsReal

-----------------------------------------------------------------------------
(* Why an axis at rest is found again: how many readings the gate still asks for. *)

\* Locked on the axis, by the reading just taken.
AtRest == locked /\ last = Home /\ since = 0

\* The readings of the axis at rest that the gate may still withhold or confirm.
ReadingsToGo ==
    CASE AtRest                                 -> 0
      [] ~AtRest /\ candidates > 0 /\ cand = Home -> Cap - candidates
      [] OTHER                                  -> Cap

\* One reading of the axis at rest, dt after the call before.
SteadyAfter(dt) ==
    CheckAccepted(Home, 0, dt) \/ CheckJump(Home, 0, dt) \/ CheckResync(Home, 0, dt)

InTime(dt) == dt > 0 /\ (StaleTime > 0 => dt <= StaleTime)

\* A reading where the axis was is inside the window, however long ago that was.
LEMMA NoMotionIsInside ==
    ASSUME NEW t \in 0 .. MaxTime
    PROVE  Within(Home - (Home + 0 * t), t)
<1> DEFINE accel == IF MaxAccel > 0 THEN MaxAccel ELSE 0
<1>1. t \in Nat /\ accel \in Nat /\ Tolerance \in Int
  BY GateAssumption
<1>2. Home - (Home + 0 * t) = 0
  BY <1>1 DEF Home
<1>3. accel * t * t \in Nat
  BY <1>1
<1> HIDE DEF accel
<1>4. Tolerance > 0 => 2 * 0 <= 2 * Tolerance + accel * t * t
  BY <1>1, <1>3
<1> USE DEF accel
<1>5. Within(0, t)
  BY <1>4 DEF Within
<1> QED
  BY <1>2, <1>5

LEMMA ToGo ==
    GateInv => ReadingsToGo \in Nat /\ (ReadingsToGo = 0 <=> AtRest)
<1> SUFFICES ASSUME GateInv PROVE ReadingsToGo \in Nat /\ (ReadingsToGo = 0 <=> AtRest)
  OBVIOUS
<1>1. candidates \in Nat /\ (candidates = 0 \/ candidates < ResyncCount)
  BY DEF GateInv, TypeOK, TrackIsShort
<1>2. candidates < Cap
  BY <1>1, Bounds DEF Cap
<1>3. Cap - candidates \in Nat \ {0} /\ Cap \in Nat \ {0}
  BY <1>1, <1>2, Bounds
<1> QED
  BY <1>3 DEF ReadingsToGo

\* What is let through is the axis, and what is withheld lengthens its track.
LEMMA SteadyCounts ==
    ASSUME GateInv, NEW dt \in Dts, SteadyAfter(dt)
    PROVE  \/ AtRest'
           \/ /\ ~InWindow(Home, 0, dt)
              /\ cand' = Home /\ candidates' < ResyncCount
              /\ candidates > 0 /\ cand = Home => candidates' = candidates + 1
              /\ candidates' \in {1, candidates + 1}
<1>1. CASE CheckAccepted(Home, 0, dt)
  BY <1>1 DEF CheckAccepted, AtRest
<1>2. CASE CheckResync(Home, 0, dt)
  BY <1>2 DEF CheckResync, AtRest
<1>3. CASE CheckJump(Home, 0, dt)
  <2>1. /\ ~InWindow(Home, 0, dt)
        /\ candidates' = Track(Home, 0, dt) /\ cand' = Home
        /\ Track(Home, 0, dt) < ResyncCount
    BY <1>3 DEF CheckJump
  <2>2. Track(Home, 0, dt) \in {1, candidates + 1}
    BY DEF Track
  <2>3. CandAge(dt) \in 0 .. MaxTime
    BY Ages DEF GateInv
  <2>4. cand = Home => Within(Home - (cand + 0 * CandAge(dt)), CandAge(dt))
    BY <2>3, NoMotionIsInside
  <2>5. candidates > 0 /\ cand = Home => Track(Home, 0, dt) = candidates + 1
    BY <2>4 DEF Track
  <2> QED
    BY <2>1, <2>2, <2>5
<1> QED
  BY <1>1, <1>2, <1>3 DEF SteadyAfter

\* A lock on the axis is kept by the next reading of it that comes in time.
LEMMA RestStays ==
    ASSUME GateInv, NEW dt \in Dts, SteadyAfter(dt), AtRest, InTime(dt)
    PROVE  AtRest'
<1>1. Age(dt) = IF dt < MaxTime THEN dt ELSE MaxTime
  BY GateAssumption DEF AtRest, Age, Saturated
<1>2. ~GoesStale(dt)
  BY <1>1, GateAssumption DEF GoesStale, InTime
<1>3. Age(dt) \in 0 .. MaxTime
  BY Ages DEF GateInv
<1>4. InWindow(Home, 0, dt)
  BY <1>2, <1>3, NoMotionIsInside DEF InWindow, LockedNow, AtRest
<1> QED
  BY <1>4, SteadyCounts

SteadyReadingsCount ==
    \A dt \in Dts :
        SteadyAfter(dt) /\ (~AtRest \/ InTime(dt)) =>
            IF AtRest THEN AtRest' ELSE ReadingsToGo' < ReadingsToGo

LEMMA ToGoAgain == GateInv' => (ReadingsToGo \in Nat /\ (ReadingsToGo = 0 <=> AtRest))'
BY ToGo, PTL

LEMMA SteadyStep == GateInv /\ [Next]_vars => SteadyReadingsCount
<1> SUFFICES ASSUME GateInv, GateInv', NEW dt \in Dts, SteadyAfter(dt),
                    ~AtRest \/ InTime(dt)
             PROVE  IF AtRest THEN AtRest' ELSE ReadingsToGo' < ReadingsToGo
  BY GateStepKeeps DEF SteadyReadingsCount
<1>1. CASE AtRest
  BY <1>1, RestStays
<1>2. CASE ~AtRest /\ AtRest'
  BY <1>2, ToGo, ToGoAgain
<1>3. CASE ~AtRest /\ ~AtRest'
  <2>1. /\ candidates' < ResyncCount /\ cand' = Home
        /\ candidates > 0 /\ cand = Home => candidates' = candidates + 1
        /\ candidates' \in {1, candidates + 1}
    BY <1>3, SteadyCounts
  <2>2. candidates \in Nat /\ ResyncCount \in Nat
    BY Bounds DEF GateInv, TypeOK
  <2>3. candidates' \in Nat \ {0} /\ Cap \in Nat
    BY <2>1, <2>2, Bounds
  <2>4. ReadingsToGo' = Cap - candidates'
    BY <1>3, <2>1, <2>3 DEF ReadingsToGo, Cap
  <2>5. CASE candidates > 0 /\ cand = Home
    <3>1. ReadingsToGo = Cap - candidates
      BY <1>3, <2>5 DEF ReadingsToGo
    <3> QED
      BY <1>3, <2>1, <2>2, <2>3, <2>4, <2>5, <3>1
  <2>6. CASE ~(candidates > 0 /\ cand = Home)
    <3>1. ReadingsToGo = Cap
      BY <1>3, <2>6 DEF ReadingsToGo
    <3>2. Cap - candidates' < Cap
      <4> DEFINE d == candidates'
                 c == Cap
      <4>1. d \in Nat \ {0} /\ c \in Nat
        BY <2>3
      <4> HIDE DEF d, c
      <4>2. c - d < c
        BY <4>1
      <4> QED
        BY <4>2 DEF c, d
    <3>3. ReadingsToGo' < ReadingsToGo
      BY <2>4, <3>1, <3>2
    <3> QED
      BY <1>3, <3>3
  <2> QED
    BY <2>5, <2>6
<1> QED
  BY <1>1, <1>2, <1>3

\* check(): an axis at rest is found again after at most resync_count readings of it
\* (one if that is 0), whatever came before, and is not lost while they keep coming
\* within stale_time.
THEOREM SteadyReadingsLock ==
    Spec => /\ [](/\ ReadingsToGo \in 0 .. Cap
                  /\ ReadingsToGo = 0 <=> locked /\ last = Home /\ since = 0)
            /\ [][SteadyReadingsCount]_vars
<1>1. GateInv => /\ ReadingsToGo \in 0 .. Cap
                 /\ ReadingsToGo = 0 <=> locked /\ last = Home /\ since = 0
  <2> SUFFICES ASSUME GateInv
               PROVE  /\ ReadingsToGo \in 0 .. Cap
                      /\ ReadingsToGo = 0 <=> AtRest
    BY DEF AtRest
  <2>1. candidates \in Nat /\ Cap \in Nat
    BY Bounds DEF GateInv, TypeOK
  <2>2. ReadingsToGo <= Cap
    BY <2>1 DEF ReadingsToGo
  <2> QED
    BY <2>1, <2>2, ToGo
<1>2. GateInv /\ [Next]_vars => [SteadyReadingsCount]_vars
  BY SteadyStep
<1> QED
  BY <1>1, <1>2, GateInvariant, PTL DEF Spec
=============================================================================
