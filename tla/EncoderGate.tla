---------------------------- MODULE EncoderGate ----------------------------
(***************************************************************************)
(* The validator of encoder readings, src/inc/damp/encoder/gate.hpp: class *)
(* EncoderGate, check() and candidate().  A call may carry any position,   *)
(* any speed estimate, any elapsed time and a frame that failed its CRC.   *)
(*                                                                         *)
(* Positions are integer counts and times integer ticks; a dt of 0 stands  *)
(* for every dt that check() does not count (zero, negative, not finite)   *)
(* and an invalid frame for every reading that is flagged or not finite.   *)
(***************************************************************************)
EXTENDS Integers, Sequences

CONSTANTS
    Positions,    \* readings
    Speeds,       \* the caller's speed estimates
    Dts,          \* times between calls; 0 for a dt check() ignores
    Tolerance,    \* cfg.tolerance; <= 0 turns the window off
    MaxAccel,     \* cfg.max_accel
    StaleTime,    \* cfg.stale_time; <= 0: never stale
    ResyncCount,  \* cfg.resync_count, a uint16
    MaxTime       \* max_time, where the time accumulators saturate

UInt16Max == 65535

\* An accumulator saturated at MaxTime must still exceed stale_time.
ASSUME GateAssumption ==
    /\ Positions \subseteq Int /\ Speeds \subseteq Int /\ Dts \subseteq Nat
    /\ Tolerance \in Int /\ MaxAccel \in Int /\ StaleTime \in Int
    /\ ResyncCount \in 0 .. UInt16Max
    /\ MaxTime \in Nat /\ StaleTime < MaxTime

VARIABLES
    last, cand,         \* last accepted reading, latest candidate reading
    since, cand_since,  \* time since either
    interval,           \* between the last two accepted readings
    candidates,         \* length of the candidate track
    locked, stale,
    verdict,            \* what the last check() returned
    seen,               \* history: the valid readings since the last one let
                        \* through, and after a Resync those that confirmed it
    idle                \* history: time since the last valid reading

gate == <<last, cand, since, cand_since, interval, candidates, locked, stale>>
vars == <<gate, verdict, seen, idle>>

Saturated(t) == IF t < MaxTime THEN t ELSE MaxTime

\* within(): inside the window after t?  (twice both sides, for the one half)
Within(deviation, t) ==
    LET accel == IF MaxAccel > 0 THEN MaxAccel ELSE 0
        dist  == IF deviation < 0 THEN -deviation ELSE deviation
    IN Tolerance > 0 => 2 * dist <= 2 * Tolerance + accel * t * t

Reading == [p : Int, w : Int, gap : Nat]

\* The history keeps as many readings as a resync needs.
Recent(s) ==
    IF Len(s) > ResyncCount /\ Len(s) > 1 THEN Tail(s) ELSE s

Pending == IF verdict = "Resync" THEN <<>> ELSE seen

Noted(p, w, dt) ==
    Recent(Append(Pending, [p |-> p, w |-> w, gap |-> Saturated(idle + dt)]))

Init ==
    /\ last = 0 /\ cand = 0 /\ since = 0 /\ cand_since = 0
    /\ interval = 0 /\ candidates = 0
    /\ locked = FALSE /\ stale = FALSE
    /\ verdict = "None"
    /\ seen = <<>> /\ idle = 0

(***************************************************************************)
(* check(reading, speed, dt, valid).  Time counts first, whatever the      *)
(* frame; staleness then unlocks the gate before the reading is judged.    *)
(***************************************************************************)
Age(dt) == Saturated(since + dt)
CandAge(dt) == Saturated(cand_since + dt)

GoesStale(dt) == StaleTime > 0 /\ Age(dt) > StaleTime

\* Mutant of LockedNow: the reading is judged before staleness unlocks the gate.
LockedBefore(dt) == locked

LockedNow(dt) == locked /\ ~GoesStale(dt)

CheckInvalid(dt) ==
    /\ since' = Age(dt)
    /\ cand_since' = CandAge(dt)
    /\ stale' = (stale \/ GoesStale(dt))
    /\ locked' = LockedNow(dt)
    /\ verdict' = "Invalid"
    /\ seen' = Pending /\ idle' = Saturated(idle + dt)
    /\ UNCHANGED <<last, cand, interval, candidates>>

InWindow(p, w, dt) == LockedNow(dt) /\ Within(p - (last + w * Age(dt)), Age(dt))

CheckAccepted(p, w, dt) ==
    /\ InWindow(p, w, dt)
    /\ interval' = Age(dt)
    /\ last' = p
    /\ since' = 0
    /\ cand_since' = CandAge(dt)
    /\ candidates' = 0
    /\ stale' = stale
    /\ locked' = TRUE
    /\ verdict' = "Accepted"
    /\ seen' = <<>> /\ idle' = 0
    /\ UNCHANGED cand

\* Mutant of Track: any two readings in a row confirm each other.
TrackAnyReading(p, w, dt) == candidates + 1

\* candidate(): how long the track is with this reading.
Track(p, w, dt) ==
    IF candidates > 0 /\ Within(p - (cand + w * CandAge(dt)), CandAge(dt))
    THEN candidates + 1 ELSE 1

\* Mutant of CheckJump: the candidate's age is not restarted.
CheckJumpOldAge(p, w, dt) ==
    /\ ~InWindow(p, w, dt)
    /\ Track(p, w, dt) < ResyncCount
    /\ candidates' = Track(p, w, dt)
    /\ cand' = p
    /\ cand_since' = CandAge(dt)
    /\ since' = Age(dt)
    /\ stale' = (stale \/ GoesStale(dt))
    /\ locked' = LockedNow(dt)
    /\ verdict' = "Jump"
    /\ seen' = Noted(p, w, dt) /\ idle' = 0
    /\ UNCHANGED <<last, interval>>

CheckJump(p, w, dt) ==
    /\ ~InWindow(p, w, dt)
    /\ Track(p, w, dt) < ResyncCount
    /\ candidates' = Track(p, w, dt)
    /\ cand' = p
    /\ cand_since' = 0
    /\ since' = Age(dt)
    /\ stale' = (stale \/ GoesStale(dt))
    /\ locked' = LockedNow(dt)
    /\ verdict' = "Jump"
    /\ seen' = Noted(p, w, dt) /\ idle' = 0
    /\ UNCHANGED <<last, interval>>

\* Mutant of CheckResync: the age of the last accepted reading is not restarted.
CheckResyncOldAge(p, w, dt) ==
    /\ ~InWindow(p, w, dt)
    /\ Track(p, w, dt) >= ResyncCount
    /\ last' = p
    /\ cand' = p
    /\ since' = Age(dt)
    /\ cand_since' = 0 /\ interval' = 0 /\ candidates' = 0
    /\ locked' = TRUE
    /\ stale' = FALSE
    /\ verdict' = "Resync"
    /\ seen' = Noted(p, w, dt) /\ idle' = 0

CheckResync(p, w, dt) ==
    /\ ~InWindow(p, w, dt)
    /\ Track(p, w, dt) >= ResyncCount
    /\ last' = p
    /\ cand' = p
    /\ since' = 0 /\ cand_since' = 0 /\ interval' = 0 /\ candidates' = 0
    /\ locked' = TRUE
    /\ stale' = FALSE
    /\ verdict' = "Resync"
    /\ seen' = Noted(p, w, dt) /\ idle' = 0

Check ==
    \E dt \in Dts :
        \/ CheckInvalid(dt)
        \/ \E p \in Positions, w \in Speeds :
             CheckAccepted(p, w, dt) \/ CheckJump(p, w, dt) \/ CheckResync(p, w, dt)

Reset ==
    /\ last' = 0 /\ cand' = 0 /\ since' = 0 /\ cand_since' = 0
    /\ interval' = 0 /\ candidates' = 0
    /\ locked' = FALSE /\ stale' = FALSE
    /\ verdict' = "None"
    /\ seen' = <<>> /\ idle' = 0

Next == Check \/ Reset

Spec == Init /\ [][Next]_vars

\* The encoder interface keeps delivering frames of an axis at rest at Home.
Home == 0

SteadyReading ==
    \E dt \in Dts \ {0} :
        CheckAccepted(Home, 0, dt) \/ CheckJump(Home, 0, dt) \/ CheckResync(Home, 0, dt)

FairSpec == Spec /\ WF_vars(SteadyReading)

\* The promise, in terms of the readings: the candidate track, its age and the
\* verdicts are how the gate keeps it.
Promise ==
    INSTANCE ConfirmedDelivery WITH
        value <- last, age <- since, trusted <- locked, pending <- Pending,
        Near <- Within

-----------------------------------------------------------------------------
(***************************************************************************)
(* Properties                                                              *)
(***************************************************************************)

TypeOK ==
    /\ last \in Int /\ cand \in Int
    /\ since \in 0 .. MaxTime /\ cand_since \in 0 .. MaxTime
    /\ interval \in 0 .. MaxTime
    /\ candidates \in 0 .. UInt16Max
    /\ locked \in BOOLEAN /\ stale \in BOOLEAN
    /\ verdict \in {"None", "Accepted", "Invalid", "Jump", "Resync"}
    /\ seen \in Seq(Reading)
    /\ idle \in 0 .. MaxTime

\* "Once no reading has been accepted (or none ever was) for stale_time, stale
\* is raised and the gate unlocks; it clears at the next Resync": the fault
\* shows exactly while the last reading let through is older than stale_time,
\* and a gate with the fault is unlocked.
StaleIsAge ==
    /\ stale <=> StaleTime > 0 /\ since > StaleTime
    /\ stale => ~locked

\* The candidate track is always shorter than what confirms it, so the uint16
\* count cannot wrap, and a locked gate that just let a reading through has none.
TrackIsShort ==
    /\ candidates = 0 \/ candidates < ResyncCount
    /\ verdict \in {"Accepted", "Resync"} => candidates = 0

\* A Resync is confirmed: the last resync_count valid readings, none of them
\* accepted in between, each lie in the window around the previous one, over the
\* real time between the two (invalid frames may come between, and count as
\* time).
Follows(s, i) == Within(s[i].p - (s[i - 1].p + s[i].w * s[i].gap), s[i].gap)

Consistent(s) == \A i \in 2 .. Len(s) : Follows(s, i)

ResyncIsConfirmed ==
    verdict = "Resync" => Len(seen) >= ResyncCount /\ Consistent(seen)

\* An axis at rest is found again: whatever glitches, dropped frames and stale
\* periods came before, once only valid readings of one position arrive, with 0
\* as the speed the caller estimates for it and at a period no longer than
\* stale_time, the gate locks on it and stays locked.
SteadyAxisLocks ==
    <>[][SteadyReading]_vars => <>[](locked /\ last = Home)

\* The gate keeps its promise: it lets a reading through only near a fresh one, or
\* confirmed by a chain of resync_count readings, and withholds it otherwise.
KeepsPromise == Promise!Spec
=============================================================================
