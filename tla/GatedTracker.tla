---------------------------- MODULE GatedTracker ----------------------------
(***************************************************************************)
(* EncoderGate::update() over an EncoderTracker (src/inc/damp/encoder):    *)
(* the gate judges each frame with the tracker's own speed and passes on   *)
(* what it let through.  Two rates interleave: a fast loop calls           *)
(* predict() every tick, and a frame is expected every one to MaxPeriod    *)
(* ticks.                                                                  *)
(*                                                                         *)
(* The axis really moves at the constant speed Velocity.  A frame carries  *)
(* the true position, or fails its CRC, or is a valid-looking glitch off   *)
(* by one of Glitches; fewer than resync_count glitches come between two   *)
(* good readings, and a glitch is further off than the window ever opens.  *)
(***************************************************************************)
EXTENDS EncoderGate

CONSTANTS
    Kp, Ki,     \* the tracker's correction gains
    Velocity,   \* the true speed of the axis
    Glitches,   \* offsets of glitched readings
    MaxPeriod,  \* the longest time between two frames
    MaxNow      \* bound on the length of a behaviour

ASSUME TrackerAssumption ==
    /\ Kp \in Int /\ Ki \in Int /\ Velocity \in Int
    /\ Glitches \subseteq Int
    /\ \A g \in Glitches : ~Within(g, MaxTime)
    /\ MaxPeriod \in Nat \ {0} /\ MaxNow \in Nat
    /\ MaxNow <= MaxTime    \* the gate's clocks do not saturate

VARIABLES
    meas, est, omega, since_meas,  \* the tracker: meas_, est_, omega_, since_
    now,                           \* time, in ticks
    waiting,                       \* time since the last frame was due
    glitched,                      \* glitches since the last good reading
    delivered                      \* history: when a reading last reached the tracker

tracker == <<meas, est, omega, since_meas>>
world == <<now, waiting, glitched, delivered>>

Truth == Velocity * now

\* EncoderTracker::position(), as it reports without interpolation.
Position == meas + omega * since_meas

TInit ==
    /\ Init
    /\ meas = 0 /\ est = 0 /\ omega = Velocity /\ since_meas = 0
    /\ now = 0 /\ waiting = 0 /\ glitched = 0 /\ delivered = 0

\* predict(1), from the fast loop.
Predict ==
    /\ now < MaxNow /\ waiting < MaxPeriod
    /\ est' = est + omega
    /\ since_meas' = since_meas + 1
    /\ now' = now + 1 /\ waiting' = waiting + 1
    /\ UNCHANGED <<meas, omega, vars, glitched, delivered>>

\* EncoderTracker::update(p, dt)
TrackerUpdate(p, dt) ==
    /\ est' = est + Kp * (p - est) * dt
    /\ omega' = omega + Ki * (p - est) * dt
    /\ meas' = p
    /\ since_meas' = 0

\* EncoderTracker::reset(p, w)
TrackerReset(p, w) ==
    /\ meas' = p /\ est' = p /\ omega' = w /\ since_meas' = 0

\* EncoderGate::update(tracker, p, dt, valid = true)
Update(p, dt) ==
    \/ /\ CheckAccepted(p, omega, dt)
       /\ TrackerUpdate(p, interval')
       /\ delivered' = now
    \/ /\ CheckJump(p, omega, dt)
       /\ UNCHANGED <<tracker, delivered>>
    \/ /\ CheckResync(p, omega, dt)
       /\ TrackerReset(p, omega)
       /\ delivered' = now

GoodFrame ==
    /\ waiting > 0
    /\ Update(Truth, waiting)
    /\ waiting' = 0 /\ glitched' = 0
    /\ UNCHANGED now

GlitchFrame ==
    /\ waiting > 0
    /\ glitched + 1 < ResyncCount
    /\ \E g \in Glitches : Update(Truth + g, waiting)
    /\ waiting' = 0 /\ glitched' = glitched + 1
    /\ UNCHANGED now

LostFrame ==
    /\ waiting > 0
    /\ CheckInvalid(waiting)
    /\ waiting' = 0
    /\ UNCHANGED <<tracker, now, glitched, delivered>>

\* gate.reset(), by the application; the tracker coasts on.
GateReset ==
    /\ Reset
    /\ delivered' = now
    /\ UNCHANGED <<tracker, now, waiting, glitched>>

\* The bound: the behaviour ends when the time is up.
TimeUp == now = MaxNow /\ UNCHANGED <<vars, tracker, world>>

TNext == Predict \/ GoodFrame \/ GlitchFrame \/ LostFrame \/ GateReset \/ TimeUp

TSpec == TInit /\ [][TNext]_<<vars, tracker, world>>

-----------------------------------------------------------------------------
(***************************************************************************)
(* Properties                                                              *)
(***************************************************************************)

\* No glitch leaves a trace: a tracker that follows the axis exactly keeps
\* doing so, in estimate, speed and reported position, through lost frames,
\* glitches that agree with each other, stale periods and the resyncs after
\* them.  "Dropped readings never reach the tracker", "a position offset leaves
\* the speed alone" (gate.hpp).
TrackerUndisturbed ==
    /\ est = Truth
    /\ omega = Velocity
    /\ Position = Truth

\* The dt the tracker integrates an accepted reading over is the real time
\* since the previous reading it got, however many frames were lost between.
IntervalIsReal ==
    [][verdict' = "Accepted" /\ delivered' # delivered
         => interval' = now - delivered]_<<vars, tracker, world>>
=============================================================================
