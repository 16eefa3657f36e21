------------------------- MODULE ConfirmedDelivery -------------------------
(***************************************************************************)
(* What a validator of readings promises, in terms of the readings alone:  *)
(* no candidate track, no flags.  A reading is delivered for one of two    *)
(* reasons: it is near the last delivered one, which is not too old, or    *)
(* ResyncCount readings in a row, of which it is the last, each lie near   *)
(* the one before.  EncoderGate implements this.                           *)
(***************************************************************************)
EXTENDS Integers, Sequences

CONSTANTS
    Positions, Speeds, Dts,  \* readings, speed estimates, times between calls
    Near(_, _),              \* is a deviation small, for that elapsed time?
    StaleTime,               \* how old a delivered reading may get; <= 0: any age
    ResyncCount,             \* readings that confirm each other
    MaxTime                  \* where time stops counting

VARIABLES
    value,    \* the last reading delivered
    age,      \* its age
    trusted,  \* a reading has been delivered, and it is not too old
    pending,  \* the valid readings withheld since
    idle      \* the time since the last valid reading

delivery == <<value, age, trusted, pending, idle>>

Elapsed(t, dt) == IF t + dt < MaxTime THEN t + dt ELSE MaxTime

Expires(dt) == StaleTime > 0 /\ Elapsed(age, dt) > StaleTime

\* The readings withheld, and one more: as many as confirm each other.
With(p, w, dt) ==
    LET s == Append(pending, [p |-> p, w |-> w, gap |-> Elapsed(idle, dt)])
    IN IF Len(s) > ResyncCount /\ Len(s) > 1 THEN Tail(s) ELSE s

Chain(s) ==
    \A i \in 2 .. Len(s) :
        Near(s[i].p - (s[i - 1].p + s[i].w * s[i].gap), s[i].gap)

Init ==
    /\ value = 0 /\ age = 0 /\ trusted = FALSE
    /\ pending = <<>> /\ idle = 0

Delivered(p) ==
    /\ value' = p /\ age' = 0 /\ trusted' = TRUE
    /\ pending' = <<>> /\ idle' = 0

Kept(dt) ==
    /\ age' = Elapsed(age, dt)
    /\ trusted' = (trusted /\ ~Expires(dt))
    /\ UNCHANGED value

Deliver(p, w, dt) ==
    /\ trusted /\ ~Expires(dt)
    /\ Near(p - (value + w * Elapsed(age, dt)), Elapsed(age, dt))
    /\ Delivered(p)

Confirm(p, w, dt) ==
    /\ Len(With(p, w, dt)) >= ResyncCount
    /\ Chain(With(p, w, dt))
    /\ Delivered(p)

Withhold(p, w, dt) ==
    /\ Kept(dt)
    /\ pending' = With(p, w, dt) /\ idle' = 0

Lose(dt) ==
    /\ Kept(dt)
    /\ idle' = Elapsed(idle, dt)
    /\ UNCHANGED pending

Restart ==
    /\ value' = 0 /\ age' = 0 /\ trusted' = FALSE
    /\ pending' = <<>> /\ idle' = 0

Next ==
    \/ \E dt \in Dts :
        \/ Lose(dt)
        \/ \E p \in Positions, w \in Speeds :
             Deliver(p, w, dt) \/ Confirm(p, w, dt) \/ Withhold(p, w, dt)
    \/ Restart

Spec == Init /\ [][Next]_delivery
=============================================================================
