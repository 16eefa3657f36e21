------------------------------- MODULE Timers -------------------------------
(***************************************************************************)
(* The contact timers of the toolbox, driven by one scan loop:             *)
(* src/inc/damp/toolbox/timing.hpp (the arithmetic they share), logic.hpp  *)
(* (OnDelayTimer, OffDelayTimer, PulseTimer, Debounce), iec61131.hpp (TON, *)
(* TOF, TP) and io.hpp (Button, a Debounce with an OnDelayTimer behind).   *)
(*                                                                         *)
(* Every scan reads one contact and the time dt since the scan before and  *)
(* steps every block with them; the application may reset any block        *)
(* between two scans.  Time is an unsigned integer of the code's time      *)
(* type, from 0 to MaxT: a plain addition wraps.                           *)
(***************************************************************************)
EXTENDS Integers

CONSTANTS
    MaxT,             \* numeric_limits<T>::max() of the time type
    Dts,              \* times between two scans
    Delay,            \* of the on-delay and off-delay timers; the pulse width
    Stable, Hold      \* of Debounce and Button

ASSUME TimersAssumption ==
    /\ MaxT \in Nat
    /\ Dts \subseteq 0 .. MaxT
    /\ Delay \in 0 .. MaxT /\ Stable \in 0 .. MaxT /\ Hold \in 0 .. MaxT

VARIABLES
    on, ton,      \* OnDelayTimer and TON: elapsed_ / ET, out_ / Q
    off, tof,     \* OffDelayTimer and TOF
    pulse, tp,    \* PulseTimer and TP, with prev_ / prev_IN
    deb,          \* Debounce: elapsed_, state_
    button,       \* Button: its two timers, prev_ and the events of the last scan
    seen,         \* history, per block: the contact since the block's reset
    age           \* history: time since the pulse began

iec == <<ton, tof, tp>>
contacts == <<on, off, pulse, deb, button>>
vars == <<iec, contacts, seen, age>>

\* "down" is what Button's hold timer sees: the debounced contact.
Blocks == {"on", "off", "pulse", "deb", "button", "down"}

\* The sum of two times in the time type.
Plus(a, b) == IF a + b <= MaxT THEN a + b ELSE a + b - (MaxT + 1)

Least(a, b) == IF a <= b THEN a ELSE b

\* Mutant of Advance: the sum is formed, then compared.
AdvanceBySum(elapsed, dt, preset) ==
    IF elapsed >= preset \/ Plus(elapsed, dt) >= preset
    THEN preset ELSE Plus(elapsed, dt)

\* timer_advance: toward the preset, never past it.
Advance(elapsed, dt, preset) ==
    IF elapsed >= preset \/ dt >= preset - elapsed
    THEN preset ELSE Plus(elapsed, dt)

-----------------------------------------------------------------------------
(* One call of each block.                                                 *)

Off == [elapsed |-> 0, out |-> FALSE]
Idle == [elapsed |-> 0, out |-> FALSE, prev |-> FALSE]

OnDelay(s, in, dt, delay) ==
    LET e == Advance(s.elapsed, dt, delay)
    IN IF ~in THEN Off
       ELSE IF s.out THEN s
       ELSE [elapsed |-> e, out |-> e >= delay]

Ton(s, in, dt) ==
    LET e == Advance(s.elapsed, dt, Delay)
    IN IF in THEN [elapsed |-> e, out |-> e >= Delay] ELSE Off

OffDelay(s, in, dt) ==
    LET e == Advance(s.elapsed, dt, Delay)
    IN IF in THEN [elapsed |-> 0, out |-> TRUE]
       ELSE IF s.out THEN [elapsed |-> e, out |-> e < Delay]
       ELSE s

Tof(s, in, dt) == OffDelay(s, in, dt)

Starts(s, in) == in /\ ~s.prev /\ ~s.out

Pulse(s, in, dt) ==
    LET running == s.out \/ Starts(s, in)
        e       == Advance(IF Starts(s, in) THEN 0 ELSE s.elapsed, dt, Delay)
    IN [elapsed |-> IF running THEN e ELSE s.elapsed,
        out |-> running /\ e < Delay, prev |-> in]

\* Mutant of Tp: ET returns to 0 as soon as the input drops.
TpClearsEarly(s, in, dt) ==
    LET p == Pulse(s, in, dt)
    IN [p EXCEPT !.elapsed = IF in THEN @ ELSE 0]

\* TP shows ET at PT until its input drops.
Tp(s, in, dt) ==
    LET p == Pulse(s, in, dt)
    IN [p EXCEPT !.elapsed = IF s.out \/ Starts(s, in) \/ in THEN @ ELSE 0]

\* Mutant of Debounced: a glitch back does not restart the count.
DebouncedKeepsTime(s, in, dt) ==
    LET e == Advance(s.elapsed, dt, Stable)
    IN IF in = s.out THEN s
       ELSE IF e >= Stable THEN [elapsed |-> 0, out |-> in]
       ELSE [elapsed |-> e, out |-> s.out]

\* Debounce: the state (out) follows an input that differed from it for Stable.
Debounced(s, in, dt) ==
    LET e == Advance(s.elapsed, dt, Stable)
    IN IF in = s.out THEN [elapsed |-> 0, out |-> s.out]
       ELSE IF e >= Stable THEN [elapsed |-> 0, out |-> in]
       ELSE [elapsed |-> e, out |-> s.out]

Released == [db |-> Off, hold |-> Off, prev |-> FALSE,
             pressed |-> FALSE, released |-> FALSE, held |-> FALSE]

\* Mutant of ButtonUpdate: the hold time runs on the raw contact.
ButtonUpdateRaw(b, raw, dt) ==
    LET db   == Debounced(b.db, raw, dt)
        hold == OnDelay(b.hold, raw, dt, Hold)
    IN [db |-> db, hold |-> hold, prev |-> db.out,
        pressed |-> db.out /\ ~b.prev, released |-> ~db.out /\ b.prev,
        held |-> hold.out]

ButtonUpdate(b, raw, dt) ==
    LET db   == Debounced(b.db, raw, dt)
        hold == OnDelay(b.hold, db.out, dt, Hold)
    IN [db |-> db, hold |-> hold, prev |-> db.out,
        pressed |-> db.out /\ ~b.prev, released |-> ~db.out /\ b.prev,
        held |-> hold.out]

-----------------------------------------------------------------------------
(* The histories.  They count real time, capped where it tells no more.    *)

Longest == IF Delay >= Stable /\ Delay >= Hold THEN Delay
           ELSE IF Stable >= Hold THEN Stable ELSE Hold

Capped(t) == Least(t, Longest)

Unseen == [level |-> FALSE, run |-> 0, ever |-> FALSE]

\* The contact's level, how long it has had it, and whether it ever was on.
Seen(h, in, dt) ==
    [level |-> in,
     run   |-> Capped(IF in = h.level THEN h.run + dt ELSE dt),
     ever  |-> h.ever \/ in]

\* A pulse begins at a rising edge, if none is under way.
Aged(in, dt) ==
    Capped(IF in /\ ~seen["pulse"].level /\ age >= Delay THEN dt ELSE age + dt)

Init ==
    /\ on = Off /\ ton = Off /\ off = Off /\ tof = Off
    /\ pulse = Idle /\ tp = Idle
    /\ deb = Off /\ button = Released
    /\ seen = [b \in Blocks |-> Unseen]
    /\ age = Longest

\* One scan of the application.
Scan(in, dt) ==
    /\ on' = OnDelay(on, in, dt, Delay) /\ ton' = Ton(ton, in, dt)
    /\ off' = OffDelay(off, in, dt) /\ tof' = Tof(tof, in, dt)
    /\ pulse' = Pulse(pulse, in, dt) /\ tp' = Tp(tp, in, dt)
    /\ deb' = Debounced(deb, in, dt)
    /\ button' = ButtonUpdate(button, in, dt)
    /\ seen' = [b \in Blocks |->
                  Seen(seen[b], IF b = "down" THEN button'.prev ELSE in, dt)]
    /\ age' = Aged(in, dt)

\* The resets, of a timer and its IEC twin together.
Forget(bs) == seen' = [b \in Blocks |-> IF b \in bs THEN Unseen ELSE seen[b]]

ResetOnDelay ==
    /\ on' = Off /\ ton' = Off /\ Forget({"on"})
    /\ UNCHANGED <<off, tof, pulse, tp, deb, button, age>>

ResetOffDelay ==
    /\ off' = Off /\ tof' = Off /\ Forget({"off"})
    /\ UNCHANGED <<on, ton, pulse, tp, deb, button, age>>

ResetPulse ==
    /\ pulse' = Idle /\ tp' = Idle /\ Forget({"pulse"}) /\ age' = Longest
    /\ UNCHANGED <<on, ton, off, tof, deb, button>>

\* Debounce::reset(state)
ResetDebounce(state) ==
    /\ deb' = [elapsed |-> 0, out |-> state]
    /\ Forget({"deb"})
    /\ UNCHANGED <<on, off, pulse, button, iec, age>>

ResetButton ==
    /\ button' = Released /\ Forget({"button", "down"})
    /\ UNCHANGED <<on, off, pulse, deb, iec, age>>

Next ==
    \/ \E in \in BOOLEAN, dt \in Dts : Scan(in, dt)
    \/ ResetOnDelay \/ ResetOffDelay \/ ResetPulse
    \/ \E state \in BOOLEAN : ResetDebounce(state)
    \/ ResetButton

Spec == Init /\ [][Next]_vars

-----------------------------------------------------------------------------
(***************************************************************************)
(* Properties                                                              *)
(***************************************************************************)

Timer == [elapsed : 0 .. MaxT, out : BOOLEAN]
EdgeTimer == [elapsed : 0 .. MaxT, out : BOOLEAN, prev : BOOLEAN]

\* Types; elapsed times stay within their presets.
TypeOK ==
    /\ on \in Timer /\ ton \in Timer /\ off \in Timer /\ tof \in Timer
    /\ pulse \in EdgeTimer /\ tp \in EdgeTimer
    /\ on.elapsed <= Delay /\ off.elapsed <= Delay /\ pulse.elapsed <= Delay
    /\ deb \in Timer /\ deb.elapsed <= Stable
    /\ button \in [db : Timer, hold : Timer, prev : BOOLEAN, pressed : BOOLEAN,
                   released : BOOLEAN, held : BOOLEAN]
    /\ seen \in [Blocks -> [level : BOOLEAN, run : 0 .. Longest, ever : BOOLEAN]]
    /\ age \in 0 .. Longest

\* The timers measure real time, whatever the scan times (up to the largest of
\* the time type): an on-delay output is on exactly when the contact has been on
\* for Delay, an off-delay output exactly while it is or was on less than Delay
\* ago, and a pulse exactly for Delay from the edge that began it, whatever edges
\* come meanwhile.
DelaysAreReal ==
    /\ on.out <=> seen["on"].level /\ seen["on"].run >= Delay
    /\ off.out <=> /\ seen["off"].ever
                   /\ seen["off"].level \/ seen["off"].run < Delay
    /\ pulse.out <=> age < Delay

\* The two families agree: TON and TP, written anew in iec61131.hpp, switch in
\* the same scans as OnDelayTimer and PulseTimer.
FamiliesAgree ==
    /\ ton = on
    /\ tp.out = pulse.out

\* "The output adopts the input only after it differs from the current output
\* continuously for stable_time" (Debounce): it changes after a level that
\* lasted, never on a bounce, and it does change then.
DebounceFollows ==
    [][/\ deb'.out # deb.out /\ seen'["deb"] # Unseen =>
            seen'["deb"].level = deb'.out /\ seen'["deb"].run >= Stable
       /\ seen'["deb"].run > 0 /\ seen'["deb"].run >= Stable =>
            deb'.out = seen'["deb"].level]_vars

\* "held() is true once the button has been down continuously past the hold
\* time" (Button): on the debounced level, so a bounce of the contact shorter
\* than the debounce time does not end a hold.
HeldMeansDown ==
    /\ button.held <=> seen["down"].level /\ seen["down"].run >= Hold
    /\ button.held /\ ~seen["button"].level => seen["button"].run < Stable
=============================================================================
