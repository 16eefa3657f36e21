---------------------------- MODULE TimersProofs ----------------------------
(***************************************************************************)
(* The contact timers measure real time, for every preset, every scan time *)
(* and every width of the time type, and the two families agree.           *)
(*                                                                         *)
(* Per block, the inductive invariant relates its elapsed time to the      *)
(* history of the contact it follows: OnFollows, OffFollows, PulseFollows  *)
(* and Counts below.  A lemma per block shows that one call preserves it;  *)
(* Button is a Debounce with an OnDelayTimer behind, so its lemmas are     *)
(* theirs.                                                                 *)
(***************************************************************************)
EXTENDS Timers, Rhythm, TLAPS

History == [level : BOOLEAN, run : 0 .. Longest, ever : BOOLEAN]

\* The bounds of the parameters, of a scan time, and of the time counted.
LEMMA Bounds ==
    /\ MaxT \in Int /\ MaxT >= 0
    /\ Delay \in Int /\ Delay >= 0 /\ Delay <= MaxT
    /\ Stable \in Int /\ Stable >= 0 /\ Stable <= MaxT
    /\ Hold \in Int /\ Hold >= 0 /\ Hold <= MaxT
  BY TimersAssumption

LEMMA ScanTime ==
    ASSUME NEW dt \in Dts
    PROVE  dt \in Int /\ dt >= 0 /\ dt <= MaxT
  BY TimersAssumption

LEMMA Counted ==
    /\ Longest \in Int /\ Longest <= MaxT
    /\ Longest >= Delay /\ Longest >= Stable /\ Longest >= Hold
  BY Bounds DEF Longest

\* timer_advance is the real sum, or the preset once that is reached.
LEMMA AdvanceIsReal ==
    ASSUME NEW preset \in Int, preset >= 0, preset <= MaxT,
           NEW passed \in Int, passed >= 0, passed <= preset,
           NEW dt \in Dts
    PROVE  /\ Advance(passed, dt, preset) = Least(passed + dt, preset)
           /\ Advance(passed, dt, preset) \in Int
           /\ Advance(passed, dt, preset) >= 0
           /\ Advance(passed, dt, preset) <= preset
  BY Bounds, ScanTime DEF Advance, Plus, Least

\* What a scan adds to a history.
LEMMA SeenIs ==
    ASSUME NEW h \in History, NEW in \in BOOLEAN, NEW dt \in Dts
    PROVE  /\ Seen(h, in, dt) \in History
           /\ Seen(h, in, dt).level = in
           /\ (in <=> h.level) => Seen(h, in, dt).run = Capped(h.run + dt)
           /\ ~(in <=> h.level) => Seen(h, in, dt).run = Capped(dt)
           /\ Seen(h, in, dt).ever <=> h.ever \/ in
<1> DEFINE run == Capped(IF in = h.level THEN h.run + dt ELSE dt)
<1>1. /\ h.run \in Int /\ h.run >= 0 /\ h.ever \in BOOLEAN /\ h.level \in BOOLEAN
      /\ Longest \in Int /\ Longest >= 0 /\ dt \in Int /\ dt >= 0
  BY Counted, Bounds, ScanTime DEF History
<1>2. run \in 0 .. Longest
  BY <1>1 DEF Capped, Least
<1>3. (h.ever \/ in) \in BOOLEAN
  BY <1>1
<1>4. /\ (in <=> h.level) => run = Capped(h.run + dt)
      /\ ~(in <=> h.level) => run = Capped(dt)
  BY <1>1, Zenon
<1> HIDE DEF run
<1>5. Seen(h, in, dt) = [level |-> in, run |-> run, ever |-> h.ever \/ in]
  BY DEF Seen, run
<1> QED
  BY <1>2, <1>3, <1>4, <1>5 DEF History

-----------------------------------------------------------------------------
(* The blocks.                                                             *)

\* An on-delay timer: its elapsed time is the time its input has been on.
OnFollows(s, h, delay) ==
    /\ s \in Timer /\ h \in History
    /\ s.elapsed <= delay
    /\ h.level => s.elapsed = Least(h.run, delay)
    /\ ~h.level => s = Off
    /\ s.out <=> h.level /\ h.run >= delay

\* An off-delay timer: while its output outlasts its input, the time that is off.
OffFollows(s, h) ==
    /\ s \in Timer /\ h \in History
    /\ s.elapsed <= Delay
    /\ h.level => s.out /\ s.elapsed = 0 /\ h.ever
    /\ s.out /\ ~h.level => s.elapsed = h.run
    /\ s.out <=> h.ever /\ (h.level \/ h.run < Delay)

\* A pulse timer: while its output is on, the age of the pulse.
PulseFollows(p, h, a) ==
    /\ p \in EdgeTimer /\ h \in History /\ a \in 0 .. Longest
    /\ p.elapsed <= Delay
    /\ p.prev = h.level
    /\ p.out <=> a < Delay
    /\ p.out => p.elapsed = a

\* TP is a pulse timer that differs in the elapsed time it shows when idle.
SamePulse(t, p) ==
    /\ t \in EdgeTimer
    /\ t.prev = p.prev /\ t.out = p.out
    /\ p.out => t.elapsed = p.elapsed

\* Debounce: how long the input has differed from the state.
Counts(d, h) ==
    /\ d \in Timer /\ h \in History
    /\ d.elapsed <= Stable
    /\ (d.out <=> h.level) => d.elapsed = 0
    /\ ~(d.out <=> h.level) => d.elapsed = h.run /\ (h.run = 0 \/ h.run < Stable)

\* Button: its debounced level, and the hold timer that follows it.
ButtonFollows(b, h, down) ==
    /\ Counts(b.db, h)
    /\ ~(b.db.out <=> h.level) => h.run < Stable
    /\ OnFollows(b.hold, down, Hold)
    /\ down.level = b.db.out
    /\ b = [db |-> b.db, hold |-> b.hold, prev |-> b.db.out, pressed |-> b.pressed,
            released |-> b.released, held |-> b.hold.out]
    /\ b.pressed \in BOOLEAN /\ b.released \in BOOLEAN

LEMMA OnStep ==
    ASSUME NEW delay \in Int, delay >= 0, delay <= Longest,
           NEW s, NEW h, OnFollows(s, h, delay),
           NEW in \in BOOLEAN, NEW dt \in Dts
    PROVE  OnFollows(OnDelay(s, in, dt, delay), Seen(h, in, dt), delay)
<1> DEFINE g == Seen(h, in, dt)
           r == OnDelay(s, in, dt, delay)
           e == Advance(s.elapsed, dt, delay)
<1> SUFFICES OnFollows(r, g, delay)
  OBVIOUS
<1>1. /\ s.elapsed \in Int /\ s.elapsed >= 0 /\ s.elapsed <= delay
      /\ s.out \in BOOLEAN /\ h.level \in BOOLEAN
      /\ h.run \in Int /\ h.run >= 0 /\ h.run <= Longest
  BY Counted DEF OnFollows, Timer, History
<1>2. /\ e = Least(s.elapsed + dt, delay) /\ e \in Int /\ e >= 0 /\ e <= delay
      /\ delay <= MaxT
  BY <1>1, AdvanceIsReal, Counted, Bounds
<1>3. /\ g \in History /\ g.level = in
      /\ (in <=> h.level) => g.run = Capped(h.run + dt)
      /\ ~(in <=> h.level) => g.run = Capped(dt)
  BY SeenIs DEF OnFollows
<1>4. dt \in Int /\ dt >= 0 /\ Longest \in Int /\ MaxT \in Int
  BY ScanTime, Counted, Bounds
<1>5. r = IF ~in THEN Off ELSE IF s.out THEN s
          ELSE [elapsed |-> e, out |-> e >= delay]
  BY DEF OnDelay
<1> HIDE DEF g, e, r
<1>6. CASE ~in
  <2>1. r = Off
    BY <1>5, <1>6
  <2>2. Off \in Timer /\ Off.elapsed = 0 /\ Off.out = FALSE
    BY <1>2, <1>4 DEF Off, Timer
  <2>3. ~g.level
    BY <1>3, <1>6
  <2> QED
    BY <1>3, <2>1, <2>2, <2>3 DEF OnFollows
<1>7. CASE in /\ s.out
  <2>1. r = s /\ s \in Timer
    BY <1>5, <1>7 DEF OnFollows
  <2>2. h.level /\ h.run >= delay /\ s.elapsed = delay
    BY <1>1, <1>7 DEF OnFollows, Least
  <2>3. g.run >= delay /\ g.level /\ g.run \in Int
    BY <1>1, <1>3, <1>4, <1>7, <2>2 DEF Capped, Least
  <2>4. Least(g.run, delay) = delay
    BY <2>3 DEF Least
  <2> QED
    BY <1>1, <1>3, <1>7, <2>1, <2>2, <2>3, <2>4 DEF OnFollows
<1>8. CASE in /\ ~s.out
  <2>1. r = [elapsed |-> e, out |-> e >= delay]
    BY <1>5, <1>8
  <2>2. (e >= delay) \in BOOLEAN
    BY <1>2
  <2>3. r \in Timer /\ r.elapsed = e /\ r.out = (e >= delay)
    BY <1>2, <1>4, <2>1, <2>2 DEF Timer
  <2>4. e = Least(g.run, delay) /\ g.run \in Int
    <3>1. CASE h.level
      <4>1. s.elapsed = Least(h.run, delay)
        BY <3>1 DEF OnFollows
      <4>2. g.run = Capped(h.run + dt)
        BY <1>3, <1>8, <3>1
      <4> QED
        BY <1>1, <1>2, <1>4, <4>1, <4>2 DEF Capped, Least
    <3>2. CASE ~h.level
      <4>1. s.elapsed = 0
        BY <3>2 DEF OnFollows, Off
      <4>2. g.run = Capped(dt)
        BY <1>3, <1>8, <3>2
      <4> QED
        BY <1>2, <1>4, <4>1, <4>2 DEF Capped, Least
    <3> QED
      BY <3>1, <3>2
  <2>5. e >= delay <=> g.run >= delay
    BY <2>4 DEF Least
  <2>6. g.level
    BY <1>3, <1>8
  <2> QED
    BY <1>2, <1>3, <2>3, <2>4, <2>5, <2>6 DEF OnFollows
<1> QED
  BY <1>1, <1>6, <1>7, <1>8

\* TON is an OnDelayTimer.
LEMMA TonIsOnDelay ==
    ASSUME NEW s, NEW h, OnFollows(s, h, Delay), NEW in \in BOOLEAN, NEW dt \in Dts
    PROVE  Ton(s, in, dt) = OnDelay(s, in, dt, Delay)
<1>1. CASE in /\ s.out
  <2>1. s.elapsed = Delay /\ s.out = TRUE /\ s \in Timer
    BY <1>1, Bounds, Counted DEF OnFollows, Least, Timer, History
  <2>2. Advance(s.elapsed, dt, Delay) = Delay /\ (Delay >= Delay) = TRUE
    BY <2>1, Bounds DEF Advance
  <2>3. s = [elapsed |-> Delay, out |-> TRUE]
    BY <2>1 DEF Timer
  <2>4. OnDelay(s, in, dt, Delay) = s
    BY <1>1 DEF OnDelay
  <2>5. Ton(s, in, dt) = [elapsed |-> Delay, out |-> TRUE]
    BY <1>1, <2>2 DEF Ton
  <2> QED
    BY <2>3, <2>4, <2>5
<1>2. CASE ~(in /\ s.out)
  BY <1>2 DEF Ton, OnDelay
<1> QED
  BY <1>1, <1>2

LEMMA OffStep ==
    ASSUME NEW s, NEW h, OffFollows(s, h), NEW in \in BOOLEAN, NEW dt \in Dts
    PROVE  OffFollows(OffDelay(s, in, dt), Seen(h, in, dt))
<1> DEFINE g == Seen(h, in, dt)
           r == OffDelay(s, in, dt)
           e == Advance(s.elapsed, dt, Delay)
<1> SUFFICES OffFollows(r, g)
  OBVIOUS
<1>1. /\ s.elapsed \in Int /\ s.elapsed >= 0 /\ s.elapsed <= Delay
      /\ s.out \in BOOLEAN /\ h.level \in BOOLEAN /\ h.ever \in BOOLEAN
      /\ h.run \in Int /\ h.run >= 0 /\ h.run <= Longest
  BY Counted, Bounds DEF OffFollows, Timer, History
<1>2. /\ e = Least(s.elapsed + dt, Delay) /\ e \in Int /\ e >= 0 /\ e <= Delay
  BY <1>1, AdvanceIsReal, Bounds
<1>3. /\ g \in History /\ g.level = in
      /\ (in <=> h.level) => g.run = Capped(h.run + dt)
      /\ ~(in <=> h.level) => g.run = Capped(dt)
      /\ g.ever <=> h.ever \/ in
  BY SeenIs DEF OffFollows
<1>4. /\ dt \in Int /\ dt >= 0 /\ Longest \in Int /\ Longest >= Delay
      /\ Delay \in Int /\ Delay >= 0 /\ Delay <= MaxT /\ MaxT \in Int
  BY ScanTime, Counted, Bounds
<1>5. r = IF in THEN [elapsed |-> 0, out |-> TRUE]
          ELSE IF s.out THEN [elapsed |-> e, out |-> e < Delay] ELSE s
  BY DEF OffDelay
<1> HIDE DEF g, e, r
<1>6. CASE in
  <2>1. r \in Timer /\ r.elapsed = 0 /\ r.out = TRUE
    BY <1>4, <1>5, <1>6 DEF Timer
  <2>2. g.level /\ g.ever
    BY <1>3, <1>6
  <2> QED
    BY <1>3, <1>4, <2>1, <2>2 DEF OffFollows
<1>7. CASE ~in /\ s.out
  <2>1. (e < Delay) \in BOOLEAN
    BY <1>2, <1>4
  <2>2. r \in Timer /\ r.elapsed = e /\ r.out = (e < Delay)
    BY <1>2, <1>4, <1>5, <1>7, <2>1 DEF Timer
  <2>3. ~g.level /\ g.ever
    BY <1>3, <1>7, <1>1 DEF OffFollows
  <2>4. (e < Delay <=> g.run < Delay) /\ (e < Delay => e = g.run)
    <3>1. CASE h.level
      <4>1. g.run = Capped(dt)
        BY <1>3, <1>7, <3>1
      <4>2. s.elapsed = 0
        BY <3>1 DEF OffFollows
      <4> QED
        BY <1>2, <1>4, <4>1, <4>2 DEF Capped, Least
    <3>2. CASE ~h.level
      <4>1. g.run = Capped(h.run + dt)
        BY <1>3, <1>7, <3>2
      <4>2. s.elapsed = h.run
        BY <1>7, <3>2 DEF OffFollows
      <4> QED
        BY <1>1, <1>2, <1>4, <4>1, <4>2 DEF Capped, Least
    <3> QED
      BY <3>1, <3>2
  <2>5. r.out <=> e < Delay
    BY <2>2
  <2> QED
    BY <1>2, <1>3, <2>2, <2>3, <2>4, <2>5 DEF OffFollows
<1>8. CASE ~in /\ ~s.out
  <2>1. r = s /\ s \in Timer
    BY <1>5, <1>8 DEF OffFollows
  <2>2. ~h.level /\ ~g.level /\ g.run = Capped(h.run + dt) /\ (g.ever <=> h.ever)
    BY <1>3, <1>8 DEF OffFollows
  <2>3. h.ever => h.run >= Delay
    BY <1>1, <1>4, <1>8, <2>2 DEF OffFollows
  <2>4. h.ever => ~(g.run < Delay)
    BY <1>1, <1>4, <2>2, <2>3 DEF Capped, Least
  <2> QED
    BY <1>1, <1>3, <1>8, <2>1, <2>2, <2>4 DEF OffFollows
<1> QED
  BY <1>1, <1>6, <1>7, <1>8

\* A pulse begins at a rising edge, if none is under way.
LEMMA PulseStep ==
    ASSUME NEW s, NEW h, NEW a, PulseFollows(s, h, a),
           NEW in \in BOOLEAN, NEW dt \in Dts
    PROVE  PulseFollows(Pulse(s, in, dt), Seen(h, in, dt),
             Capped(IF in /\ ~h.level /\ a >= Delay THEN dt ELSE a + dt))
<1> DEFINE g == Seen(h, in, dt)
           b == Capped(IF in /\ ~h.level /\ a >= Delay THEN dt ELSE a + dt)
           r == Pulse(s, in, dt)
           starts == Starts(s, in)
           e == Advance(IF starts THEN 0 ELSE s.elapsed, dt, Delay)
<1> SUFFICES PulseFollows(r, g, b)
  OBVIOUS
<1>1. /\ s.elapsed \in Int /\ s.elapsed >= 0 /\ s.elapsed <= Delay
      /\ s.out \in BOOLEAN /\ h.level \in BOOLEAN /\ s.prev = h.level
      /\ a \in Int /\ a >= 0 /\ a <= Longest
      /\ s.out <=> a < Delay
  BY Counted, Bounds DEF PulseFollows, EdgeTimer, History
<1>2. /\ dt \in Int /\ dt >= 0 /\ Longest \in Int /\ Longest >= Delay
      /\ Delay \in Int /\ Delay >= 0 /\ Delay <= MaxT /\ MaxT \in Int
  BY ScanTime, Counted, Bounds
<1>3. starts <=> in /\ ~h.level /\ a >= Delay
  BY <1>1, <1>2 DEF Starts
<1>4. /\ starts => e = Least(dt, Delay)
      /\ ~starts => e = Least(s.elapsed + dt, Delay)
      /\ e \in Int /\ e >= 0 /\ e <= Delay
  BY <1>1, <1>2, AdvanceIsReal
<1>5. g \in History /\ g.level = in
  BY SeenIs DEF PulseFollows
<1>6. (starts => b = Capped(dt)) /\ (~starts => b = Capped(a + dt))
  BY <1>3
<1>7. r = [elapsed |-> IF s.out \/ starts THEN e ELSE s.elapsed,
           out |-> (s.out \/ starts) /\ e < Delay, prev |-> in]
  BY DEF Pulse
<1> HIDE DEF g, b, e, r, starts
<1>8. b \in 0 .. Longest
  BY <1>1, <1>2, <1>6 DEF Capped, Least
<1>9. ((s.out \/ starts) /\ e < Delay) \in BOOLEAN
  BY <1>1, <1>3
<1>10. /\ r \in EdgeTimer /\ r.prev = in /\ r.elapsed <= Delay
       /\ r.out <=> (s.out \/ starts) /\ e < Delay
       /\ (s.out \/ starts) => r.elapsed = e
  <2>1. CASE s.out \/ starts
    <3>1. r = [elapsed |-> e, out |-> e < Delay, prev |-> in]
      BY <1>2, <1>4, <1>7, <2>1
    <3>2. (e < Delay) \in BOOLEAN /\ e \in 0 .. MaxT
      BY <1>2, <1>4
    <3>3. /\ r \in EdgeTimer /\ r.prev = in /\ r.elapsed = e
          /\ r.out = (e < Delay)
      BY <3>1, <3>2 DEF EdgeTimer
    <3>4. r.out <=> e < Delay
      BY <3>3
    <3> QED
      BY <1>4, <2>1, <3>3, <3>4
  <2>2. CASE ~(s.out \/ starts)
    <3>1. r = [elapsed |-> s.elapsed, out |-> FALSE, prev |-> in]
      BY <1>7, <2>2
    <3>2. r.elapsed = s.elapsed /\ r.out = FALSE /\ r.prev = in /\ r \in EdgeTimer
      BY <1>1, <1>2, <3>1 DEF EdgeTimer
    <3> QED
      BY <1>1, <2>2, <3>2
  <2> QED
    BY <2>1, <2>2
<1>11. (r.out <=> b < Delay) /\ (r.out => r.elapsed = b)
  <2>1. CASE starts
    BY <1>2, <1>4, <1>6, <1>10, <2>1 DEF Capped, Least
  <2>2. CASE ~starts /\ s.out
    <3>1. s.elapsed = a
      BY <2>2 DEF PulseFollows
    <3> QED
      BY <1>1, <1>2, <1>4, <1>6, <1>10, <2>2, <3>1 DEF Capped, Least
  <2>3. CASE ~starts /\ ~s.out
    BY <1>1, <1>2, <1>6, <1>10, <2>3 DEF Capped, Least
  <2> QED
    BY <2>1, <2>2, <2>3
<1> QED
  BY <1>5, <1>8, <1>10, <1>11 DEF PulseFollows

LEMMA TpStep ==
    ASSUME NEW t, NEW s, NEW h, NEW a, PulseFollows(s, h, a), SamePulse(t, s),
           NEW in \in BOOLEAN, NEW dt \in Dts
    PROVE  SamePulse(Tp(t, in, dt), Pulse(s, in, dt))
<1> DEFINE starts == Starts(s, in)
           e == Advance(IF starts THEN 0 ELSE s.elapsed, dt, Delay)
           r == Pulse(s, in, dt)
           u == Pulse(t, in, dt)
           v == Tp(t, in, dt)
<1> SUFFICES SamePulse(v, r)
  OBVIOUS
<1>1. /\ s.elapsed \in Int /\ s.elapsed >= 0 /\ s.elapsed <= Delay
      /\ s.out \in BOOLEAN /\ s.prev \in BOOLEAN /\ MaxT \in Int
      /\ Delay \in Int /\ Delay >= 0 /\ Delay <= MaxT
  BY Bounds DEF PulseFollows, EdgeTimer
<1>2. /\ t.elapsed \in 0 .. MaxT /\ t.out = s.out /\ t.prev = s.prev
      /\ s.out => t.elapsed = s.elapsed
  BY DEF SamePulse, EdgeTimer
<1>3. Starts(t, in) = starts
  BY <1>2 DEF Starts
<1>4. starts \in BOOLEAN /\ (s.out \/ starts) \in BOOLEAN
  BY <1>1 DEF Starts
<1>5. e \in Int /\ e >= 0 /\ e <= Delay
  BY <1>1, AdvanceIsReal
<1>6. (s.out \/ starts) => Advance(IF starts THEN 0 ELSE t.elapsed, dt, Delay) = e
  BY <1>1, <1>2
<1>7. r = [elapsed |-> IF s.out \/ starts THEN e ELSE s.elapsed,
           out |-> (s.out \/ starts) /\ e < Delay, prev |-> in]
  BY DEF Pulse
<1>8. u = [elapsed |-> IF s.out \/ starts
                       THEN Advance(IF starts THEN 0 ELSE t.elapsed, dt, Delay)
                       ELSE t.elapsed,
           out |-> (s.out \/ starts)
                   /\ Advance(IF starts THEN 0 ELSE t.elapsed, dt, Delay) < Delay,
           prev |-> in]
  BY <1>2, <1>3 DEF Pulse
<1>9. v = [u EXCEPT !.elapsed = IF s.out \/ starts \/ in THEN u.elapsed ELSE 0]
  BY <1>2, <1>3 DEF Tp
<1> HIDE DEF starts, e, r, u, v
<1>10. CASE s.out \/ starts
  <2>1. u = [elapsed |-> e, out |-> e < Delay, prev |-> in]
    BY <1>4, <1>6, <1>8, <1>10
  <2>2. v = u
    BY <1>9, <1>10, <2>1
  <2>3. r = u
    BY <1>7, <1>10, <2>1
  <2>4. u \in EdgeTimer
    BY <1>1, <1>5, <2>1 DEF EdgeTimer
  <2> QED
    BY <2>2, <2>3, <2>4 DEF SamePulse
<1>11. CASE ~(s.out \/ starts)
  <2>1. u = [elapsed |-> t.elapsed, out |-> FALSE, prev |-> in]
    BY <1>8, <1>11
  <2>2. r = [elapsed |-> s.elapsed, out |-> FALSE, prev |-> in]
    BY <1>7, <1>11
  <2>3. v = [elapsed |-> IF in THEN t.elapsed ELSE 0, out |-> FALSE, prev |-> in]
    BY <1>9, <1>11, <2>1
  <2>4. (IF in THEN t.elapsed ELSE 0) \in 0 .. MaxT
    BY <1>1, <1>2
  <2>5. v \in EdgeTimer /\ v.out = FALSE /\ v.prev = in
    BY <2>3, <2>4 DEF EdgeTimer
  <2> QED
    BY <2>2, <2>5 DEF SamePulse
<1> QED
  BY <1>10, <1>11

\* The state changes only after a level that lasted, and does change then.
LEMMA CountsStep ==
    ASSUME NEW s, NEW h, Counts(s, h), NEW in \in BOOLEAN, NEW dt \in Dts
    PROVE  /\ Counts(Debounced(s, in, dt), Seen(h, in, dt))
           /\ ~(Debounced(s, in, dt).out <=> in) => Seen(h, in, dt).run < Stable
           /\ ~(Debounced(s, in, dt).out <=> s.out) =>
                  /\ Debounced(s, in, dt).out = in
                  /\ Seen(h, in, dt).run >= Stable
<1> DEFINE g == Seen(h, in, dt)
           r == Debounced(s, in, dt)
           e == Advance(s.elapsed, dt, Stable)
<1> SUFFICES /\ Counts(r, g)
             /\ ~(r.out <=> in) => g.run < Stable
             /\ ~(r.out <=> s.out) => r.out = in /\ g.run >= Stable
  OBVIOUS
<1>1. /\ s.elapsed \in Int /\ s.elapsed >= 0 /\ s.elapsed <= Stable
      /\ s.out \in BOOLEAN /\ h.level \in BOOLEAN
      /\ h.run \in Int /\ h.run >= 0 /\ h.run <= Longest
  BY Counted, Bounds DEF Counts, Timer, History
<1>2. /\ e = Least(s.elapsed + dt, Stable) /\ e \in Int /\ e >= 0 /\ e <= Stable
  BY <1>1, AdvanceIsReal, Bounds
<1>3. /\ g \in History /\ g.level = in
      /\ (in <=> h.level) => g.run = Capped(h.run + dt)
      /\ ~(in <=> h.level) => g.run = Capped(dt)
  BY SeenIs DEF Counts
<1>4. /\ dt \in Int /\ dt >= 0 /\ Longest \in Int /\ Longest >= Stable
      /\ Stable \in Int /\ Stable >= 0 /\ Stable <= MaxT /\ MaxT \in Int
  BY ScanTime, Counted, Bounds
<1>5. r = IF in = s.out THEN [elapsed |-> 0, out |-> s.out]
          ELSE IF e >= Stable THEN [elapsed |-> 0, out |-> in]
          ELSE [elapsed |-> e, out |-> s.out]
  BY DEF Debounced
<1> HIDE DEF g, e, r
<1>6. CASE in = s.out
  <2>1. r = [elapsed |-> 0, out |-> s.out]
    BY <1>5, <1>6
  <2>2. r \in Timer /\ r.elapsed = 0 /\ r.out = s.out
    BY <1>1, <1>4, <2>1 DEF Timer
  <2> QED
    BY <1>1, <1>3, <1>4, <1>6, <2>2 DEF Counts
<1>7. CASE in # s.out
  <2>1. /\ (h.level <=> s.out) => s.elapsed = 0 /\ ~(in <=> h.level)
        /\ ~(h.level <=> s.out) => s.elapsed = h.run /\ (in <=> h.level)
    BY <1>1, <1>7 DEF Counts
  <2>2. /\ e >= Stable => g.run >= Stable
        /\ e < Stable => e = g.run
        /\ g.run \in Int
    BY <1>1, <1>2, <1>3, <1>4, <2>1 DEF Capped, Least
  <2>3. CASE e >= Stable
    <3>1. r = [elapsed |-> 0, out |-> in]
      BY <1>5, <1>7, <2>3
    <3>2. r \in Timer /\ r.elapsed = 0 /\ r.out = in
      BY <1>4, <3>1 DEF Timer
    <3> QED
      BY <1>3, <1>4, <2>2, <2>3, <3>2 DEF Counts
  <2>4. CASE e < Stable
    <3>1. r = [elapsed |-> e, out |-> s.out]
      BY <1>2, <1>4, <1>5, <1>7, <2>4
    <3>2. r \in Timer /\ r.elapsed = e /\ r.out = s.out
      BY <1>1, <1>2, <1>4, <3>1 DEF Timer
    <3>3. ~(r.out <=> in)
      BY <1>1, <1>7, <3>2
    <3> QED
      BY <1>1, <1>2, <1>3, <1>4, <2>2, <2>4, <3>2, <3>3 DEF Counts
  <2> QED
    BY <1>2, <1>4, <2>3, <2>4
<1> QED
  BY <1>6, <1>7

\* The hold timer runs on the debounced level of the same scan.
LEMMA ButtonStep ==
    ASSUME NEW b, NEW h, NEW down, ButtonFollows(b, h, down),
           NEW raw \in BOOLEAN, NEW dt \in Dts
    PROVE  ButtonFollows(ButtonUpdate(b, raw, dt), Seen(h, raw, dt),
                         Seen(down, ButtonUpdate(b, raw, dt).prev, dt))
<1> DEFINE d == Debounced(b.db, raw, dt)
           hold == OnDelay(b.hold, d.out, dt, Hold)
           r == ButtonUpdate(b, raw, dt)
           g == Seen(h, raw, dt)
<1>1. Counts(d, g) /\ (~(d.out <=> raw) => g.run < Stable)
  BY CountsStep DEF ButtonFollows
<1>2. d.out \in BOOLEAN
  BY <1>1 DEF Counts, Timer
<1>3. /\ OnFollows(hold, Seen(down, d.out, dt), Hold)
  BY <1>2, OnStep, Bounds, Counted DEF ButtonFollows
<1>4. Seen(down, d.out, dt).level = d.out /\ g.level = raw
  BY DEF Seen
<1>5. r = [db |-> d, hold |-> hold, prev |-> d.out,
           pressed |-> d.out /\ ~b.prev, released |-> ~d.out /\ b.prev,
           held |-> hold.out]
  BY DEF ButtonUpdate
<1>6. b.prev \in BOOLEAN
  BY DEF ButtonFollows, Counts, Timer
<1> HIDE DEF d, hold, r, g
<1>7. /\ r.db = d /\ r.hold = hold /\ r.prev = d.out /\ r.held = hold.out
      /\ r.pressed = (d.out /\ ~b.prev) /\ r.released = (~d.out /\ b.prev)
  BY <1>5
<1>8. (d.out /\ ~b.prev) \in BOOLEAN /\ (~d.out /\ b.prev) \in BOOLEAN
  BY <1>2, <1>6
<1>9. ButtonFollows(r, g, Seen(down, r.prev, dt))
  BY <1>1, <1>3, <1>4, <1>5, <1>7, <1>8 DEF ButtonFollows
<1> QED
  BY <1>9 DEF r, g

-----------------------------------------------------------------------------
(* The system.                                                             *)

IInv ==
    /\ OnFollows(on, seen["on"], Delay) /\ ton = on
    /\ OffFollows(off, seen["off"]) /\ tof = off
    /\ PulseFollows(pulse, seen["pulse"], age) /\ SamePulse(tp, pulse)
    /\ Counts(deb, seen["deb"])
    /\ ButtonFollows(button, seen["button"], seen["down"])
    /\ seen \in [Blocks -> History]

\* A block that was just reset, and a history that was just begun.
LEMMA Fresh ==
    /\ OnFollows(Off, Unseen, Delay)
    /\ OffFollows(Off, Unseen)
    /\ PulseFollows(Idle, Unseen, Longest) /\ SamePulse(Idle, Idle)
    /\ \A state \in BOOLEAN : Counts([elapsed |-> 0, out |-> state], Unseen)
    /\ Unseen \in History
<1>1. /\ Longest \in Int /\ Longest >= 0 /\ Longest >= Delay /\ MaxT \in Int /\ MaxT >= 0
      /\ Delay \in Int /\ Delay >= 0 /\ Stable \in Int /\ Stable >= 0
  BY Counted, Bounds
<1>2. /\ Unseen \in History /\ Unseen.level = FALSE /\ Unseen.run = 0
      /\ Unseen.ever = FALSE
  BY <1>1 DEF Unseen, History
<1>3. Off \in Timer /\ Off.elapsed = 0 /\ Off.out = FALSE
  BY <1>1 DEF Off, Timer
<1>4. /\ Idle \in EdgeTimer /\ Idle.elapsed = 0 /\ Idle.out = FALSE
      /\ Idle.prev = FALSE
  BY <1>1 DEF Idle, EdgeTimer
<1>5. ASSUME NEW state \in BOOLEAN
      PROVE  Counts([elapsed |-> 0, out |-> state], Unseen)
  <2> DEFINE r == [elapsed |-> 0, out |-> state]
  <2>1. r \in Timer /\ r.elapsed = 0 /\ r.out = state
    BY <1>1 DEF Timer
  <2> HIDE DEF r
  <2>2. Counts(r, Unseen)
    BY <1>1, <1>2, <2>1 DEF Counts
  <2> QED
    BY <2>2 DEF r
<1>6. OnFollows(Off, Unseen, Delay) /\ OffFollows(Off, Unseen)
  BY <1>1, <1>2, <1>3 DEF OnFollows, OffFollows
<1>7. PulseFollows(Idle, Unseen, Longest) /\ SamePulse(Idle, Idle)
  <2>1. ~Idle.out /\ ~(Longest < Delay) /\ Longest \in 0 .. Longest
    BY <1>1, <1>4
  <2>2. PulseFollows(Idle, Unseen, Longest)
    BY <1>1, <1>2, <1>4, <2>1 DEF PulseFollows
  <2>3. SamePulse(Idle, Idle)
    BY <1>4 DEF SamePulse
  <2> QED
    BY <2>2, <2>3
<1> QED
  BY <1>2, <1>5, <1>6, <1>7

LEMMA FreshButton == ButtonFollows(Released, Unseen, Unseen)
<1>1. Counts(Off, Unseen) /\ OnFollows(Off, Unseen, Hold)
  <2>1. Off \in Timer /\ Off.elapsed = 0 /\ Off.out = FALSE
    BY Bounds DEF Off, Timer
  <2>2. /\ Unseen \in History /\ Unseen.level = FALSE /\ Unseen.run = 0
    BY Fresh DEF Unseen
  <2> QED
    BY <2>1, <2>2, Bounds DEF Counts, OnFollows
<1>2. Off.out = FALSE /\ Unseen.level = FALSE
  BY DEF Off, Unseen
<1>3. /\ Released.db = Off /\ Released.hold = Off
      /\ Released.pressed = FALSE /\ Released.released = FALSE
      /\ Released = [db |-> Off, hold |-> Off, prev |-> FALSE, pressed |-> FALSE,
                     released |-> FALSE, held |-> FALSE]
  BY DEF Released
<1> QED
  BY <1>1, <1>2, <1>3 DEF ButtonFollows

LEMMA InitInv == Init => IInv
<1> SUFFICES ASSUME Init PROVE IInv
  OBVIOUS
<1>1. \A b \in Blocks : seen[b] = Unseen
  BY DEF Init
<1>2. {"on", "off", "pulse", "deb", "button", "down"} \subseteq Blocks
  BY DEF Blocks
<1>3. seen \in [Blocks -> History]
  BY Fresh DEF Init
<1>4. Counts(deb, Unseen)
  BY Fresh DEF Init, Off
<1> QED
  BY <1>1, <1>2, <1>3, <1>4, Fresh, FreshButton DEF Init, IInv

-----------------------------------------------------------------------------
(* The steps.                                                              *)

LEMMA ScanInv ==
    ASSUME IInv, NEW in \in BOOLEAN, NEW dt \in Dts, Scan(in, dt)
    PROVE  IInv'
<1>1. /\ "on" \in Blocks /\ "off" \in Blocks /\ "pulse" \in Blocks
      /\ "deb" \in Blocks /\ "button" \in Blocks /\ "down" \in Blocks
  BY DEF Blocks
<1>2. button'.prev \in BOOLEAN
  <2>1. ButtonUpdate(button, in, dt).prev = Debounced(button.db, in, dt).out
    BY DEF ButtonUpdate
  <2>2. Debounced(button.db, in, dt).out \in BOOLEAN
    BY CountsStep DEF IInv, ButtonFollows, Counts, Timer
  <2> QED
    BY <2>1, <2>2 DEF Scan
<1>3. /\ seen'["on"] = Seen(seen["on"], in, dt)
      /\ seen'["off"] = Seen(seen["off"], in, dt)
      /\ seen'["pulse"] = Seen(seen["pulse"], in, dt)
      /\ seen'["deb"] = Seen(seen["deb"], in, dt)
      /\ seen'["button"] = Seen(seen["button"], in, dt)
      /\ seen'["down"] = Seen(seen["down"], button'.prev, dt)
  BY <1>1 DEF Scan
<1>4. seen' \in [Blocks -> History]
  <2>1. \A b \in Blocks :
          Seen(seen[b], IF b = "down" THEN button'.prev ELSE in, dt) \in History
    BY <1>2, SeenIs DEF IInv
  <2> QED
    BY <2>1 DEF Scan
<1>5. OnFollows(on', seen'["on"], Delay) /\ ton' = on'
  BY <1>3, OnStep, TonIsOnDelay, Bounds, Counted DEF IInv, Scan
<1>6. OffFollows(off', seen'["off"]) /\ tof' = off'
  BY <1>3, OffStep DEF IInv, Scan, Tof
<1>7. PulseFollows(pulse', seen'["pulse"], age') /\ SamePulse(tp', pulse')
  BY <1>3, PulseStep, TpStep DEF IInv, Scan, Aged
<1>8. Counts(deb', seen'["deb"])
  BY <1>3, CountsStep DEF IInv, Scan
<1>9. ButtonFollows(button', seen'["button"], seen'["down"])
  BY <1>3, ButtonStep DEF IInv, Scan
<1> QED
  BY <1>4, <1>5, <1>6, <1>7, <1>8, <1>9 DEF IInv

LEMMA Forgotten ==
    ASSUME seen \in [Blocks -> History], NEW bs \in SUBSET Blocks, Forget(bs)
    PROVE  /\ seen' \in [Blocks -> History]
           /\ \A b \in bs : seen'[b] = Unseen
           /\ \A b \in Blocks \ bs : seen'[b] = seen[b]
  BY Fresh DEF Forget

LEMMA ResetInv ==
    ASSUME IInv,
           \/ ResetOnDelay \/ ResetOffDelay \/ ResetPulse \/ ResetButton
           \/ \E state \in BOOLEAN : ResetDebounce(state)
    PROVE  IInv'
<1>1. /\ {"on"} \subseteq Blocks /\ {"off"} \subseteq Blocks
      /\ {"pulse"} \subseteq Blocks /\ {"deb"} \subseteq Blocks
      /\ {"button", "down"} \subseteq Blocks
  BY DEF Blocks
<1>2. seen \in [Blocks -> History]
  BY DEF IInv
<1>3. CASE ResetOnDelay
  <2>1. /\ seen' \in [Blocks -> History] /\ seen'["on"] = Unseen
        /\ \A b \in Blocks \ {"on"} : seen'[b] = seen[b]
    BY <1>1, <1>2, <1>3, Forgotten DEF ResetOnDelay
  <2> QED
    BY <1>3, <2>1, Fresh DEF ResetOnDelay, IInv, Blocks
<1>4. CASE ResetOffDelay
  <2>1. /\ seen' \in [Blocks -> History] /\ seen'["off"] = Unseen
        /\ \A b \in Blocks \ {"off"} : seen'[b] = seen[b]
    BY <1>1, <1>2, <1>4, Forgotten DEF ResetOffDelay
  <2> QED
    BY <1>4, <2>1, Fresh DEF ResetOffDelay, IInv, Blocks
<1>5. CASE ResetPulse
  <2>1. /\ seen' \in [Blocks -> History] /\ seen'["pulse"] = Unseen
        /\ \A b \in Blocks \ {"pulse"} : seen'[b] = seen[b]
    BY <1>1, <1>2, <1>5, Forgotten DEF ResetPulse
  <2> QED
    BY <1>5, <2>1, Fresh DEF ResetPulse, IInv, Blocks
<1>6. CASE ResetButton
  <2>1. /\ seen' \in [Blocks -> History]
        /\ seen'["button"] = Unseen /\ seen'["down"] = Unseen
        /\ \A b \in Blocks \ {"button", "down"} : seen'[b] = seen[b]
    BY <1>1, <1>2, <1>6, Forgotten DEF ResetButton
  <2> QED
    BY <1>6, <2>1, FreshButton DEF ResetButton, IInv, Blocks, iec
<1>7. CASE \E state \in BOOLEAN : ResetDebounce(state)
  <2>1. PICK state \in BOOLEAN : ResetDebounce(state)
    BY <1>7
  <2>2. /\ seen' \in [Blocks -> History] /\ seen'["deb"] = Unseen
        /\ \A b \in Blocks \ {"deb"} : seen'[b] = seen[b]
    BY <1>1, <1>2, <2>1, Forgotten DEF ResetDebounce
  <2> QED
    BY <2>1, <2>2, Fresh DEF ResetDebounce, IInv, Blocks, iec
<1> QED
  BY <1>3, <1>4, <1>5, <1>6, <1>7

LEMMA NextInv == IInv /\ [Next]_vars => IInv'
<1> SUFFICES ASSUME IInv, [Next]_vars PROVE IInv'
  OBVIOUS
<1>1. CASE UNCHANGED vars
  BY <1>1 DEF IInv, vars, iec, contacts
<1>2. CASE Next
  BY <1>2, ScanInv, ResetInv DEF Next
<1> QED
  BY <1>1, <1>2

LEMMA Invariant == Spec => []IInv
  BY InitInv, NextInv, PTL DEF Spec

\* The levels and runs of the histories, and how a held button implies them.
LEMMA InvImplies ==
    IInv => TypeOK /\ DelaysAreReal /\ FamiliesAgree /\ HeldMeansDown
<1> SUFFICES ASSUME IInv
             PROVE  TypeOK /\ DelaysAreReal /\ FamiliesAgree /\ HeldMeansDown
  OBVIOUS
<1>1. DelaysAreReal /\ FamiliesAgree
  BY DEF IInv, DelaysAreReal, FamiliesAgree, OnFollows, OffFollows, PulseFollows,
         SamePulse
<1>2. TypeOK
  <2>1. /\ on \in Timer /\ off \in Timer /\ pulse \in EdgeTimer /\ deb \in Timer
        /\ ton \in Timer /\ tof \in Timer /\ tp \in EdgeTimer
        /\ on.elapsed <= Delay /\ off.elapsed <= Delay /\ pulse.elapsed <= Delay
        /\ deb.elapsed <= Stable /\ age \in 0 .. Longest
    BY DEF IInv, OnFollows, OffFollows, PulseFollows, SamePulse, Counts
  <2>2. button.db \in Timer /\ button.hold \in Timer
    BY DEF IInv, ButtonFollows, OnFollows, Counts
  <2>3. button.db.out \in BOOLEAN /\ button.hold.out \in BOOLEAN
    BY <2>2 DEF Timer
  <2>4. /\ button.pressed \in BOOLEAN /\ button.released \in BOOLEAN
        /\ button = [db |-> button.db, hold |-> button.hold, prev |-> button.db.out,
                     pressed |-> button.pressed, released |-> button.released,
                     held |-> button.hold.out]
    BY DEF IInv, ButtonFollows
  <2>5. button \in [db : Timer, hold : Timer, prev : BOOLEAN, pressed : BOOLEAN,
                    released : BOOLEAN, held : BOOLEAN]
    BY <2>2, <2>3, <2>4
  <2> QED
    BY <2>1, <2>5 DEF TypeOK, IInv, History
<1>3. HeldMeansDown
  <2>1. button.held = button.hold.out
    BY DEF IInv, ButtonFollows
  <2>2. /\ button.hold.out <=> seen["down"].level /\ seen["down"].run >= Hold
        /\ seen["down"].level = button.db.out
        /\ ~(button.db.out <=> seen["button"].level) => seen["button"].run < Stable
    BY DEF IInv, ButtonFollows, OnFollows
  <2> QED
    BY <2>1, <2>2 DEF HeldMeansDown
<1> QED
  BY <1>1, <1>2, <1>3

\* The action of DebounceFollows.
Follows ==
    /\ deb'.out # deb.out /\ seen'["deb"] # Unseen =>
           seen'["deb"].level = deb'.out /\ seen'["deb"].run >= Stable
    /\ seen'["deb"].run > 0 /\ seen'["deb"].run >= Stable =>
           deb'.out = seen'["deb"].level

LEMMA StepFollows == IInv /\ [Next]_vars => Follows
<1> SUFFICES ASSUME IInv, [Next]_vars PROVE Follows
  OBVIOUS
<1>1. IInv'
  BY NextInv
<1>2. /\ deb'.out \in BOOLEAN /\ seen'["deb"].level \in BOOLEAN
      /\ seen'["deb"].run \in Int /\ Stable \in Int
      /\ ~(deb'.out <=> seen'["deb"].level) =>
             seen'["deb"].run = 0 \/ seen'["deb"].run < Stable
  BY <1>1, Bounds, Counted DEF IInv, Counts, Timer, History
<1>3. seen'["deb"].run > 0 /\ seen'["deb"].run >= Stable =>
          deb'.out = seen'["deb"].level
  BY <1>2
<1>4. ASSUME deb'.out # deb.out, seen'["deb"] # Unseen
      PROVE  seen'["deb"].level = deb'.out /\ seen'["deb"].run >= Stable
  <2>1. CASE \E in \in BOOLEAN, dt \in Dts : Scan(in, dt)
    <3>1. PICK in \in BOOLEAN, dt \in Dts : Scan(in, dt)
      BY <2>1
    <3>2. deb' = Debounced(deb, in, dt) /\ seen'["deb"] = Seen(seen["deb"], in, dt)
      BY <3>1 DEF Scan, Blocks
    <3>3. Counts(deb, seen["deb"]) /\ deb.out \in BOOLEAN
      BY DEF IInv, Counts, Timer
    <3>4. ~(deb'.out <=> deb.out)
      BY <1>2, <1>4, <3>3
    <3>5. deb'.out = in /\ seen'["deb"].run >= Stable
      BY <3>2, <3>3, <3>4, CountsStep
    <3>6. seen'["deb"].level = in
      BY <3>2 DEF Seen
    <3> QED
      BY <3>5, <3>6
  <2>2. CASE \E state \in BOOLEAN : ResetDebounce(state)
    <3>1. seen'["deb"] = Unseen
      BY <2>2 DEF ResetDebounce, Forget, Blocks
    <3> QED
      BY <1>4, <3>1
  <2>3. CASE \/ ResetOnDelay \/ ResetOffDelay \/ ResetPulse \/ ResetButton
             \/ UNCHANGED vars
    <3>1. deb' = deb
      BY <2>3 DEF ResetOnDelay, ResetOffDelay, ResetPulse, ResetButton,
                  vars, contacts
    <3> QED
      BY <1>4, <3>1
  <2> QED
    BY <2>1, <2>2, <2>3 DEF Next
<1> QED
  BY <1>3, <1>4 DEF Follows

-----------------------------------------------------------------------------
(* The theorems.                                                           *)

\* Types; every elapsed time stays within its preset.
THEOREM TypeCorrect == Spec => []TypeOK
  BY Invariant, InvImplies, PTL

\* The outputs of the contact timers switch at their presets in real time,
\* whatever the scan times and the width of the time type.
THEOREM TimersAreReal == Spec => []DelaysAreReal
  BY Invariant, InvImplies, PTL

\* The IEC timers switch with the timers of logic.hpp.
THEOREM TwinsAgree == Spec => []FamiliesAgree
  BY Invariant, InvImplies, PTL

\* A held button has been down, debounced, for its hold time.
THEOREM HeldIsDown == Spec => []HeldMeansDown
  BY Invariant, InvImplies, PTL

\* A debounced level changes after a level that lasted, and then does.
THEOREM DebounceIsFaithful == Spec => DebounceFollows
<1>1. IInv /\ [Next]_vars => [Follows]_vars
  BY StepFollows
<1>2. Spec => [][Follows]_vars
  BY <1>1, Invariant, PTL DEF Spec
<1> QED
  BY <1>2 DEF DebounceFollows, Follows

-----------------------------------------------------------------------------
(***************************************************************************)
(* Periodic fires once per period and BLINK keeps its average period, for  *)
(* every period, every phase time and every width of the time type.        *)
(*                                                                         *)
(* The phase Periodic stores is exactly the credit of the history, and a   *)
(* BLINK without a stall has not yet used up the phase it is in; both are  *)
(* inductive with the types.                                               *)
(***************************************************************************)

PhaseIsCredit == credit = phase

WithinPhase == lit => elapsed < PhaseTime

RhythmIInv == RhythmType /\ PhaseIsCredit /\ FiresOncePerPeriod /\ WithinPhase /\ BlinkKeepsTime

Periodics == phase \in 0 .. Period /\ fired \in BOOLEAN /\ credit \in Int
             /\ steady \in BOOLEAN /\ time \in 0 .. Period - 1

Blinks == q \in BOOLEAN /\ elapsed \in 0 .. PhaseTime
          /\ lit \in BOOLEAN /\ cycle \in 0 .. Cycle - 1

LEMMA Split == RhythmType <=> Periodics /\ Blinks
  BY DEF RhythmType, Periodics, Blinks

\* The bounds of the parameters, and of a scan time.
LEMMA RhythmBounds ==
    /\ TimeMax \in Int /\ TimeMax >= 0
    /\ Period \in Int /\ Period >= 1 /\ Period <= TimeMax
    /\ TimeOn \in Int /\ TimeOn >= 1 /\ TimeOn <= TimeMax
    /\ TimeOff \in Int /\ TimeOff >= 1 /\ TimeOff <= TimeMax
  BY RhythmAssumption

LEMMA RhythmScanTime ==
    ASSUME NEW dt \in ScanTimes
    PROVE  dt \in Int /\ dt >= 0 /\ dt <= TimeMax
  BY RhythmAssumption

LEMMA RhythmInitInv == RhythmInit => RhythmIInv
<1> SUFFICES ASSUME RhythmInit PROVE RhythmIInv
  OBVIOUS
<1>1. Periodics /\ PhaseIsCredit /\ FiresOncePerPeriod
  <2>1. /\ phase = 0 /\ credit = 0 /\ time = 0
        /\ fired \in BOOLEAN /\ steady \in BOOLEAN
    BY DEF RhythmInit
  <2> QED
    BY <2>1, RhythmBounds DEF Periodics, PhaseIsCredit, FiresOncePerPeriod
<1>2. Blinks /\ WithinPhase /\ BlinkKeepsTime
  <2>1. elapsed = 0 /\ cycle = 0 /\ ~q /\ q \in BOOLEAN /\ lit \in BOOLEAN
    BY DEF RhythmInit
  <2>2. PhaseTime = TimeOff
    BY <2>1 DEF PhaseTime
  <2> QED
    BY <2>1, <2>2, RhythmBounds DEF Blinks, WithinPhase, BlinkKeepsTime, Cycle
<1> QED
  BY <1>1, <1>2, Split DEF RhythmIInv

\* What Periodic leaves unchanged of BLINK, and the other way round.
LEMMA BlinkUntouched ==
    ASSUME Blinks, WithinPhase, BlinkKeepsTime, UNCHANGED blinker
    PROVE  Blinks' /\ WithinPhase' /\ BlinkKeepsTime'
  BY DEF Blinks, WithinPhase, BlinkKeepsTime, blinker, PhaseTime

LEMMA PeriodicUntouched ==
    ASSUME Periodics, PhaseIsCredit, FiresOncePerPeriod, UNCHANGED periodic
    PROVE  Periodics' /\ PhaseIsCredit' /\ FiresOncePerPeriod'
  BY DEF Periodics, PhaseIsCredit, FiresOncePerPeriod, periodic

\* The phase after dt: the sum, if the time type holds it.
LEMMA PhasedIsSum ==
    ASSUME Periodics, NEW dt \in ScanTimes
    PROVE  /\ Phased(dt) \in Nat
           /\ Phased(dt) = IF phase + dt <= TimeMax THEN phase + dt ELSE TimeMax
  BY RhythmBounds, RhythmScanTime DEF Periodics, Phased, Summed, Around

LEMMA RunInv ==
    ASSUME Periodics, PhaseIsCredit, FiresOncePerPeriod, NEW dt \in ScanTimes, Run(dt)
    PROVE  Periodics' /\ PhaseIsCredit' /\ FiresOncePerPeriod'
<1> DEFINE sum == Phased(dt)
<1>1. /\ sum \in Nat
      /\ sum = IF phase + dt <= TimeMax THEN phase + dt ELSE TimeMax
  BY PhasedIsSum
<1>2. /\ phase \in 0 .. Period /\ time \in 0 .. Period - 1 /\ credit = phase
      /\ Period \in Int /\ Period >= 1 /\ Period <= TimeMax
      /\ TimeMax \in Int /\ dt \in Int /\ dt >= 0 /\ dt <= TimeMax
  BY RhythmBounds, RhythmScanTime DEF Periodics, PhaseIsCredit
<1>3. /\ fired' \in BOOLEAN
      /\ fired' <=> sum >= Period
  <2>1. fired' = (sum >= Period)
    BY DEF Run, Fires
  <2>2. (sum >= Period) \in BOOLEAN
    BY <1>1, <1>2
  <2> QED
    BY <2>1, <2>2, Zenon
<1>4. /\ ~fired' => phase' = sum
      /\ fired' => phase' = Lesser(sum - Period, Period)
  BY <1>3 DEF Run, Carried, Fires
<1>5. /\ ~fired' => credit' = Lesser(phase + dt, Lesser(2 * Period, TimeMax))
      /\ fired' => credit' = Lesser(phase + dt, Lesser(2 * Period, TimeMax)) - Period
  BY <1>2, <1>3 DEF Run, Lesser
<1> HIDE DEF sum
<1>6. phase' \in 0 .. Period /\ fired' \in BOOLEAN /\ PhaseIsCredit'
  BY <1>1, <1>2, <1>3, <1>4, <1>5 DEF Lesser, PhaseIsCredit
<1>7. credit' \in Int /\ credit' >= 0 /\ (~fired' => credit' < Period)
  BY <1>1, <1>2, <1>3, <1>4, <1>6 DEF PhaseIsCredit
<1>8. steady' \in BOOLEAN /\ time' \in 0 .. Period - 1
  <2>1. steady' \in BOOLEAN
    BY Zenon DEF Run
  <2>2. CASE ~steady'
    BY <2>1, <2>2, <1>2 DEF Run
  <2>3. CASE steady'
    <3>1. dt <= Period /\ time' = Around(time + dt, Period)
      BY <2>3 DEF Run
    <3> QED
      BY <2>1, <3>1, <1>2 DEF Around
  <2> QED
    BY <2>2, <2>3
<1>9. ASSUME steady' PROVE phase' = time'
  <2>1. steady /\ dt <= Period /\ phase + dt <= TimeMax
    BY <1>9 DEF Run
  <2>2. phase = time
    BY <2>1 DEF FiresOncePerPeriod
  <2>3. sum = phase + dt
    BY <1>1, <2>1
  <2>4. time' = Around(phase + dt, Period)
    BY <1>9, <2>2 DEF Run
  <2> QED
    BY <1>2, <1>3, <1>4, <2>1, <2>2, <2>3, <2>4 DEF Around, Lesser
<1> QED
  BY <1>6, <1>7, <1>8, <1>9 DEF Periodics, FiresOncePerPeriod

\* BLINK without a stall: the facts a step of it needs.
LEMMA InStepSum ==
    ASSUME Blinks, NEW dt \in ScanTimes, InStep(dt)
    PROVE  Now(dt) = elapsed + dt
  BY RhythmBounds, RhythmScanTime
  DEF Blinks, InStep, Now, Summed, Around, PhaseTime

LEMMA NowTyped ==
    ASSUME Blinks, NEW dt \in ScanTimes
    PROVE  Now(dt) \in Nat
  BY RhythmBounds, RhythmScanTime DEF Blinks, Now, Summed, Around, PhaseTime

LEMMA BlinkHoldInv ==
    ASSUME Blinks, WithinPhase, BlinkKeepsTime, NEW dt \in ScanTimes, BlinkHold(dt)
    PROVE  Blinks' /\ WithinPhase' /\ BlinkKeepsTime'
<1>1. lit' => lit /\ elapsed + dt = Now(dt)
  BY InStepSum DEF BlinkHold, Metred
<1>2. elapsed' = Now(dt) /\ q' = q /\ Now(dt) < PhaseTime /\ Now(dt) \in Nat
  BY NowTyped DEF BlinkHold
<1>3. cycle' = IF lit' THEN Around(cycle + dt, Cycle) ELSE 0
  BY DEF BlinkHold, Metred
<1>4. cycle \in 0 .. Cycle - 1 /\ lit' \in BOOLEAN /\ q \in BOOLEAN
  BY DEF Blinks, BlinkHold, Metred
<1>5. BlinkKeepsTime'
  BY <1>1, <1>2, <1>3, <1>4, RhythmBounds, RhythmScanTime
  DEF Blinks, BlinkKeepsTime, PhaseTime, Cycle, Around
<1>6. cycle' \in 0 .. Cycle - 1
  BY <1>1, <1>2, <1>3, <1>4, RhythmBounds, RhythmScanTime
  DEF Blinks, BlinkKeepsTime, PhaseTime, Cycle, Around
<1>7. (PhaseTime)' = PhaseTime /\ PhaseTime \in Int
  BY <1>2, <1>4, RhythmBounds DEF PhaseTime
<1>8. q' \in BOOLEAN /\ elapsed' \in 0 .. (PhaseTime)'
  BY <1>2, <1>4, <1>7
<1> QED
  BY <1>2, <1>4, <1>5, <1>6, <1>7, <1>8 DEF Blinks, WithinPhase

LEMMA BlinkToggleInv ==
    ASSUME Blinks, WithinPhase, BlinkKeepsTime, NEW dt \in ScanTimes, BlinkToggle(dt)
    PROVE  Blinks' /\ WithinPhase' /\ BlinkKeepsTime'
<1>1. lit' => /\ lit /\ elapsed + dt = Now(dt)
              /\ dt <= TimeOn /\ dt <= TimeOff
  BY InStepSum DEF BlinkToggle, Metred, InStep
<1>2. /\ elapsed' = Lesser(Now(dt) - PhaseTime, NextPhase) /\ q' = ~q
      /\ Now(dt) >= PhaseTime /\ Now(dt) \in Nat
  BY NowTyped DEF BlinkToggle
<1>3. cycle' = IF lit' THEN Around(cycle + dt, Cycle) ELSE 0
  BY DEF BlinkToggle, Metred
<1>4. cycle \in 0 .. Cycle - 1 /\ lit' \in BOOLEAN /\ q \in BOOLEAN
  BY DEF Blinks, BlinkToggle, Metred
<1>5. PhaseTime \in Nat /\ NextPhase \in Nat /\ (PhaseTime)' = NextPhase
  <2>1. PhaseTime \in Nat /\ NextPhase \in Nat
    BY RhythmBounds DEF PhaseTime, NextPhase
  <2>2. (PhaseTime)' = NextPhase
    <3>1. q' <=> ~q
      BY <1>2
    <3> QED
      BY <3>1 DEF PhaseTime, NextPhase
  <2> QED
    BY <2>1, <2>2
<1>6. elapsed' \in 0 .. NextPhase
  BY <1>2, <1>5 DEF Lesser
<1>7. ASSUME lit'
      PROVE  elapsed' = elapsed + dt - PhaseTime /\ elapsed' < NextPhase
  <2>1. elapsed < PhaseTime /\ elapsed \in Nat /\ dt \in Nat
    BY <1>1, <1>7, RhythmBounds, RhythmScanTime DEF WithinPhase, Blinks, PhaseTime
  <2>2. dt <= NextPhase
    BY <1>1, <1>7 DEF NextPhase
  <2> QED
    BY <1>1, <1>2, <1>5, <1>7, <2>1, <2>2 DEF Lesser
<1>8. BlinkKeepsTime' /\ cycle' \in 0 .. Cycle - 1
  <2>1. CASE ~lit'
    BY <2>1, <1>3, RhythmBounds, RhythmScanTime DEF BlinkKeepsTime, Cycle
  <2>2. CASE lit'
    <3>1. lit /\ elapsed \in Nat /\ dt \in Nat
      BY <2>2, <1>1, RhythmBounds, RhythmScanTime DEF Blinks, PhaseTime
    <3>2. cycle = elapsed + (IF q THEN TimeOff ELSE 0)
      BY <3>1 DEF BlinkKeepsTime
    <3>3. elapsed' >= 0 /\ elapsed' < NextPhase
          /\ elapsed' = elapsed + dt - PhaseTime
      BY <2>2, <1>6, <1>7
    <3>4. cycle' = Around(cycle + dt, TimeOn + TimeOff)
      BY <2>2, <1>3 DEF Cycle
    <3>5. CASE q
      <4>1. PhaseTime = TimeOn /\ NextPhase = TimeOff /\ ~q'
        BY <3>5, <1>2 DEF PhaseTime, NextPhase
      <4>2. cycle' = elapsed'
        BY <3>1, <3>2, <3>3, <3>4, <3>5, <4>1, RhythmBounds DEF Around
      <4> QED
        BY <3>1, <3>3, <4>1, <4>2, RhythmBounds DEF BlinkKeepsTime, Cycle
    <3>6. CASE ~q
      <4>1. PhaseTime = TimeOff /\ NextPhase = TimeOn /\ q'
        BY <3>6, <1>2 DEF PhaseTime, NextPhase
      <4>2. cycle' = elapsed' + TimeOff
        BY <3>1, <3>2, <3>3, <3>4, <3>6, <4>1, RhythmBounds DEF Around
      <4> QED
        BY <3>1, <3>3, <4>1, <4>2, RhythmBounds DEF BlinkKeepsTime, Cycle
    <3> QED
      BY <3>5, <3>6
  <2> QED
    BY <2>1, <2>2
<1> QED
  BY <1>2, <1>4, <1>5, <1>6, <1>7, <1>8 DEF Blinks, WithinPhase

LEMMA RhythmNextInv == RhythmIInv /\ [RhythmNext]_rhythm => RhythmIInv'
<1> SUFFICES ASSUME RhythmIInv, [RhythmNext]_rhythm PROVE RhythmIInv'
  OBVIOUS
<1>1. /\ Periodics /\ PhaseIsCredit /\ FiresOncePerPeriod
      /\ Blinks /\ WithinPhase /\ BlinkKeepsTime
  BY Split DEF RhythmIInv
<1> SUFFICES /\ Periodics' /\ PhaseIsCredit' /\ FiresOncePerPeriod'
             /\ Blinks' /\ WithinPhase' /\ BlinkKeepsTime'
  BY DEF RhythmIInv, RhythmType, Periodics, Blinks
<1>2. ASSUME NEW dt \in ScanTimes, Run(dt)
      PROVE  /\ Periodics' /\ PhaseIsCredit' /\ FiresOncePerPeriod'
             /\ UNCHANGED blinker
  BY <1>1, <1>2, RunInv DEF Run
<1>3. ASSUME NEW dt \in ScanTimes, BlinkHold(dt) \/ BlinkToggle(dt)
      PROVE  /\ Blinks' /\ WithinPhase' /\ BlinkKeepsTime'
             /\ UNCHANGED periodic
  BY <1>1, <1>3, BlinkHoldInv, BlinkToggleInv DEF BlinkHold, BlinkToggle, Metred
<1>4. ASSUME ResetPeriodic
      PROVE  /\ Periodics' /\ PhaseIsCredit' /\ FiresOncePerPeriod'
             /\ UNCHANGED blinker
  <2>1. /\ phase' = 0 /\ credit' = 0 /\ time' = 0 /\ UNCHANGED blinker
        /\ fired' \in BOOLEAN /\ steady' \in BOOLEAN
    BY <1>4 DEF ResetPeriodic
  <2> QED
    BY <2>1, RhythmBounds DEF Periodics, PhaseIsCredit, FiresOncePerPeriod
<1>5. ASSUME BlinkOff
      PROVE  /\ Blinks' /\ WithinPhase' /\ BlinkKeepsTime'
             /\ UNCHANGED periodic
  <2>1. /\ elapsed' = 0 /\ cycle' = 0 /\ UNCHANGED periodic
        /\ ~q' /\ q' \in BOOLEAN /\ lit' \in BOOLEAN
    BY <1>5 DEF BlinkOff
  <2>2. (PhaseTime)' = TimeOff
    BY <2>1 DEF PhaseTime
  <2> QED
    BY <2>1, <2>2, RhythmBounds DEF Blinks, WithinPhase, BlinkKeepsTime, Cycle
<1>6. CASE UNCHANGED rhythm
  BY <1>1, <1>6, BlinkUntouched, PeriodicUntouched DEF rhythm
<1> QED
  BY <1>1, <1>2, <1>3, <1>4, <1>5, <1>6, BlinkUntouched, PeriodicUntouched DEF RhythmNext

LEMMA RhythmInvariant == RhythmSpec => []RhythmIInv
  BY RhythmInitInv, RhythmNextInv, PTL DEF RhythmSpec

\* Types; the stored phases stay within their bounds for every width of the time
\* type and every scan time.
THEOREM RhythmTypeCorrect == RhythmSpec => []RhythmType
<1>1. RhythmIInv => RhythmType
  BY DEF RhythmIInv
<1> QED
  BY <1>1, RhythmInvariant, PTL

\* Periodic fires exactly once per period of the time it has run, stalls
\* counting as two periods at most.
THEOREM PeriodicKeepsItsRate == RhythmSpec => []FiresOncePerPeriod
<1>1. RhythmIInv => FiresOncePerPeriod
  BY DEF RhythmIInv
<1> QED
  BY <1>1, RhythmInvariant, PTL

\* BLINK's average period is its on time plus its off time, for any scan times
\* no longer than a phase.
THEOREM BlinkHasNoDrift == RhythmSpec => []BlinkKeepsTime
<1>1. RhythmIInv => BlinkKeepsTime
  BY DEF RhythmIInv
<1> QED
  BY <1>1, RhythmInvariant, PTL
=============================================================================
