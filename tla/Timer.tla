------------------------------- MODULE Timer -------------------------------
(***************************************************************************)
(* A Timer (timer.cc) and its two clocks.  libuv fires by its own clock,   *)
(* which only goes forward; OnTick asks the wall clock whether the         *)
(* interval is over, and drops the tick if not.  Start lets libuv fire at  *)
(* once, and that tick is meant to be dropped.  Both clocks are read in    *)
(* whole milliseconds and do not begin theirs at the same moments.         *)
(***************************************************************************)
EXTENDS Integers

CONSTANTS
    Interval, \* interval_, in milliseconds
    Sub,      \* moments in a millisecond
    Offset,   \* what the wall clock may be ahead of libuv's, in moments
    Word,     \* of the unsigned arithmetic
    MaxTime   \* moments the model lasts

ASSUME TimerAssumption ==
    /\ Interval \in Nat \ {0} /\ Sub \in Nat \ {0} /\ Word \in Nat /\ MaxTime \in Nat
    /\ Offset \subseteq Nat
    /\ MaxTime < Word

VARIABLES
    now,     \* the moment
    offset,  \* of the wall clock
    stepped, \* somebody has set the wall clock since Start
    due,     \* the millisecond at which libuv fires next
    start,   \* start_time_
    fired,   \* what libuv has done since Start: "none", "once", "again"
    begun,   \* the moment of Start
    called   \* on_tick_ ran in the last step

timerVars == <<now, offset, stepped, due, start, fired, begun, called>>

Stopped == -1
Ms(t) == t \div Sub

-----------------------------------------------------------------------------

\* uv_gettimeofday.
Wall == now + offset

GetElapsedTime == (Ms(Wall) - Ms(start)) % Word

Start ==
    /\ due = Stopped
    /\ due' = Ms(now)
    /\ start' = Wall
    /\ fired' = "none" /\ begun' = now /\ stepped' = FALSE /\ called' = FALSE
    /\ UNCHANGED <<now, offset>>

Stop ==
    /\ due # Stopped
    /\ due' = Stopped
    /\ called' = FALSE
    /\ UNCHANGED <<now, offset, stepped, start, fired, begun>>

\* Variant: every tick is told.
OnTickUnfiltered ==
    /\ due # Stopped /\ due <= Ms(now)
    /\ due' = Ms(now) + Interval
    /\ fired' = IF fired = "none" THEN "once" ELSE "again"
    /\ called' = TRUE
    /\ UNCHANGED <<now, offset, stepped, start, begun>>

\* Variant: a tick that is just on time is dropped.
OnTickStrict ==
    /\ due # Stopped /\ due <= Ms(now)
    /\ due' = Ms(now) + Interval
    /\ fired' = IF fired = "none" THEN "once" ELSE "again"
    /\ called' = (GetElapsedTime > Interval)
    /\ UNCHANGED <<now, offset, stepped, start, begun>>

\* libuv arms the timer again and calls OnTick.
OnTick ==
    /\ due # Stopped /\ due <= Ms(now)
    /\ due' = Ms(now) + Interval
    /\ fired' = IF fired = "none" THEN "once" ELSE "again"
    /\ called' = (GetElapsedTime >= Interval)
    /\ UNCHANGED <<now, offset, stepped, start, begun>>

-----------------------------------------------------------------------------

TimePasses ==
    /\ now < MaxTime
    /\ now' = now + 1
    /\ called' = FALSE
    /\ UNCHANGED <<offset, stepped, due, start, fired, begun>>

SetClock ==
    /\ offset' \in Offset \ {offset}
    /\ stepped' = TRUE /\ called' = FALSE
    /\ UNCHANGED <<now, due, start, fired, begun>>

TimerInit ==
    /\ now = 0 /\ offset \in Offset /\ stepped = FALSE
    /\ due = Stopped /\ start = 0 /\ fired = "none" /\ begun = 0 /\ called = FALSE

TimerNext == Start \/ Stop \/ OnTick \/ TimePasses \/ SetClock

TimerSpec == TimerInit /\ [][TimerNext]_timerVars

-----------------------------------------------------------------------------
(* Properties. *)

\* While nobody sets the clock, no tick is told before the interval is over
\* but for less than a millisecond, not the one at once, after which a connect
\* would be tried or a start given up too soon; and rounding loses a tick at
\* most once: libuv's third and every later one is told, and the second if it
\* does not come early (timer.cc:18).
TicksAreFiltered ==
    [][OnTick /\ ~stepped =>
          /\ called' => now - begun > (Interval - 1) * Sub
          /\ fired = "again" \/ now - begun >= Interval * Sub => called']_timerVars
=============================================================================
