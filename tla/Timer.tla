-------------------------------- MODULE Timer -------------------------------
(***************************************************************************)
(* misc/timer.c on a clock that wraps.                                     *)
(***************************************************************************)
EXTENDS Integers

CONSTANTS Wrap,        \* 2^32 in the code
          Waits,       \* what the timer is set to
          MaxLate      \* how long after its end it is looked at
VARIABLES st,    \* [now, start, wait]
          out    \* the time since it was set, not wrapped

vars == <<st, out>>

timer_countdown_ms ==
    \E w \in Waits : st' = [st EXCEPT !.start = st.now, !.wait = w] /\ out' = 0
Tick ==
    /\ out < st.wait + MaxLate
    /\ st' = [st EXCEPT !.now = (@ + 1) % Wrap] /\ out' = out + 1

timer_is_expired == (st.start + st.wait) % Wrap <= st.now
timer_left_ms_Absolute ==
    IF timer_is_expired THEN 0 ELSE ((st.start + st.wait) % Wrap) - st.now
timer_left_ms ==
    LET elapse == (st.now - st.start) % Wrap IN IF elapse >= st.wait THEN 0 ELSE st.wait - elapse

Next == timer_countdown_ms \/ Tick
Init == st \in [now : {0}, start : {0}, wait : {0}] /\ out = 0

---------------------------------------------------------------------------

\* timer_left_ms counts down to 0 and stays there across a wrap of the clock, as long as
\* nobody waits a whole turn; timer_is_expired agrees with it unless the end wraps.
LeftTrue ==
    /\ timer_left_ms = IF out >= st.wait THEN 0 ELSE st.wait - out
    /\ st.start + st.wait < Wrap /\ st.start + out < Wrap => (timer_is_expired <=> timer_left_ms = 0)
=============================================================================
