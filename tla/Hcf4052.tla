------------------------------- MODULE Hcf4052 ------------------------------
(***************************************************************************)
(* drivers/hcf4052: an analogue switch behind three pins, written one at a *)
(* time.                                                                   *)
(***************************************************************************)
EXTENDS Integers, Sequences

CONSTANTS MaxCalls
VARIABLES dev,    \* the channel asked for, "none" before one is
          chip,   \* [a, b, inh]: the pins
          job,    \* the pins still to write
          out     \* [calls, current]: the last answer of get_current_channel

vars == <<dev, chip, job, out>>
pin(p, v) == [pin |-> p, v |-> v]

Call(pins, ch, cur) ==
    /\ job = <<>> /\ out.calls < MaxCalls
    /\ job' = pins /\ dev' = ch /\ out' = [calls |-> out.calls + 1, current |-> cur]
    /\ UNCHANGED chip
hcf4052_init == out.calls = 0 /\ Call(<<pin("inh", 1)>>, "none", -1)

\* A channel that is none of the four leaves the switch disabled.
Pins_NotDisabled(ch) == <<pin("a", ch % 2), pin("b", ch \div 2), pin("inh", 0)>>
Pins_Swapped(ch) ==
    <<pin("inh", 1)>> \o (IF ch \in 0 .. 3 THEN <<pin("b", ch % 2), pin("a", ch \div 2), pin("inh", 0)>> ELSE <<>>)
Pins(ch) ==
    <<pin("inh", 1)>> \o (IF ch \in 0 .. 3 THEN <<pin("a", ch % 2), pin("b", ch \div 2), pin("inh", 0)>> ELSE <<>>)
hcf4052_select_channel ==
    /\ out.calls > 0
    /\ \E ch \in 0 .. 4 : Call(Pins(ch), IF ch = 4 THEN "none" ELSE <<"0", "1", "2", "3">>[ch + 1], -1)

\* Pin a is read for both bits.
io_to_channel == <<0, 2, 1, 3>>
hcf4052_get_current_channel ==
    /\ out.calls > 0
    /\ Call(<<>>, dev, IF chip.inh = 1 THEN 4 ELSE io_to_channel[chip.a + 2 * chip.a + 1])

gpio_set_output ==
    /\ job # <<>>
    /\ chip' = [chip EXCEPT ![Head(job).pin] = Head(job).v] /\ job' = Tail(job)
    /\ UNCHANGED <<dev, out>>

Next == \/ hcf4052_init \/ hcf4052_select_channel \/ hcf4052_get_current_channel \/ gpio_set_output
        \/ job = <<>> /\ out.calls >= MaxCalls /\ UNCHANGED vars
Init == /\ dev = "none" /\ chip \in [a : {0, 1}, b : {0, 1}, inh : {0, 1}]
        /\ job = <<>> /\ out = [calls |-> 0, current |-> -1]

---------------------------------------------------------------------------

\* Break before make: while the switch conducts it never moves to another channel, and when
\* a call is over it conducts the channel asked for or none.
BreakBeforeMake ==
    out.calls > 1 /\ chip.inh = 0 /\ chip'.inh = 0 => chip'.a = chip.a /\ chip'.b = chip.b
Conducts ==
    job = <<>> /\ out.calls > 0 =>
        IF chip.inh = 1 THEN dev = "none" ELSE dev = <<"0", "1", "2", "3">>[chip.a + 2 * chip.b + 1]
=============================================================================
