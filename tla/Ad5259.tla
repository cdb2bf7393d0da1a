------------------------------- MODULE Ad5259 -------------------------------
(***************************************************************************)
(* drivers/ad5259: a potentiometer whose real resistance the driver reads  *)
(* as a tolerance of the nominal one.  Transfers may fail.                 *)
(***************************************************************************)
EXTENDS Integers

CONSTANTS Tolerances,          \* the two bytes the chip may hold
          Resistances,         \* what set_resistance_wb may be asked for
          nominal_resistance,
          MaxCalls
VARIABLES dev,    \* resistance_ab, 0 before init
          chip,   \* [tolerance, pos]
          job,    \* the resistance last set, -1 when unknown
          out     \* [ret, rwb, calls]

vars == <<dev, chip, job, out>>

Answer(ret, rwb) ==
    /\ out.calls < MaxCalls
    /\ out' = [ret |-> ret, rwb |-> rwb, calls |-> out.calls + 1]

\* Sign and seven bits, then the fraction, of a percentage of 100 * 256.
init_get_resistance_ab(b) ==
    LET t == (b[1] % 128) * 256 + b[2]
        tolerance == IF b[1] >= 128 THEN 25600 - t ELSE 25600 + t
    IN  (tolerance * nominal_resistance + 12800) \div 25600
ad5259_init ==
    /\ dev = 0
    /\ \/ Answer(0, 0) /\ UNCHANGED dev
       \/ Answer(1, 0) /\ dev' = init_get_resistance_ab(chip.tolerance)
    /\ UNCHANGED <<chip, job>>

\* The position has eight bits: one that rounds to 256 becomes 0.
Position(rwb) == (((IF rwb > dev THEN dev ELSE rwb) * 256 + dev \div 2) \div dev) % 256
ad5259_set_resistance_wb ==
    /\ dev # 0
    /\ \E rwb \in Resistances :
        \/ Answer(0, 0) /\ UNCHANGED <<chip, job>>
        \/ Answer(1, 0) /\ chip' = [chip EXCEPT !.pos = Position(rwb)] /\ job' = rwb
    /\ UNCHANGED dev

Wb_Rounded(pos) == (dev * (pos + 1) + 128) \div 256
Wb(pos) == (dev * pos + 128) \div 256
ad5259_get_resistance_wb ==
    /\ dev # 0
    /\ \/ Answer(0, 0)
       \/ Answer(2, Wb(chip.pos))
    /\ UNCHANGED <<dev, chip, job>>

Next == \/ ad5259_init \/ ad5259_set_resistance_wb \/ ad5259_get_resistance_wb
        \/ out.calls >= MaxCalls /\ UNCHANGED vars
Init == /\ dev = 0 /\ chip \in [tolerance : Tolerances, pos : {128}]
        /\ job = -1 /\ out = [ret |-> 0, rwb |-> 0, calls |-> 0]

---------------------------------------------------------------------------

\* What get_resistance_wb reads back is within half a step of what was last set, whatever
\* the tolerance and whatever failed in between; the one request that is not kept is the
\* top half step, whose position wraps to 0.
WithinHalfStep ==
    out.ret = 2 /\ job >= 0 /\ job * 256 + dev \div 2 < 256 * dev
        => 512 * (out.rwb - job) \in -(dev + 512) .. dev + 512
=============================================================================
