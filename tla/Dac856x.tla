------------------------------- MODULE Dac856x ------------------------------
(***************************************************************************)
(* drivers/dac856x: a converter the driver tells only about changes.       *)
(***************************************************************************)
EXTENDS Integers

CONSTANTS Voltages,   \* what set_output may be asked for (uV)
          Values,     \* what set_regvalue may be asked for
          MaxCalls
VARIABLES dev,        \* [pwr, dac_value]: what the driver believes
          chip,       \* the same, as the converter has it
          job, out    \* [voltage]: the last call; [calls]

vars == <<dev, chip, job, out>>
Power == 0 .. 3
ref_vol_dot_1mv == 25000   \* the internal reference, in 0.1 mV

update_to_device(d) == dev' = d /\ chip' = d
Call(voltage) == out.calls < MaxCalls /\ out' = [calls |-> out.calls + 1] /\ job' = [voltage |-> voltage]

dac856x_init == out.calls = 0 /\ Call(-1) /\ update_to_device([pwr |-> 2, dac_value |-> 0])
dac856x_set_power ==
    /\ out.calls > 0 /\ Call(-1)
    /\ \E p \in Power : IF dev.pwr # p THEN update_to_device([dev EXCEPT !.pwr = p]) ELSE UNCHANGED <<dev, chip>>
dac856x_set_regvalue(regval) ==
    IF dev.dac_value # regval THEN update_to_device([dev EXCEPT !.dac_value = regval]) ELSE UNCHANGED <<dev, chip>>
SetRegvalue == out.calls > 0 /\ Call(-1) /\ \E v \in Values : dac856x_set_regvalue(v)

\* The value is cut to 16 bits: a voltage at the reference becomes 0.
DacValue_Truncated(voltage) == (((voltage \div 100) * 65536) \div ref_vol_dot_1mv) % 65536
DacValue(voltage) == (((voltage \div 100) * 65536 + ref_vol_dot_1mv \div 2) \div ref_vol_dot_1mv) % 65536
dac856x_set_output ==
    /\ out.calls > 0
    /\ \E u \in Voltages : Call(u) /\ dac856x_set_regvalue(DacValue(u))

Next == \/ dac856x_init \/ dac856x_set_power \/ SetRegvalue \/ dac856x_set_output
        \/ out.calls >= MaxCalls /\ UNCHANGED vars
Init == /\ dev = [pwr |-> 0, dac_value |-> 0] /\ chip \in [pwr : {0}, dac_value : {0, 99}]
        /\ job = [voltage |-> -1] /\ out = [calls |-> 0]

---------------------------------------------------------------------------

\* Skipping a write that changes nothing is sound from the first call on: the converter has
\* what the driver believes, and after set_output below the reference it is the nearest code.
OutputNearest ==
    out.calls > 0 =>
        /\ chip = dev
        /\ LET steps == job.voltage \div 100 IN
           steps \in 0 .. ref_vol_dot_1mv - 1 =>
               2 * (chip.dac_value * (ref_vol_dot_1mv \div 8) - steps * 8192)
                   \in -(ref_vol_dot_1mv \div 8) .. (ref_vol_dot_1mv \div 8)
=============================================================================
