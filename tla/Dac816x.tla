------------------------------- MODULE Dac816x ------------------------------
(***************************************************************************)
(* drivers/dac816x: a two channel converter.  A call is the sequence of    *)
(* SPI frames it sends (their result is ignored); each frame is a step, so *)
(* that the pins can be looked at between two of them.                     *)
(***************************************************************************)
EXTENDS Integers, Sequences

CONSTANTS Voltages,   \* what set_output may be asked for (mV)
          ref_voltage_mv,
          MaxCalls
VARIABLES dev,        \* [pwr, gain2]: per channel, what the driver believes
          chip,       \* [pwr, gain2, code]: per channel, what the converter does
          job,        \* the frames still to send
          out         \* [ret, calls, ch, voltage]: the last call

vars == <<dev, chip, job, out>>
Ch == {"A", "B"}
Power == {"ON", "1K", "100K", "HiZ"}
ref_vol == IF ref_voltage_mv = 0 THEN 2500 ELSE ref_voltage_mv

\* The frames of transmit.
power(ch, st) == [cmd |-> "power", ch |-> ch, st |-> st]
value(ch, dat) == [cmd |-> "value", ch |-> ch, dat |-> dat]
reset == [cmd |-> "reset"]
ldac == [cmd |-> "ldac"]
ref == [cmd |-> "ref"]
gain_to_command_data_Swapped(g) == (IF g["A"] THEN 0 ELSE 2) + (IF g["B"] THEN 0 ELSE 1)
gain_to_command_data(g) ==
    CASE g["A"] /\ g["B"] -> 0
      [] ~g["A"] /\ g["B"] -> 1
      [] g["A"] /\ ~g["B"] -> 2
      [] OTHER -> 3
set_gain(g) == [cmd |-> "gain", dat |-> gain_to_command_data(g)]

---------------------------------------------------------------------------

Call(frames, d, ret, ch, voltage) ==
    /\ job = <<>> /\ out.calls < MaxCalls
    /\ job' = frames /\ dev' = d
    /\ out' = [ret |-> ret, calls |-> out.calls + 1, ch |-> ch, voltage |-> voltage]
    /\ UNCHANGED chip

\* B is switched by A's status: at this point they are equal.
dac816x_init ==
    /\ out.calls = 0
    /\ LET d == [pwr |-> [c \in Ch |-> "100K"], gain2 |-> [c \in Ch |-> FALSE]] IN
       Call(<<reset, ldac, power("A", d.pwr["A"]), power("B", d.pwr["A"]), ref, set_gain(d.gain2)>>,
            d, 1, "none", 0)

dac816x_set_power ==
    /\ out.calls > 0
    /\ \E ch \in Ch \cup {"other"}, st \in Power \cup {"other"} :
        IF ch \in Ch /\ st \in Power
        THEN Call(<<power(ch, st)>>, [dev EXCEPT !.pwr[ch] = st], 1, "none", 0)
        ELSE Call(<<>>, dev, 0, "none", 0)

\* The channel floats while its gain and its value change.
Gain2(voltage) == voltage >= ref_vol
Dat(voltage) ==
    (((IF Gain2(voltage) THEN voltage \div 2 ELSE voltage) * 65536 + ref_vol \div 2) \div ref_vol) % 65536
Frames_NoHiZ(ch, voltage, g) ==
    (IF g # dev.gain2 THEN <<set_gain(g)>> ELSE <<>>) \o <<value(ch, Dat(voltage)), power(ch, "ON")>>
Frames(ch, voltage, g) ==
    <<power(ch, "HiZ")>> \o (IF g # dev.gain2 THEN <<set_gain(g)>> ELSE <<>>)
        \o <<value(ch, Dat(voltage)), power(ch, "ON")>>
dac816x_set_output ==
    /\ out.calls > 0
    /\ \E ch \in Ch \cup {"other"}, voltage \in Voltages :
        IF voltage >= ref_vol * 2 \/ ch \notin Ch \/ dev.pwr[ch] # "ON"
        THEN Call(<<>>, dev, 0, "none", 0)
        ELSE LET g == [dev.gain2 EXCEPT ![ch] = Gain2(voltage)] IN
             Call(Frames(ch, voltage, g), [dev EXCEPT !.gain2 = g], 1, ch, voltage)

\* External: the converter takes a frame.
Take(f) ==
    CASE f.cmd = "power" -> [chip EXCEPT !.pwr[f.ch] = f.st]
      [] f.cmd = "value" -> [chip EXCEPT !.code[f.ch] = f.dat]
      [] f.cmd = "gain" -> [chip EXCEPT !.gain2 = [A |-> f.dat \in {0, 2}, B |-> f.dat \in {0, 1}]]
      [] f.cmd = "reset" -> [pwr |-> [c \in Ch |-> "ON"], gain2 |-> [c \in Ch |-> FALSE], code |-> [c \in Ch |-> 0]]
      [] OTHER -> chip
transmit ==
    /\ job # <<>>
    /\ chip' = Take(Head(job)) /\ job' = Tail(job)
    /\ UNCHANGED <<dev, out>>

Next == \/ dac816x_init \/ dac816x_set_power \/ dac816x_set_output \/ transmit
        \/ job = <<>> /\ out.calls >= MaxCalls /\ UNCHANGED vars

Init ==
    /\ dev = [pwr |-> [c \in Ch |-> "ON"], gain2 |-> [c \in Ch |-> FALSE]]
    /\ chip = [pwr |-> [c \in Ch |-> "ON"], gain2 |-> [c \in Ch |-> FALSE], code |-> [c \in Ch |-> 0]]
    /\ job = <<>>
    /\ out = [ret |-> 0, calls |-> 0, ch |-> "none", voltage |-> 0]

---------------------------------------------------------------------------

\* A channel that drives its pin never changes its gain or its value: what the pin shows
\* goes from the old voltage to the new one through high impedance, and setting one channel
\* leaves the other's pin alone.
Driven(ch) == chip.pwr[ch] = "ON" /\ chip'.pwr[ch] = "ON"
NoGlitch ==
    out.calls > 1 =>
        \A ch \in Ch : Driven(ch) => chip'.gain2[ch] = chip.gain2[ch] /\ chip'.code[ch] = chip.code[ch]

\* After set_output answered 1 the channel is on, at most 2 mV below what was asked and 1 above.
Millivolts(ch) == ((chip.code[ch] * ref_vol) \div 65536) * (IF chip.gain2[ch] THEN 2 ELSE 1)
OutputRight ==
    job = <<>> /\ out.ch \in Ch =>
        /\ chip.pwr[out.ch] = "ON"
        /\ Millivolts(out.ch) - out.voltage \in -2 .. 1
=============================================================================
