------------------------------- MODULE Ads1015 ------------------------------
(***************************************************************************)
(* drivers/ads1015: one conversion is two writes of the configuration,     *)
(* polls until the chip is ready, and a read of the result; every transfer *)
(* may fail.                                                               *)
(***************************************************************************)
EXTENDS Integers

CONSTANTS Samples,    \* the 12 bit results the inputs may give
          Polls,      \* 20 in the code
          MaxCalls
VARIABLES dev,        \* pc of the call
          chip,       \* [ready, result, input]: input is what a conversion now gives
          job,        \* [polls, input]
          out         \* [val, calls]

vars == <<dev, chip, job, out>>
ADS1015_RESULT_ERROR == 32767

Finish(val) == dev' = "idle" /\ out' = [val |-> val, calls |-> out.calls + 1]
Fails == Finish(ADS1015_RESULT_ERROR) /\ UNCHANGED <<chip, job>>

ads1015_single_convert ==
    /\ dev = "idle" /\ out.calls < MaxCalls
    /\ dev' = "configure" /\ job' = [polls |-> 0, input |-> 0] /\ UNCHANGED <<chip, out>>
Configure ==
    /\ dev = "configure"
    /\ \/ Fails
       \/ dev' = "start" /\ UNCHANGED <<chip, job, out>>
Start ==
    /\ dev = "start"
    /\ \/ Fails
       \/ \E s \in Samples :
            /\ chip' = [chip EXCEPT !.ready = FALSE, !.input = s]
            /\ job' = [job EXCEPT !.input = s]
            /\ dev' = "poll" /\ UNCHANGED out

Poll_ResultOnly ==
    /\ dev = "poll"
    /\ \/ Fails
       \/ dev' = "result" /\ UNCHANGED <<chip, job, out>>
Poll ==
    /\ dev = "poll"
    /\ \/ Fails
       \/ /\ job.polls + 1 <= Polls
          /\ dev' = IF chip.ready THEN "result" ELSE "poll"
          /\ job' = [job EXCEPT !.polls = @ + 1]
          /\ UNCHANGED <<chip, out>>
Result ==
    /\ dev = "result"
    /\ \/ Fails
       \/ Finish(chip.result \div 16) /\ UNCHANGED <<chip, job>>

\* External: the conversion ends and the result register has it, shifted left by four.
Converted ==
    /\ ~chip.ready
    /\ chip' = [chip EXCEPT !.ready = TRUE, !.result = 16 * chip.input]
    /\ UNCHANGED <<dev, job, out>>

Next == \/ ads1015_single_convert \/ Configure \/ Start \/ Poll \/ Result \/ Converted
        \/ dev = "idle" /\ chip.ready /\ out.calls >= MaxCalls /\ UNCHANGED vars
Init == /\ dev = "idle" /\ chip = [ready |-> TRUE, result |-> 0, input |-> 0]
        /\ job = [polls |-> 0, input |-> 0] /\ out = [val |-> ADS1015_RESULT_ERROR, calls |-> 0]

---------------------------------------------------------------------------

\* A result that is not the error is the conversion this call started, never the one a call
\* that gave up left in the register; it is 12 bits wide, so never the error by accident.
FreshResult ==
    dev = "idle" /\ out.val # ADS1015_RESULT_ERROR => out.val = job.input /\ out.val \in -2048 .. 2047
=============================================================================
