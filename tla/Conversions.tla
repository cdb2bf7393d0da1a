----------------------------- MODULE Conversions ----------------------------
(***************************************************************************)
(* The functions from values to values: dates and BCD of misc/, millivolts *)
(* of ads1015.c, the sample of ads8317.c, the baud rate divisor of         *)
(* hcs12_rs485_bus.c and pidcontrol.c.  A job is one call.                 *)
(***************************************************************************)
EXTENDS SecondDatetime

CONSTANTS Jobs
VARIABLES job, out
vars == <<job, out>>
Idle == [val |-> -99999]

ADS1015_RESULT_FULL == 2048
vt == <<6144, 4096, 2048, 1024, 512, 256>>
\* C's division rounds towards zero.
Quot(a, b) == IF a >= 0 THEN a \div b ELSE -((-a) \div b)
ads1015_result_to_mv_NoSign(result, fsl) ==
    IF fsl + 1 \notin DOMAIN vt \/ result >= ADS1015_RESULT_FULL \/ result < -ADS1015_RESULT_FULL THEN 0
    ELSE Quot(result * vt[fsl + 1] + 1024, ADS1015_RESULT_FULL)
ads1015_result_to_mv(result, fsl) ==
    IF fsl + 1 \notin DOMAIN vt \/ result >= ADS1015_RESULT_FULL \/ result < -ADS1015_RESULT_FULL THEN 0
    ELSE LET res == result * vt[fsl + 1] IN
         Quot(IF res >= 0 THEN res + 1024 ELSE res - 1024, ADS1015_RESULT_FULL)

ads8317_read_Shift7(buf) ==
    LET ret == (buf[1] * 32768 + buf[2] * 64 + buf[3] \div 4) % 65536 IN
    IF ret >= 32768 THEN ret - 65536 ELSE ret
ads8317_read(buf) ==
    LET ret == (buf[1] * 16384 + buf[2] * 64 + buf[3] \div 4) % 65536 IN
    IF ret >= 32768 THEN ret - 65536 ELSE ret


\* An int is 16 bits wide here: the shifted baud rates are cut.
BUS_CLOCK == 40000000
hcs12_rs485_bus_set_baud_Down(baud) == (BUS_CLOCK \div ((baud * 16) % 65536)) % 65536
hcs12_rs485_bus_set_baud(baud) == ((BUS_CLOCK + ((baud * 8) % 65536)) \div ((baud * 16) % 65536)) % 65536

\* The errors are kept in 16 bits, the control value between 0 and 65535.
Int16(n) == ((n + 32768) % 65536) - 32768
pid_exec_NoClamp(v, real) ==
    LET ek == <<Int16(v.expect - real), v.ek[1], v.ek[2]>>
        diff == Quot(v.kp * ek[1] + v.ki * (ek[1] - ek[2]) + v.kd * (ek[1] - 2 * ek[2] + ek[3]), v.factor)
    IN  [v EXCEPT !.ek = ek, !.control = (v.control + diff) % 65536]
pid_exec(v, real) ==
    LET ek == <<Int16(v.expect - real), v.ek[1], v.ek[2]>>
        diff == Quot(v.kp * ek[1] + v.ki * (ek[1] - ek[2]) + v.kd * (ek[1] - 2 * ek[2] + ek[3]), v.factor)
        c == v.control + diff
    IN  [v EXCEPT !.ek = ek, !.control = IF c < 0 THEN 0 ELSE IF c > 65535 THEN 65535 ELSE c]

\* There and back: to a date, valid with its weekday, and to seconds again.
Dates(j) ==
    LET t == second_to_datetime(j.arg) IN
    [val |-> IF datetime_is_valid(t, TRUE) THEN __toSeconds(t) ELSE -1, date |-> t]
Millivolts(j) == [val |-> ads1015_result_to_mv(j.arg, j.fsl)]
Sample(j) == [val |-> ads8317_read(j.buf)]
Bcd(j) == [val |-> from_bcd(to_bcd(j.arg))]
Baud(j) == [val |-> hcs12_rs485_bus_set_baud(j.arg)]
\* The same output three times, so that the errors of before are forgotten.
Pid(j) ==
    LET v1 == pid_exec(j.pid, j.arg)
        v3 == pid_exec(pid_exec(v1, j.arg), j.arg)
    IN  [val |-> v1.control, third |-> v3.control - pid_exec(v1, j.arg).control]

Run(op, result(_)) == out = Idle /\ job.op = op /\ out' = result(job) /\ UNCHANGED job
Next == \/ Run("date", Dates) \/ Run("mv", Millivolts) \/ Run("sample", Sample) \/ Run("bcd", Bcd)
        \/ Run("baud", Baud) \/ Run("pid", Pid)
        \/ out # Idle /\ UNCHANGED vars
Init == job \in Jobs /\ out = Idle

---------------------------------------------------------------------------

Ran(op) == out # Idle /\ job.op = op

\* A second gives the date a calendar gives it, counted year by year and month by month from
\* 2000-01-01, a Saturday, and the date gives the second back.
Days(year, month) == IF month = 2 THEN (IF year % 4 = 0 THEN 29 ELSE 28) ELSE IF month \in {4, 6, 9, 11} THEN 30 ELSE 31
DaysBefore(t) ==
    MapThenSumSet(LAMBDA y : IF y % 4 = 0 THEN 366 ELSE 365, 0 .. t.year - 1)
        + MapThenSumSet(LAMBDA m : Days(t.year, m), 1 .. t.month - 1) + t.day - 1
DateTrue ==
    Ran("date") =>
        /\ out.val = job.arg
        /\ out.date.day \in 1 .. Days(out.date.year, out.date.month)
        /\ job.arg = DaysBefore(out.date) * 86400 + out.date.hour * 3600 + out.date.minute * 60 + out.date.second
        /\ out.date.weekday = (DaysBefore(out.date) + 5) % 7

\* The millivolts are the nearest ones, the same for a result and its negative; results out
\* of range and unknown scales give 0.
MvNearest ==
    Ran("mv") =>
        IF job.fsl \in 0 .. 5 /\ job.arg \in -2048 .. 2047
        THEN 2 * (2048 * out.val - job.arg * vt[job.fsl + 1]) \in -2048 .. 2048
        ELSE out.val = 0

\* A sample is 16 bits of the 24 clocked in, after six leading ones, as a signed number; a
\* BCD byte keeps every number below 100.
BytesTrue ==
    /\ Ran("sample") =>
        (out.val - (job.buf[1] * 65536 + job.buf[2] * 256 + job.buf[3]) \div 4) % 65536 = 0
            /\ out.val \in -32768 .. 32767
    /\ Ran("bcd") => out.val = IF job.arg < 100 THEN job.arg ELSE 0

\* The divisor is the nearest one for every rate whose shifted value an int holds.
BaudNearest ==
    Ran("baud") /\ job.arg < 4096 => 2 * (out.val * job.arg * 16 - BUS_CLOCK) \in -(job.arg * 16) .. job.arg * 16

\* With the proportional part only, a step never moves the control value away from what the
\* output lacks (as long as the lack fits 16 bits), and never past either end of its range.
PidDirection ==
    Ran("pid") =>
        LET lack == job.pid.expect - job.arg IN
        /\ out.val \in 0 .. 65535
        /\ job.pid.ki = 0 /\ job.pid.kd = 0 /\ lack \in -32768 .. 32767 =>
            IF lack >= 0 THEN out.val >= job.pid.control ELSE out.val <= job.pid.control
        \* no lack at all for three steps: nothing moves any more
        /\ lack = 0 => out.third = 0
=============================================================================
