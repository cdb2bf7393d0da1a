------------------------------ MODULE Pcf212x -------------------------------
(***************************************************************************)
(* drivers/pcf212x: the clock chip without protection.  A read is two      *)
(* transfers (the register, then the bytes), an alarm is two writes.       *)
(***************************************************************************)
EXTENDS SecondDatetime, TLC

CONSTANTS Calls,     \* the calls the application may make
          MaxCalls   \* how many it makes
VARIABLES dev,       \* the driver's status
          chip,      \* [ctl1, ctl2, time, alarm]: control bits and registers
          job,       \* the call running: its arguments and pc
          out        \* [ret, val, calls, wrote, armed]: the last answer; history

vars == <<dev, chip, job, out>>
Idle == [op |-> "none", pc |-> "idle"]
Unknown == -1

POR_OVRD == 3
AIE == 1
OSF == 128   \* in the seconds register

TimeRegs_WeekdayFirst(second) ==
    LET t == second_to_datetime(second) IN
    <<to_bcd(t.second), to_bcd(t.minute), to_bcd(t.hour), t.weekday, to_bcd(t.day),
      to_bcd(t.month), to_bcd(t.year)>>
TimeRegs(second) ==
    LET t == second_to_datetime(second) IN
    <<to_bcd(t.second), to_bcd(t.minute), to_bcd(t.hour), to_bcd(t.day), t.weekday,
      to_bcd(t.month), to_bcd(t.year)>>
AlarmRegs(second) ==
    LET t == second_to_datetime(second) IN
    <<to_bcd(t.second), to_bcd(t.minute), to_bcd(t.hour), to_bcd(t.day), 128>>
AlarmOff == <<128, 128, 128, 128, 128>>
FromRegs(r) ==
    LET t == [second |-> from_bcd(r[1]), minute |-> from_bcd(r[2]), hour |-> from_bcd(r[3] % 64),
              day |-> from_bcd(r[4]), month |-> from_bcd(r[6]), year |-> from_bcd(r[7])]
    IN  IF is_valid_datatime_ignore_weekday(t) THEN __toSeconds(t) ELSE Unknown

\* External: the chip stores the first n bytes.
Stored(old, dat, n) == [i \in DOMAIN old |-> IF i <= n THEN dat[i] ELSE old[i]]
Sent(len, n) == n \in {0, 2, len - 1, len} /\ n >= 0 /\ n <= len

---------------------------------------------------------------------------

Goto(pc) == job' = [job EXCEPT !.pc = pc]
Finish(o) == job' = Idle /\ out' = [o EXCEPT !.calls = @ + 1]

\* The status comes from a bit of the seconds register.  The write that should clear
\* POR_OVRD passes a null pointer and the register's other bits as its length: with none
\* of them set it sends nothing and succeeds.
pcf212x_init ==
    /\ job.pc = "init"
    /\ \/ dev' = "NOT_INIT" /\ job' = Idle /\ out' = [out EXCEPT !.ret = 0, !.calls = MaxCalls]
       \/ /\ dev' = IF chip.time[1] >= OSF THEN "OK" ELSE "RESET"
          /\ Finish([out EXCEPT !.ret = 1])
    /\ UNCHANGED chip

Begin ==
    /\ job = Idle /\ out.calls < MaxCalls
    /\ \E c \in Calls : job' = c @@ [pc |-> c.op]
    /\ UNCHANGED <<dev, chip, out>>

\* One write of len bytes: what it stores, and where the call goes on when all got across.
Write(pc, len, effect(_), next, o) ==
    /\ job.pc = pc
    /\ \E n \in 0 .. len :
        /\ Sent(len, n)
        /\ chip' = effect(n - 1)
        /\ IF n = len /\ next # "ret"
           THEN Goto(next) /\ out' = [o EXCEPT !.armed = Unknown]
           ELSE Finish(IF n = len THEN [o EXCEPT !.ret = 1]
                       ELSE [out EXCEPT !.ret = 0, !.wrote = IF pc = "write_time" THEN Unknown ELSE @,
                                        !.armed = IF pc = "write_time" THEN @ ELSE Unknown])
    /\ UNCHANGED dev

pcf212x_write_time ==
    Write("write_time", 8, LAMBDA n : [chip EXCEPT !.time = Stored(@, TimeRegs(job.second), n)],
          "ret", [out EXCEPT !.wrote = job.second])

\* Three control registers, then the alarm.
pcf212x_clear_alarm ==
    \/ Write("clear_alarm", 4, LAMBDA n : [chip EXCEPT !.ctl1 = IF n >= 1 THEN {} ELSE @,
                                                       !.ctl2 = IF n >= 2 THEN {} ELSE @],
             "clear_alarm2", out)
    \/ Write("clear_alarm2", 6, LAMBDA n : [chip EXCEPT !.alarm = Stored(@, AlarmOff, n)], "ret", out)

\* The alarm first, then its interrupt.
pcf212x_set_alarm_EnableFirst ==
    \/ Write("set_alarm2", 6, LAMBDA n : [chip EXCEPT !.alarm = Stored(@, AlarmRegs(job.second), n)],
             "ret", [out EXCEPT !.armed = job.second])
    \/ Write("set_alarm", 2, LAMBDA n : [chip EXCEPT !.ctl2 = IF n >= 1 THEN {AIE} ELSE @], "set_alarm2", out)
pcf212x_set_alarm_OneWrite ==
    Write("set_alarm", 6, LAMBDA n : [chip EXCEPT !.alarm = Stored(@, AlarmRegs(job.second), n)],
          "ret", [out EXCEPT !.armed = job.second])
pcf212x_set_alarm ==
    \/ Write("set_alarm", 6, LAMBDA n : [chip EXCEPT !.alarm = Stored(@, AlarmRegs(job.second), n)],
             "set_alarm2", out)
    \/ Write("set_alarm2", 2, LAMBDA n : [chip EXCEPT !.ctl2 = IF n >= 1 THEN {AIE} ELSE @],
             "ret", [out EXCEPT !.armed = job.second])

\* A read fails in either of its transfers; datetime_to_second may refuse what it got.
Read(op, value) ==
    /\ job.pc = op
    /\ \E sent, got \in BOOLEAN :
        LET ok == sent /\ got /\ value # Unknown IN
        Finish([out EXCEPT !.ret = IF ok THEN 1 ELSE 0, !.val = IF ok THEN value ELSE Unknown])
    /\ UNCHANGED <<dev, chip>>
pcf212x_read_time == Read("read_time", FromRegs(chip.time))
pcf212x_dump_regs == Read("dump_regs", chip.time[1])

Next == \/ pcf212x_init \/ Begin \/ pcf212x_write_time \/ pcf212x_clear_alarm \/ pcf212x_set_alarm
        \/ pcf212x_read_time \/ pcf212x_dump_regs
        \/ job = Idle /\ out.calls >= MaxCalls /\ UNCHANGED vars

\* The oscillator stopped or not, the power-on override set or not.
Init ==
    /\ dev = "NOT_INIT"
    /\ \E osf \in {0, OSF}, c1 \in {{}, {POR_OVRD}} :
        chip = [ctl1 |-> c1, ctl2 |-> {}, time |-> <<osf, 0, 0, 1, 6, 1, 0>>, alarm |-> AlarmOff]
    /\ job = [op |-> "init", pc |-> "init"]
    /\ out = [ret |-> 0, val |-> Unknown, calls |-> 0, wrote |-> Unknown, armed |-> Unknown]

---------------------------------------------------------------------------

\* The chip keeps the last time whose write_time answered 1, and read_time gives it back,
\* unless a later write_time broke off; a stopped oscillator is read as no time at all.
ReadBack ==
    /\ out.wrote # Unknown => FromRegs(chip.time) = out.wrote
    /\ chip.time[1] >= OSF => FromRegs(chip.time) = Unknown

\* set_alarm answered 1 and no call that writes the alarm or its control bits has begun to
\* since: the chip holds that alarm and its interrupt is on.
AlarmSet == out.armed # Unknown => chip.alarm = AlarmRegs(out.armed) /\ AIE \in chip.ctl2

\* The interrupt comes on only over the alarm of the call that turns it on, and an interrupt
\* that is on stays over a complete alarm, with one exception: set_alarm does not turn it off
\* first, so when it replaces an alarm and breaks off in its first transfer, the interrupt is
\* left on over half of the new one.
Arms == AIE \in chip'.ctl2 /\ AIE \notin chip.ctl2
HalfArmed(c) == AIE \in c.ctl2 /\ \A k \in Calls : k.op = "set_alarm" => c.alarm # AlarmRegs(k.second)
ReplacementBroke == job.pc = "set_alarm" /\ AIE \in chip.ctl2 /\ job' = Idle /\ out'.ret = 0
ArmedLast ==
    /\ Arms => chip.alarm = AlarmRegs(job.second)
    /\ HalfArmed(chip') => HalfArmed(chip) \/ ReplacementBroke
=============================================================================
