------------------------------- MODULE Sd2405 -------------------------------
(***************************************************************************)
(* drivers/sd2405al: the clock chip behind a write protection that every   *)
(* writing call opens (two transfers), writes through (one transfer) and   *)
(* closes (one transfer), from the driver's own copy of the two control    *)
(* registers.  Any transfer may break off after any of its bytes.          *)
(***************************************************************************)
EXTENDS SecondDatetime, TLC

CONSTANTS Calls,     \* the calls the application may make
          MaxCalls   \* how many it makes
VARIABLES dev,       \* [ctr1, ctr2]: the driver's copies, as sets of bits
          chip,      \* [ctr1, ctr2, time, alarm, ram]: the registers
          job,       \* the call running: its arguments and pc
          out        \* [ret, val, calls, wrote, closed]: the last answer; history

vars == <<dev, chip, job, out>>
Idle == [op |-> "none", pc |-> "idle"]
Unknown == -1

\* The bits of write_enable, the flags of clear_interrupt, the 24 hour bit.
WRTC1 == {7}
WRTC23 == {7, 2}
FLAGS == {0, 1}
BIT24 == 3

\* The bytes write_time and set_alarm send.
TimeRegs(second) ==
    LET t == second_to_datetime(second) IN
    <<to_bcd(t.second), to_bcd(t.minute), to_bcd(t.hour) + 128, t.weekday,
      to_bcd(t.day), to_bcd(t.month), to_bcd(t.year)>>
AlarmRegs(second) ==
    LET t == second_to_datetime(second) IN
    <<0, to_bcd(t.minute), to_bcd(t.hour), 0, to_bcd(t.day), to_bcd(t.month), to_bcd(t.year), 118>>

\* What read_time makes of seven bytes, or Unknown.
FromRegs(r) ==
    LET t == [second |-> from_bcd(r[1]), minute |-> from_bcd(r[2]), hour |-> from_bcd(r[3] % 64),
              day |-> from_bcd(r[5]), month |-> from_bcd(r[6]), year |-> from_bcd(r[7])]
    IN  IF is_valid_datatime_ignore_weekday(t) THEN __toSeconds(t) ELSE Unknown

\* External: the chip takes the bytes that arrive, other than its control registers only
\* while all three protection bits are set.
Open == WRTC1 \subseteq chip.ctr2 /\ WRTC23 \subseteq chip.ctr1
Stored(old, at, dat, n) == [i \in DOMAIN old |-> IF Open /\ i - at \in 1 .. n THEN dat[i - at] ELSE old[i]]

\* i2c_transmit of len bytes gets n of them across: all, none, or it breaks off.
Sent(len, n) == n \in {0, 2, len - 1, len} /\ n >= 0 /\ n <= len

---------------------------------------------------------------------------

Goto(pc) == job' = [job EXCEPT !.pc = pc]
\* An application whose init failed makes no calls.
Return(ret) ==
    /\ job' = Idle
    /\ out' = [out EXCEPT !.ret = ret, !.calls = IF job.op = "init" /\ ret = 0 THEN MaxCalls ELSE @ + 1]

\* write_enable(1): first CTR2 ...
write_enable_ctr2 ==
    /\ job.pc = "enable2"
    /\ \E n \in 0 .. 2 :
        IF n = 2
        THEN /\ dev' = [dev EXCEPT !.ctr2 = @ \cup WRTC1]
             /\ chip' = [chip EXCEPT !.ctr2 = dev.ctr2 \cup WRTC1]
             /\ Goto("enable1") /\ UNCHANGED out
        ELSE Return(0) /\ UNCHANGED <<dev, chip>>

\* ... then CTR1.
write_enable_ctr1_Skipped ==
    /\ job.pc = "enable1"
    /\ dev' = [dev EXCEPT !.ctr1 = @ \cup WRTC23]
    /\ \E n \in 0 .. 2 : chip' = IF n = 2 THEN [chip EXCEPT !.ctr1 = dev.ctr1 \cup WRTC23] ELSE chip
    /\ Goto(IF job.op = "init" THEN "disable" ELSE "body") /\ UNCHANGED out
write_enable_ctr1 ==
    /\ job.pc = "enable1"
    /\ \E n \in 0 .. 2 :
        IF n = 2
        THEN /\ dev' = [dev EXCEPT !.ctr1 = @ \cup WRTC23]
             /\ chip' = [chip EXCEPT !.ctr1 = dev.ctr1 \cup WRTC23]
             /\ Goto(IF job.op = "init" THEN "disable" ELSE "body") /\ UNCHANGED out
        ELSE Return(0) /\ UNCHANGED <<dev, chip>>

\* write_enable(0): both registers in one transfer; its result is ignored by every caller.
write_enable_0_Forgets ==
    /\ job.pc = "disable"
    /\ \E n \in 0 .. 3 :
        /\ chip' = [chip EXCEPT !.ctr1 = IF n >= 2 THEN dev.ctr1 \ WRTC23 ELSE @,
                                !.ctr2 = IF n >= 3 THEN dev.ctr2 \ WRTC1 ELSE @]
        /\ dev' = IF n = 3 THEN [ctr1 |-> dev.ctr1 \ WRTC23, ctr2 |-> dev.ctr2] ELSE dev
        /\ out' = [out EXCEPT !.ret = job.ret, !.calls = @ + 1, !.closed = n = 3]
    /\ job' = Idle
write_enable_0 ==
    /\ job.pc = "disable"
    /\ \E n \in 0 .. 3 :
        /\ chip' = [chip EXCEPT !.ctr1 = IF n >= 2 THEN dev.ctr1 \ WRTC23 ELSE @,
                                !.ctr2 = IF n >= 3 THEN dev.ctr2 \ WRTC1 ELSE @]
        /\ dev' = IF n = 3 THEN [ctr1 |-> dev.ctr1 \ WRTC23, ctr2 |-> dev.ctr2 \ WRTC1] ELSE dev
        /\ out' = [out EXCEPT !.ret = job.ret, !.calls = @ + 1, !.closed = n = 3]
    /\ job' = Idle

Writers == {"write_time", "store_data", "config_interrupt", "clear_interrupt", "set_alarm"}

\* A call begins.  store_data and restore_data refuse what does not fit the RAM.
Begin ==
    /\ job = Idle /\ out.calls < MaxCalls
    /\ \E c \in Calls :
        IF c.op \in {"store_data", "restore_data"} /\ c.offset + Len(c.dat) > Len(chip.ram)
        THEN out' = [out EXCEPT !.ret = 0, !.calls = @ + 1] /\ UNCHANGED job
        ELSE /\ job' = c @@ [pc |-> IF c.op \in Writers THEN "enable2" ELSE c.op, ret |-> 1]
             /\ out' = [out EXCEPT !.closed = IF c.op \in Writers THEN FALSE ELSE @]
    /\ UNCHANGED <<dev, chip>>

\* The transfer of len bytes in the middle of a writing call, and the copies it updates.
Body(op, len, effect(_), dev1, wrote) ==
    /\ job.pc = "body" /\ job.op = op
    /\ \E n \in 0 .. len :
        /\ Sent(len, n)
        /\ chip' = effect(n - 1)
        /\ dev' = IF n = len THEN dev1 ELSE dev
        /\ job' = [job EXCEPT !.pc = "disable", !.ret = IF n = len THEN 1 ELSE 0]
        /\ out' = [out EXCEPT !.wrote = IF n = len THEN wrote ELSE IF op = "write_time" THEN Unknown ELSE @]

sd2405_write_time ==
    Body("write_time", 8, LAMBDA n : [chip EXCEPT !.time = Stored(@, 0, TimeRegs(job.second), n)],
         dev, job.second)
sd2405_set_alarm ==
    Body("set_alarm", 9, LAMBDA n : [chip EXCEPT !.alarm = Stored(@, 0, AlarmRegs(job.second), n)],
         dev, out.wrote)
sd2405_store_data ==
    Body("store_data", 1 + Len(job.dat), LAMBDA n : [chip EXCEPT !.ram = Stored(@, job.offset, job.dat, n)],
         dev, out.wrote)

\* The switch of config_interrupt: a type it does not know ends the call with 0.
IntBits(type, old) ==
    CASE type = "disable" -> old \ {4, 5}
      [] type = "alarm" -> old \cup {4, 1}
      [] type = "frequency" -> old \cup {5, 0}
      [] type = "countdown" -> old \cup {4, 5, 2}
NewCtr2 == IntBits(job.type, dev.ctr2 \cup {BIT24} \cup (IF job.pause THEN {6} ELSE {}))
sd2405_config_interrupt ==
    \/ /\ job.pc = "body" /\ job.op = "config_interrupt" /\ job.type # "other"
       /\ Body("config_interrupt", 2, LAMBDA n : [chip EXCEPT !.ctr2 = IF n = 1 THEN NewCtr2 ELSE @],
               [dev EXCEPT !.ctr2 = NewCtr2], out.wrote)
    \/ /\ job.pc = "body" /\ job.op = "config_interrupt" /\ job.type = "other"
       /\ job' = [job EXCEPT !.pc = "disable", !.ret = 0]
       /\ UNCHANGED <<dev, chip, out>>

\* The copy keeps its flags: write_enable(0) writes them back.
sd2405_clear_interrupt ==
    Body("clear_interrupt", 2, LAMBDA n : [chip EXCEPT !.ctr1 = IF n = 1 THEN dev.ctr1 \ FLAGS ELSE @],
         dev, out.wrote)

\* The reading calls: one transfer each.
Read(op, value) ==
    /\ job.pc = op
    /\ \E ok \in BOOLEAN :
        /\ job' = Idle
        /\ out' = [out EXCEPT !.ret = IF ok /\ value # Unknown THEN 1 ELSE 0, !.calls = @ + 1,
                              !.val = IF ok THEN value ELSE Unknown]
    /\ UNCHANGED <<dev, chip>>
sd2405_read_time == Read("read_time", FromRegs(chip.time))
sd2405_restore_data == Read("restore_data", SubSeq(chip.ram, job.offset + 1, job.offset + Len(job.dat))[1])
sd2405_dump_regs == Read("dump_regs", chip.time[1])

\* init reads both registers and sets the 24 hour bit if it is missing.
sd2405_init ==
    /\ job.pc = "init"
    /\ \/ Return(0) /\ UNCHANGED dev
       \/ IF BIT24 \in chip.ctr2
          THEN dev' = [ctr1 |-> chip.ctr1, ctr2 |-> chip.ctr2] /\ Return(1)
          ELSE dev' = [ctr1 |-> chip.ctr1, ctr2 |-> chip.ctr2 \cup {BIT24}] /\ Goto("enable2") /\ UNCHANGED out
    /\ UNCHANGED chip

Next == \/ Begin \/ sd2405_init \/ write_enable_ctr2 \/ write_enable_ctr1 \/ write_enable_0
        \/ sd2405_write_time \/ sd2405_set_alarm \/ sd2405_store_data
        \/ sd2405_config_interrupt \/ sd2405_clear_interrupt
        \/ sd2405_read_time \/ sd2405_restore_data \/ sd2405_dump_regs
        \/ job = Idle /\ out.calls >= MaxCalls /\ UNCHANGED vars

\* The chip as it powers up or was left; sd2405_init is under way.
Init ==
    /\ \E c2 \in {{}, {BIT24}} : chip = [ctr1 |-> {}, ctr2 |-> c2, time |-> [i \in 1 .. 7 |-> 0],
                                         alarm |-> [i \in 1 .. 8 |-> 0], ram |-> [i \in 1 .. 12 |-> 0]]
    /\ dev = [ctr1 |-> {}, ctr2 |-> {}]
    /\ job = [op |-> "init", pc |-> "init", ret |-> 1]
    /\ out = [ret |-> 0, val |-> Unknown, calls |-> 0, wrote |-> Unknown, closed |-> FALSE]

---------------------------------------------------------------------------

\* write_enable(0) got through, whatever broke off in the calls before it: the chip is
\* protected again and both copies of the driver are what the chip holds.
Reprotected ==
    job = Idle /\ out.closed => /\ ~Open /\ 7 \notin chip.ctr2
                                /\ dev = [ctr1 |-> chip.ctr1, ctr2 |-> chip.ctr2]

\* The chip keeps the last time whose write_time answered 1, and read_time gives it back,
\* unless a later write_time broke off.
ReadBack == out.wrote # Unknown => FromRegs(chip.time) = out.wrote
=============================================================================
