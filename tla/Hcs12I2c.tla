------------------------------ MODULE Hcs12I2c ------------------------------
(***************************************************************************)
(* The interrupt driven I2C master of platform_hw/hcs12/hcs12_i2c.c.       *)
(* Tasks share one struct hcs12_i2c: acquire_i2c takes its flag, the task  *)
(* sets the transfer up, sends START and the address, and then sleeps and  *)
(* polls the indexes that hcs12_i2c_isr advances, giving up after as many  *)
(* ticks as the transfer has bytes.  The controller and the slave are      *)
(* external: a byte on the wire ends with an interrupt, acknowledged or    *)
(* not, or never, when the slave stretches the clock.                      *)
(***************************************************************************)
EXTENDS Integers, FiniteSets

CONSTANTS Tasks,     \* the tasks that call the driver
          Calls,     \* the calls they make: records op, wlen, rlen
          ByteMax,   \* the largest uint8_t
          Tries,     \* how often acquire_i2c tries again (20)
          MaxCalls   \* bound: calls made in one behaviour

ASSUME BoundsAssumption == ByteMax \in Nat /\ Tries \in Nat /\ MaxCalls \in Nat
ASSUME CallsAssumption ==
    Calls \subseteq [op : {"write", "read", "write_then_read"},
                     wlen : 0 .. ByteMax, rlen : 0 .. ByteMax]

NoTask == "none"
ASSUME TasksAssumption == NoTask \notin Tasks

VARIABLES i2c,    \* struct hcs12_i2c
          regs,   \* the controller: enabled, master, busy, TXAK, the byte on the wire
          pc, call, i, res,   \* each task: where it is, its call, its poll counter, its result
          moved,  \* bytes acknowledged by the slave or stored since the task took the flag,
                  \* counted until hcs12_i2c_write gives the flag away
          opened, \* hcs12_i2c_write gave the flag away while somebody is inside
          calls   \* calls made so far

vars == <<i2c, regs, pc, call, i, res, moved, opened, calls>>
task == <<call, moved, calls>>

Byte == 0 .. ByteMax
Inc_Wide(n) == n + 1
Inc(n) == (n + 1) % (ByteMax + 1)   \* ++ of a uint8_t
NoCall == [op |-> "none", wlen |-> 0, rlen |-> 0]
Fresh(en, busy) == [en |-> en, mst |-> FALSE, txak |-> FALSE, wire |-> "none", busy |-> busy]

Init ==
    /\ i2c = [acquired |-> FALSE, txing_addr |-> FALSE, txing |-> FALSE, rxing |-> FALSE,
              tx_index |-> 0, tx_length |-> 0, rx_index |-> 0, rx_length |-> 0,
              tx_data |-> NoTask, rx_data |-> NoTask]
    /\ regs = Fresh(FALSE, FALSE)
    /\ pc = [t \in Tasks |-> "idle"]
    /\ call = [t \in Tasks |-> NoCall]
    /\ i = [t \in Tasks |-> 0]
    /\ res = [t \in Tasks |-> 0]
    /\ moved = [t \in Tasks |-> 0]
    /\ opened = FALSE
    /\ calls = 0

Inside == {t \in Tasks : pc[t] \notin {"idle", "acquire"}}
Goto(t, where) == pc' = [pc EXCEPT ![t] = where]

---------------------------------------------------------------------------
(* The tasks *)

Call(t, c) ==
    /\ pc[t] = "idle" /\ calls < MaxCalls
    /\ Goto(t, "acquire")
    /\ call' = [call EXCEPT ![t] = c]
    /\ i' = [i EXCEPT ![t] = 0]
    /\ calls' = calls + 1
    /\ UNCHANGED <<i2c, regs, res, moved, opened>>

\* One turn of the loop of acquire_i2c, which ends with init_regs.  The way round the loop
\* leaves out OS_EXIT_CRITICAL, so the task tries again with its interrupts masked, and
\* the other tasks run with theirs enabled: the handler comes between any two turns.
acquire_i2c(t) ==
    /\ pc[t] = "acquire"
    /\ \/ /\ ~i2c.acquired
          /\ i2c' = [i2c EXCEPT !.acquired = TRUE]
          /\ Goto(t, "init_regs")
          /\ moved' = [moved EXCEPT ![t] = 0]
          /\ UNCHANGED <<i, res>>
       \/ /\ i2c.acquired /\ i[t] >= Tries
          /\ Goto(t, "idle")
          /\ res' = [res EXCEPT ![t] = 0]
          /\ UNCHANGED <<i2c, i, moved>>
       \/ /\ i2c.acquired /\ i[t] < Tries
          /\ i' = [i EXCEPT ![t] = @ + 1]
          /\ UNCHANGED <<i2c, pc, res, moved>>
    /\ UNCHANGED <<regs, opened, call, calls>>

init_regs(t) ==
    /\ pc[t] = "init_regs"
    /\ regs' = Fresh(TRUE, regs.busy)
    /\ Goto(t, "setup")
    /\ UNCHANGED <<i2c, i, res, opened>> /\ UNCHANGED task

\* What each operation stores in the struct; hcs12_i2c_write clears every flag.
SetUp_FlagDropped(t, c) ==
    [i2c EXCEPT !.tx_length = c.wlen, !.tx_data = t, !.tx_index = 0, !.rx_length = c.rlen,
                !.rx_data = t, !.rx_index = 0, !.acquired = FALSE]
SetUp(t, c) ==
    CASE c.op = "write" ->
            [i2c EXCEPT !.tx_data = t, !.tx_length = c.wlen, !.tx_index = 0, !.rx_length = 0,
                        !.acquired = FALSE, !.txing_addr = FALSE, !.txing = FALSE, !.rxing = FALSE]
      [] c.op = "read" ->
            [i2c EXCEPT !.tx_length = 0, !.rx_data = t, !.rx_length = c.rlen, !.rx_index = 0]
      [] c.op = "write_then_read" ->
            [i2c EXCEPT !.tx_length = c.wlen, !.tx_data = t, !.tx_index = 0,
                        !.rx_length = c.rlen, !.rx_data = t, !.rx_index = 0]

Setup(t) ==
    /\ pc[t] = "setup"
    /\ i2c' = SetUp(t, call[t])
    /\ opened' = (opened \/ call[t].op = "write")
    /\ Goto(t, "bus")
    /\ UNCHANGED <<regs, i, res>> /\ UNCHANGED task

\* hcs12_i2c_start_and_tx_addr waits for a free bus; its counter is never
\* incremented, so it waits for ever.
WaitBus(t) ==
    /\ pc[t] = "bus" /\ ~regs.busy
    /\ i2c' = [i2c EXCEPT !.txing_addr = TRUE]
    /\ Goto(t, "start")
    /\ UNCHANGED <<regs, i, res, opened>> /\ UNCHANGED task

Start(t) ==
    /\ pc[t] = "start"
    /\ regs' = [regs EXCEPT !.mst = regs.en]
    /\ Goto(t, "poll")
    /\ UNCHANGED <<i2c, i, res, opened>> /\ UNCHANGED task

\* Where a call waits first once the address is being sent.
FirstWait(c) ==
    IF c.op = "write" \/ (c.op = "write_then_read" /\ c.wlen > 0) THEN "wait_txing"
    ELSE IF c.op = "read" \/ c.rlen > 0 THEN "wait_rxing" ELSE "release"

\* START went out: the address is written.  Or 1000 polls did not see it.
PollStart(t) ==
    /\ pc[t] = "poll"
    /\ \/ /\ regs.busy
          /\ regs' = [regs EXCEPT !.wire = IF regs.en /\ regs.mst THEN "addr" ELSE @]
          /\ Goto(t, FirstWait(call[t]))
       \/ /\ ~regs.busy
          /\ Goto(t, "release")
          /\ UNCHANGED regs
    /\ i' = [i EXCEPT ![t] = 0]
    /\ res' = [res EXCEPT ![t] = 0]
    /\ UNCHANGED <<i2c, opened>> /\ UNCHANGED task

\* The waits end when the transfer is complete or after length + 1 ticks, counted
\* in a uint8_t.
WaitOver_NoLimit(index, length, n) == index >= length
WaitOver(index, length, n) == index >= length \/ n > length

wait_txing(t) ==
    /\ pc[t] = "wait_txing"
    /\ IF WaitOver(i2c.tx_index, i2c.tx_length, i[t])
       THEN /\ res' = [res EXCEPT ![t] = i2c.tx_index]
            /\ i' = [i EXCEPT ![t] = 0]
            /\ Goto(t, IF call[t].op = "write" \/ i2c.tx_index < call[t].wlen \/ call[t].rlen = 0
                       THEN "release" ELSE "wait_rxing")
       ELSE i' = [i EXCEPT ![t] = Inc(@)] /\ UNCHANGED <<pc, res>>
    /\ UNCHANGED <<i2c, regs, opened>> /\ UNCHANGED task

wait_rxing(t) ==
    /\ pc[t] = "wait_rxing"
    /\ IF WaitOver(i2c.rx_index, i2c.rx_length, i[t])
       THEN /\ res' = [res EXCEPT ![t] = (@ + i2c.rx_index) % (ByteMax + 1)]
            /\ Goto(t, "release")
            /\ UNCHANGED i
       ELSE i' = [i EXCEPT ![t] = Inc(@)] /\ UNCHANGED <<pc, res>>
    /\ UNCHANGED <<i2c, regs, opened>> /\ UNCHANGED task

\* deinit_regs and the flags in one critical section; the call returns.
release_i2c_FlagOnly(t) ==
    /\ pc[t] = "release"
    /\ regs' = [regs EXCEPT !.mst = FALSE]
    /\ i2c' = [i2c EXCEPT !.acquired = FALSE]
    /\ Goto(t, "idle")
    /\ opened' = (opened /\ Inside # {t})
    /\ UNCHANGED <<i, res>> /\ UNCHANGED task
release_i2c(t) ==
    /\ pc[t] = "release"
    /\ regs' = Fresh(FALSE, regs.busy)
    /\ i2c' = [i2c EXCEPT !.acquired = FALSE, !.txing_addr = FALSE, !.txing = FALSE, !.rxing = FALSE]
    /\ Goto(t, "idle")
    /\ opened' = (opened /\ Inside # {t})
    /\ UNCHANGED <<i, res>> /\ UNCHANGED task

---------------------------------------------------------------------------
(* The interrupt handler *)

Stop(r) == [r EXCEPT !.mst = FALSE, !.wire = "none"]
Send(r, byte) == [r EXCEPT !.wire = byte]
\* Reading the data register of a receiving master starts the next byte.
ReadData(r) == [r EXCEPT !.wire = IF r.mst THEN "rx" ELSE "none"]
Moved(t) == moved' = IF t = NoTask \/ opened THEN moved ELSE [moved EXCEPT ![t] = @ + 1]

\* The address went out.
isr_txing_addr(nack) ==
    /\ i2c.txing_addr
    /\ LET s == [i2c EXCEPT !.txing_addr = FALSE] IN
       \/ /\ nack
          /\ i2c' = s /\ regs' = Stop(regs)
       \/ /\ ~nack /\ i2c.tx_length > i2c.tx_index
          /\ i2c' = [s EXCEPT !.txing = TRUE, !.tx_index = 0]
          /\ regs' = Send(regs, "tx")
       \/ /\ ~nack /\ i2c.tx_length <= i2c.tx_index /\ i2c.rx_length > i2c.rx_index
          /\ i2c' = [s EXCEPT !.rxing = TRUE, !.rx_index = 0]
          /\ regs' = ReadData([regs EXCEPT !.txak = (i2c.rx_length = 1)])
       \/ /\ ~nack /\ i2c.tx_length <= i2c.tx_index /\ i2c.rx_length <= i2c.rx_index
          /\ i2c' = s /\ regs' = Send(regs, "none")
    /\ UNCHANGED moved

\* A data byte went out.
TxIndex_BeforeNack(nack) == Inc(i2c.tx_index)
TxIndex(nack) == IF nack THEN i2c.tx_index ELSE Inc(i2c.tx_index)
isr_txing(nack) ==
    /\ ~i2c.txing_addr /\ i2c.txing
    /\ LET s == [i2c EXCEPT !.tx_index = TxIndex(nack)] IN
       \/ /\ nack
          /\ i2c' = [s EXCEPT !.txing = FALSE] /\ regs' = Stop(regs)
       \/ /\ ~nack /\ s.tx_index >= s.tx_length /\ s.rx_length > 0
          /\ i2c' = [s EXCEPT !.txing = FALSE, !.txing_addr = TRUE]
          /\ regs' = Send(regs, "addr")
       \/ /\ ~nack /\ s.tx_index >= s.tx_length /\ s.rx_length = 0
          /\ i2c' = [s EXCEPT !.txing = FALSE] /\ regs' = Stop(regs)
       \/ /\ ~nack /\ s.tx_index < s.tx_length
          /\ i2c' = s /\ regs' = Send(regs, "tx")
    /\ IF nack THEN UNCHANGED moved ELSE Moved(i2c.tx_data)

\* A byte came in: the one before the last asks for a NACK, the last one stops.
NackNext_Late == i2c.rx_length = i2c.rx_index + 1
NackNext == i2c.rx_length = i2c.rx_index + 2
LastByte_Past == i2c.rx_length = i2c.rx_index
LastByte == i2c.rx_length = i2c.rx_index + 1
isr_rxing ==
    /\ ~i2c.txing_addr /\ ~i2c.txing /\ i2c.rxing
    /\ i2c' = [i2c EXCEPT !.rx_index = Inc(@), !.rxing = ~LastByte]
    /\ regs' = ReadData(IF NackNext THEN [regs EXCEPT !.txak = TRUE]
                        ELSE IF LastByte THEN Stop(regs) ELSE regs)
    /\ Moved(i2c.rx_data)

isr_idle ==
    /\ ~i2c.txing_addr /\ ~i2c.txing /\ ~i2c.rxing
    /\ regs' = Send(regs, "none")
    /\ UNCHANGED <<i2c, moved>>

hcs12_i2c_isr ==
    /\ regs.en /\ regs.wire # "none"
    /\ \/ \E nack \in BOOLEAN : isr_txing_addr(nack) \/ isr_txing(nack)
       \/ isr_rxing \/ isr_idle
    /\ UNCHANGED <<pc, call, i, res, opened, calls>>

\* External: the START condition is on the bus; the bus is free again after a STOP.
BusStarts ==
    /\ regs.en /\ regs.mst /\ ~regs.busy
    /\ regs' = [regs EXCEPT !.busy = TRUE]
    /\ UNCHANGED <<i2c, pc, call, i, res, moved, opened, calls>>
BusFrees ==
    /\ ~regs.mst /\ regs.busy
    /\ regs' = [regs EXCEPT !.busy = FALSE]
    /\ UNCHANGED <<i2c, pc, call, i, res, moved, opened, calls>>

TaskStep(t) ==
    acquire_i2c(t) \/ init_regs(t) \/ Setup(t) \/ WaitBus(t) \/ Start(t) \/ PollStart(t)
        \/ wait_txing(t) \/ wait_rxing(t) \/ release_i2c(t)

Done == calls = MaxCalls /\ \A t \in Tasks : pc[t] = "idle"

Next ==
    \/ \E t \in Tasks : TaskStep(t) \/ \E c \in Calls : Call(t, c)
    \/ hcs12_i2c_isr \/ BusStarts \/ BusFrees
    \/ Done /\ UNCHANGED vars

Spec == Init /\ [][Next]_vars

\* Every task is scheduled and a bus that saw a STOP becomes free; no slave has to
\* answer, and nobody has to call.
FairSpec == Spec /\ (\A t \in Tasks : WF_vars(TaskStep(t))) /\ WF_vars(BusFrees)
                 /\ \A t \in Tasks : SF_vars(WaitBus(t))

---------------------------------------------------------------------------
(* Properties *)

\* The struct, the controller and the tasks stay in their types.
TypeOK ==
    /\ i2c \in [acquired : BOOLEAN, txing_addr : BOOLEAN, txing : BOOLEAN, rxing : BOOLEAN,
                tx_index : Byte, tx_length : Byte, rx_index : Byte, rx_length : Byte,
                tx_data : Tasks \cup {NoTask}, rx_data : Tasks \cup {NoTask}]
    /\ regs \in [en : BOOLEAN, mst : BOOLEAN, busy : BOOLEAN, txak : BOOLEAN,
                 wire : {"none", "addr", "tx", "rx"}]
    /\ pc \in [Tasks -> {"idle", "acquire", "init_regs", "setup", "bus", "start", "poll",
                         "wait_txing", "wait_rxing", "release"}]
    /\ call \in [Tasks -> Calls \cup {NoCall}]
    /\ i \in [Tasks -> 0 .. ByteMax + Tries] /\ res \in [Tasks -> Byte]
    /\ moved \in [Tasks -> Nat]
    /\ opened \in BOOLEAN /\ calls \in 0 .. MaxCalls

\* The handler never stores past the caller's buffer and never sends past its end: it
\* stops in time even when the task has long given the transfer up.
InBuffer ==
    \/ opened
    \/ /\ i2c.rxing /\ regs.en => i2c.rx_index < i2c.rx_length
       /\ i2c.txing /\ regs.en => i2c.tx_index < i2c.tx_length

\* acquire_i2c and release_i2c keep the bus for one task at a time, as long as no
\* hcs12_i2c_write, which clears the flag it just took, is among those inside.
Exclusive == opened \/ Cardinality(Inside) <= 1

\* The bytes a call asks for.
Total(c) == (IF c.op = "read" THEN 0 ELSE c.wlen) + (IF c.op = "write" THEN 0 ELSE c.rlen)

\* The count that wait_txing and wait_rxing take, under the lock, is the number of bytes the
\* slave acknowledged or the caller's buffer received so far, a NACK and a timeout
\* included.  Interrupts between that sample and release_i2c may move more bytes, so
\* what the call returns is at most what moved, and that is at most what it asked for.
\* Calls that hcs12_i2c_write let in together are left out.
ResultTrue ==
    [][\A t \in Tasks :
         /\ pc[t] # "release" /\ pc'[t] = "release" /\ ~opened'
                => res'[t] = moved'[t] % (ByteMax + 1)
         /\ pc[t] = "release" /\ pc'[t] = "idle" /\ ~opened
                => res[t] <= moved[t] /\ moved[t] <= Total(call[t])]_vars

\* The last byte of every read is answered with NACK before the STOP (otherwise the
\* slave keeps driving the bus).
LastByteNacked == [][i2c.rxing /\ regs.en /\ ~i2c'.rxing /\ regs'.en /\ ~opened => regs.txak]_vars

\* A transfer the task gave up never reaches its memory later: the handler stores only
\* into the buffers of calls that have not returned.
NoLateStore ==
    [][(\E t \in Tasks : moved'[t] # moved[t] /\ pc[t] = "idle" /\ pc'[t] = "idle") => opened]_vars

\* Every call returns although the slave may hold the clock for ever, unless the length
\* it waits for is 255: the tick counter wraps before it passes that.
CallReturns ==
    \A t \in Tasks :
        (pc[t] # "idle") ~> (pc[t] = "idle" \/ ByteMax \in {i2c.tx_length, i2c.rx_length})

\* One task at a time, in the types of the struct, and never past the caller's buffers.
BusSound == TypeOK /\ Exclusive /\ InBuffer

\* What a transfer touches and what it reports: the caller's buffer while the call
\* lasts, a NACK at the end of a read, and bytes that moved, never more than those.
TransfersTrue == NoLateStore /\ LastByteNacked /\ ResultTrue

---------------------------------------------------------------------------
\* A small instance: every operation, a read of one byte and one of the largest length
\* when ByteMax is 2.
SmallCalls ==
    {[op |-> "write", wlen |-> 1, rlen |-> 0], [op |-> "read", wlen |-> 0, rlen |-> 2],
     [op |-> "read", wlen |-> 0, rlen |-> 1], [op |-> "write_then_read", wlen |-> 1, rlen |-> 1]}
=============================================================================
