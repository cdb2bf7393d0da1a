--------------------------- MODULE Hcs12I2c_proofs --------------------------
(***************************************************************************)
(* The interrupt driven I2C master for any number of tasks, any calls and  *)
(* any width of its counters: until hcs12_i2c_write gives the flag away,   *)
(* one task at a time has the bus, and the handler, which runs between any *)
(* two steps of a task and after it gave up, stays inside the buffers.     *)
(***************************************************************************)
EXTENDS Hcs12I2c, FiniteSetTheorems, TLAPS

\* The task inside holds the flag and is alone.
Held == \A t \in Inside : i2c.acquired /\ Inside = {t}

\* The handler has work only while a transfer is under way: a released bus is left without
\* any of its flags, so the lengths are set up under nobody's hands.
Quiet ==
    \/ \E t \in Inside : pc[t] \notin {"init_regs", "setup", "bus"}
    \/ ~i2c.txing_addr /\ ~i2c.txing /\ ~i2c.rxing

\* Where the handler is in the buffers.
Pending ==
    /\ i2c.rxing => i2c.rx_index < i2c.rx_length
    /\ i2c.txing => i2c.tx_index < i2c.tx_length

\* A task that is in a call knows which.
Called == \A t \in Tasks : pc[t] # "idle" => call[t] \in Calls

IInv == TypeOK /\ Called /\ (opened \/ (Held /\ Quiet /\ Pending))

\* The types of the struct and of the controller.
Struct == [acquired : BOOLEAN, txing_addr : BOOLEAN, txing : BOOLEAN, rxing : BOOLEAN,
           tx_index : Byte, tx_length : Byte, rx_index : Byte, rx_length : Byte,
           tx_data : Tasks \cup {NoTask}, rx_data : Tasks \cup {NoTask}]
Regs == [en : BOOLEAN, mst : BOOLEAN, busy : BOOLEAN, txak : BOOLEAN, wire : {"none", "addr", "tx", "rx"}]

\* The arithmetic of a uint8_t.
LEMMA IncFacts ==
    ASSUME NEW n \in Nat
    PROVE  /\ Inc(n) \in Byte
           /\ n < ByteMax => Inc(n) = n + 1
BY BoundsAssumption DEF Inc, Byte

\* What SetUp stores is well typed, and leaves flags set only by an earlier transfer.
LEMMA SetUpFacts ==
    ASSUME TypeOK, NEW t \in Tasks, NEW c \in Calls
    PROVE  /\ SetUp(t, c) \in Struct
           /\ c.op # "write" => /\ SetUp(t, c).acquired = i2c.acquired
                                /\ SetUp(t, c).txing_addr = i2c.txing_addr
                                /\ SetUp(t, c).txing = i2c.txing /\ SetUp(t, c).rxing = i2c.rxing
<1>1. c.op \in {"write", "read", "write_then_read"} /\ c.wlen \in Byte /\ c.rlen \in Byte /\ 0 \in Byte
  BY CallsAssumption, BoundsAssumption DEF Byte
<1>2. CASE c.op = "write"
  BY <1>1, <1>2 DEF SetUp, TypeOK, Struct
<1>3. CASE c.op = "read"
  BY <1>1, <1>3 DEF SetUp, TypeOK, Struct
<1>4. CASE c.op = "write_then_read"
  BY <1>1, <1>4 DEF SetUp, TypeOK, Struct
<1> QED BY <1>1, <1>2, <1>3, <1>4

\* The initial state: nobody inside, every flag clear.
LEMMA InitIInv == Init => IInv
<1> SUFFICES ASSUME Init PROVE IInv
  OBVIOUS
<1>1. TypeOK
  <2>1. 0 \in Byte /\ 0 \in 0 .. ByteMax + Tries /\ 0 \in 0 .. MaxCalls
    BY BoundsAssumption DEF Byte
  <2>2. i2c \in Struct
    BY <2>1 DEF Init, Struct
  <2>3. regs \in Regs
    BY DEF Init, Regs, Fresh
  <2> QED BY <2>1, <2>2, <2>3 DEF Init, TypeOK, Struct, Regs
<1>2. Called
  BY DEF Init, Called
<1>3. Held /\ Quiet /\ Pending
  BY DEF Init, Held, Quiet, Pending, Inside
<1> QED BY <1>1, <1>2, <1>3 DEF IInv

\* Every step keeps the types.
LEMMA TypeStep == TypeOK /\ Called /\ [Next]_vars => TypeOK' /\ Called'
<1> SUFFICES ASSUME TypeOK, Called, [Next]_vars PROVE TypeOK' /\ Called'
  OBVIOUS
<1> USE BoundsAssumption
<1>1. ASSUME NEW t \in Tasks, NEW c \in Calls, Call(t, c) PROVE TypeOK' /\ Called'
  <2>1. 0 \in Byte /\ 0 \in 0 .. ByteMax + Tries /\ calls + 1 \in 0 .. MaxCalls
    BY <1>1 DEF Call, TypeOK, Byte
  <2>2. i2c' \in Struct /\ regs' \in Regs
    BY <1>1 DEF Call, TypeOK, Struct, Regs
  <2>3. pc' \in [Tasks -> {"idle", "acquire", "init_regs", "setup", "bus", "start", "poll",
                           "wait_txing", "wait_rxing", "release"}]
    BY <1>1 DEF Call, Goto, TypeOK
  <2>4. Called'
    BY <1>1 DEF Call, Goto, TypeOK, Called
  <2>5. call' \in [Tasks -> Calls \cup {NoCall}] /\ i' \in [Tasks -> 0 .. ByteMax + Tries]
    BY <1>1, <2>1 DEF Call, TypeOK
  <2>6. moved' \in [Tasks -> Nat] /\ calls' \in 0 .. MaxCalls
    BY <1>1, <2>1 DEF Call, TypeOK
  <2>7. res' \in [Tasks -> Byte] /\ opened' \in BOOLEAN
    BY <1>1 DEF Call, TypeOK
  <2> QED BY <2>2, <2>3, <2>4, <2>5, <2>6, <2>7 DEF TypeOK, Struct, Regs
<1>2. ASSUME NEW t \in Tasks, acquire_i2c(t) PROVE TypeOK' /\ Called'
  <2>1. i2c' \in Struct /\ regs' \in Regs
    BY <1>2, ZenonT(60) DEF acquire_i2c, TypeOK, Struct, Regs
  <2>2. i' \in [Tasks -> 0 .. ByteMax + Tries]
    BY <1>2 DEF acquire_i2c, TypeOK
  <2>3. res' \in [Tasks -> Byte] /\ moved' \in [Tasks -> Nat]
    BY <1>2 DEF acquire_i2c, TypeOK, Byte
  <2> QED BY <1>2, <2>1, <2>2, <2>3 DEF acquire_i2c, Goto, TypeOK, Called, Struct, Regs
<1>3. ASSUME NEW t \in Tasks, init_regs(t) PROVE TypeOK' /\ Called'
  BY <1>3 DEF init_regs, Fresh, Goto, task, TypeOK, Called
<1>4. ASSUME NEW t \in Tasks, Setup(t) PROVE TypeOK' /\ Called'
  <2>1. call[t] \in Calls
    BY <1>4 DEF Setup, Called
  <2> QED BY <1>4, <2>1, SetUpFacts DEF Setup, Goto, task, TypeOK, Struct, Called
<1>5. ASSUME NEW t \in Tasks, WaitBus(t) PROVE TypeOK' /\ Called'
  BY <1>5, ZenonT(60) DEF WaitBus, Goto, task, TypeOK, Called
<1>6. ASSUME NEW t \in Tasks, Start(t) PROVE TypeOK' /\ Called'
  BY <1>6 DEF Start, Goto, task, TypeOK, Called
<1>7. ASSUME NEW t \in Tasks, PollStart(t) PROVE TypeOK' /\ Called'
  <2>1. FirstWait(call[t]) \in {"wait_txing", "wait_rxing", "release"}
    BY DEF FirstWait
  <2> QED BY <1>7, <2>1 DEF PollStart, Goto, task, TypeOK, Called, Byte
<1>8. ASSUME NEW t \in Tasks, wait_txing(t) PROVE TypeOK' /\ Called'
  <2>1. Inc(i[t]) \in Byte
    BY IncFacts DEF TypeOK
  <2> QED BY <1>8, <2>1 DEF wait_txing, Goto, task, TypeOK, Called, Byte
<1>9. ASSUME NEW t \in Tasks, wait_rxing(t) PROVE TypeOK' /\ Called'
  <2>1. Inc(i[t]) \in Byte
    BY IncFacts DEF TypeOK
  <2>2. (res[t] + i2c.rx_index) % (ByteMax + 1) \in Byte
    BY DEF TypeOK, Byte
  <2> QED BY <1>9, <2>1, <2>2 DEF wait_rxing, Goto, task, TypeOK, Called, Byte
<1>10. ASSUME NEW t \in Tasks, release_i2c(t) PROVE TypeOK' /\ Called'
  <2>1. opened' \in BOOLEAN
    BY <1>10 DEF release_i2c
  <2>2. i2c' \in Struct
    BY <1>10 DEF release_i2c, TypeOK, Struct
  <2>3. regs' \in Regs
    BY <1>10 DEF release_i2c, Fresh, TypeOK, Regs
  <2> QED BY <1>10, <2>1, <2>2, <2>3 DEF release_i2c, Goto, task, TypeOK, Called, Struct, Regs
<1>11. ASSUME hcs12_i2c_isr PROVE TypeOK' /\ Called'
  <2>1. \A u \in Tasks \cup {NoTask} : Moved(u) => moved' \in [Tasks -> Nat]
    BY DEF Moved, TypeOK
  <2>2. ASSUME NEW nack \in BOOLEAN, isr_txing_addr(nack) PROVE TypeOK' /\ Called'
    <3>1. 0 \in Byte
      BY DEF Byte
    <3>2. i2c' \in Struct
      BY <2>2, <3>1, ZenonT(60) DEF isr_txing_addr, TypeOK, Struct
    <3>3. (i2c.rx_length = 1) \in BOOLEAN
      OBVIOUS
    <3>4. regs' \in Regs
      BY <2>2, <3>3, ZenonT(60) DEF isr_txing_addr, Stop, Send, ReadData, TypeOK, Regs
    <3> QED BY <1>11, <2>2, <3>2, <3>4 DEF hcs12_i2c_isr, isr_txing_addr, TypeOK, Called, Struct, Regs
  <2>3. ASSUME NEW nack \in BOOLEAN, isr_txing(nack) PROVE TypeOK' /\ Called'
    <3>1. TxIndex(nack) \in Byte
      BY IncFacts DEF TxIndex, TypeOK, Byte
    <3>2. moved' \in [Tasks -> Nat]
      BY <2>1, <2>3 DEF isr_txing, TypeOK
    <3> QED BY <1>11, <2>3, <3>1, <3>2, ZenonT(60) DEF hcs12_i2c_isr, isr_txing, Stop, Send, TypeOK, Called
  <2>4. ASSUME isr_rxing PROVE TypeOK' /\ Called'
    <3>1. Inc(i2c.rx_index) \in Byte
      BY IncFacts DEF TypeOK, Byte
    <3>2. moved' \in [Tasks -> Nat]
      BY <2>1, <2>4 DEF isr_rxing, TypeOK
    <3>3. LastByte \in BOOLEAN
      BY DEF LastByte
    <3> QED BY <1>11, <2>4, <3>1, <3>2, <3>3 DEF hcs12_i2c_isr, isr_rxing, ReadData, Stop, TypeOK, Called
  <2>5. ASSUME isr_idle PROVE TypeOK' /\ Called'
    BY <1>11, <2>5 DEF hcs12_i2c_isr, isr_idle, Send, TypeOK, Called
  <2> QED BY <1>11, <2>2, <2>3, <2>4, <2>5 DEF hcs12_i2c_isr
<1>12. ASSUME BusStarts \/ BusFrees PROVE TypeOK' /\ Called'
  BY <1>12, ZenonT(60) DEF BusStarts, BusFrees, TypeOK, Called
<1>13. ASSUME UNCHANGED vars PROVE TypeOK' /\ Called'
  BY <1>13 DEF vars, TypeOK, Called
<1> QED BY <1>1, <1>2, <1>3, <1>4, <1>5, <1>6, <1>7, <1>8, <1>9, <1>10, <1>11, <1>12, <1>13 DEF Next, TaskStep

\* Every step keeps the lock, the flags and the handler's place, until the flag is given away.
LEMMA LockStep ==
    TypeOK /\ Called /\ (opened \/ (Held /\ Quiet /\ Pending)) /\ [Next]_vars
        => opened' \/ (Held /\ Quiet /\ Pending)'
<1> SUFFICES ASSUME TypeOK, Called, opened \/ (Held /\ Quiet /\ Pending), [Next]_vars, ~opened'
             PROVE  Held' /\ Quiet' /\ Pending'
  OBVIOUS
<1> DEFINE Active(p) == \E t \in Tasks : p[t] \notin {"idle", "acquire", "init_regs", "setup", "bus"}
           Flags(s) == s.txing_addr \/ s.txing \/ s.rxing
<1>0. /\ Quiet <=> Active(pc) \/ ~Flags(i2c)
      /\ Quiet' <=> Active(pc') \/ ~Flags(i2c')
  BY DEF Quiet, Inside
<1> SUFFICES Held' /\ (Active(pc') \/ ~Flags(i2c')) /\ Pending'
  BY <1>0
<1>1. ASSUME NEW t \in Tasks, release_i2c(t) PROVE Held' /\ (Active(pc') \/ ~Flags(i2c')) /\ Pending'
  <2>1. Inside = {t}
    <3>1. t \in Inside
      BY <1>1 DEF release_i2c, Inside
    <3>2. CASE opened
      BY <1>1, <3>2 DEF release_i2c
    <3>3. CASE ~opened
      BY <3>1, <3>3 DEF Held
    <3> QED BY <3>2, <3>3
  <2>2. Inside' = {}
    BY <1>1, <2>1 DEF release_i2c, Goto, Inside, TypeOK
  <2>3. ~Flags(i2c')
    BY <1>1 DEF release_i2c, TypeOK
  <2> QED BY <2>2, <2>3 DEF Held, Pending
<1>2. ASSUME ~opened PROVE Held /\ Quiet /\ Pending
  BY <1>2
<1>3. ASSUME NEW t \in Tasks, NEW c \in Calls, Call(t, c) PROVE Held' /\ (Active(pc') \/ ~Flags(i2c')) /\ Pending'
  <2>1. ~opened /\ i2c' = i2c
    BY <1>3 DEF Call
  <2>2. Inside' = Inside
    BY <1>3 DEF Call, Goto, Inside, TypeOK
  <2>3. Active(pc) => Active(pc')
    BY <1>3 DEF Call, Goto, TypeOK
  <2> QED BY <1>0, <1>2, <2>1, <2>2, <2>3 DEF Held, Pending
<1>4. ASSUME NEW t \in Tasks, acquire_i2c(t) PROVE Held' /\ (Active(pc') \/ ~Flags(i2c')) /\ Pending'
  <2>1. ~opened
    BY <1>4 DEF acquire_i2c
  <2>2. Active(pc) => Active(pc')
    BY <1>4 DEF acquire_i2c, Goto, TypeOK
  <2>3. Pending' /\ (Flags(i2c') <=> Flags(i2c))
    BY <1>2, <1>4, <2>1 DEF acquire_i2c, Pending, TypeOK
  <2>4. CASE i2c.acquired
    <3>1. Inside' = Inside /\ i2c' = i2c
      BY <1>4, <2>4 DEF acquire_i2c, Goto, Inside, TypeOK
    <3> QED BY <1>0, <1>2, <2>1, <2>2, <2>3, <3>1 DEF Held
  <2>5. CASE ~i2c.acquired
    <3>1. Inside = {}
      BY <1>2, <2>1, <2>5 DEF Held
    <3>2. Inside' = {t} /\ i2c'.acquired
      BY <1>4, <2>5, <3>1 DEF acquire_i2c, Goto, Inside, TypeOK
    <3> QED BY <1>0, <1>2, <2>1, <2>2, <2>3, <3>2 DEF Held
  <2> QED BY <2>4, <2>5
<1>5. ASSUME NEW t \in Tasks, t \in Inside, t \in Inside', ~opened, i2c'.acquired = i2c.acquired,
             \A u \in Tasks : u # t => pc'[u] = pc[u]
      PROVE  Held'
  <2>1. Inside' = Inside
    BY <1>5 DEF Inside
  <2> QED BY <1>2, <1>5, <2>1 DEF Held
<1>6. ASSUME NEW t \in Tasks, init_regs(t) PROVE Held' /\ (Active(pc') \/ ~Flags(i2c')) /\ Pending'
  <2>1. ~opened /\ i2c' = i2c /\ t \in Inside /\ t \in Inside' /\ \A u \in Tasks : u # t => pc'[u] = pc[u]
    BY <1>6 DEF init_regs, Goto, Inside, TypeOK
  <2>2. Active(pc) => Active(pc')
    BY <1>6 DEF init_regs, Goto, TypeOK
  <2> QED BY <1>0, <1>2, <1>5, <2>1, <2>2 DEF Pending
<1>7. ASSUME NEW t \in Tasks, Setup(t) PROVE Held' /\ (Active(pc') \/ ~Flags(i2c')) /\ Pending'
  <2>1. ~opened /\ call[t] \in Calls /\ call[t].op # "write"
    BY <1>7 DEF Setup, Called
  <2>2. t \in Inside /\ t \in Inside' /\ \A u \in Tasks : u # t => pc'[u] = pc[u]
    BY <1>7 DEF Setup, Goto, Inside, TypeOK
  <2>3. i2c'.acquired = i2c.acquired /\ (Flags(i2c') <=> Flags(i2c))
    BY <1>7, <2>1, SetUpFacts DEF Setup
  <2>4. Held'
    BY <1>5, <2>1, <2>2, <2>3
  <2>5. ~Active(pc)
    <3>1. \A u \in Tasks : u # t => u \notin Inside
      BY <1>2, <2>1, <2>2 DEF Held
    <3> QED BY <1>7, <3>1 DEF Inside, Setup
  <2>6. ~Flags(i2c')
    BY <1>0, <1>2, <2>1, <2>3, <2>5
  <2> QED BY <2>4, <2>6 DEF Pending
<1>8. ASSUME NEW t \in Tasks, WaitBus(t) PROVE Held' /\ (Active(pc') \/ ~Flags(i2c')) /\ Pending'
  <2>1. ~opened /\ t \in Inside /\ t \in Inside' /\ \A u \in Tasks : u # t => pc'[u] = pc[u]
    BY <1>8 DEF WaitBus, Goto, Inside, TypeOK
  <2>2. i2c'.acquired = i2c.acquired /\ Pending'
    BY <1>2, <1>8, <2>1 DEF WaitBus, Pending, TypeOK
  <2>3. Active(pc')
    BY <1>8 DEF WaitBus, Goto, TypeOK
  <2> QED BY <1>5, <2>1, <2>2, <2>3
<1>9. ASSUME NEW t \in Tasks, Start(t) \/ PollStart(t) \/ wait_txing(t) \/ wait_rxing(t)
      PROVE  Held' /\ (Active(pc') \/ ~Flags(i2c')) /\ Pending'
  <2>1. ~opened /\ i2c' = i2c
    BY <1>9 DEF Start, PollStart, wait_txing, wait_rxing
  <2>2. FirstWait(call[t]) \in {"wait_txing", "wait_rxing", "release"}
    BY DEF FirstWait
  <2>3. /\ pc[t] \in {"start", "poll", "wait_txing", "wait_rxing"}
        /\ pc'[t] \in {"poll", "wait_txing", "wait_rxing", "release"}
        /\ \A u \in Tasks : u # t => pc'[u] = pc[u]
    BY <1>9, <2>2 DEF Start, PollStart, wait_txing, wait_rxing, Goto, TypeOK
  <2>4. t \in Inside /\ t \in Inside' /\ Active(pc')
    BY <2>3 DEF Inside
  <2> QED BY <1>2, <1>5, <2>1, <2>3, <2>4 DEF Pending
<1>10. ASSUME hcs12_i2c_isr PROVE Held' /\ (Active(pc') \/ ~Flags(i2c')) /\ Pending'
  <2>1. ~opened /\ pc' = pc
    BY <1>10 DEF hcs12_i2c_isr
  <2>2. Inside' = Inside
    BY <2>1 DEF Inside
  <2>3. ASSUME NEW nack \in BOOLEAN, isr_txing_addr(nack)
        PROVE  i2c'.acquired = i2c.acquired /\ Flags(i2c) /\ Pending'
    <3>1. Pending
      BY <1>2, <2>1
    <3>2. i2c'.acquired = i2c.acquired /\ i2c'.rx_length = i2c.rx_length /\ i2c'.tx_length = i2c.tx_length
      BY <2>3 DEF isr_txing_addr, TypeOK
    <3>3. \/ (i2c'.rxing => i2c.rxing) /\ i2c'.rx_index = i2c.rx_index
          \/ i2c'.rx_index = 0 /\ i2c.rx_length > i2c.rx_index
      BY <2>3 DEF isr_txing_addr, TypeOK
    <3>4. \/ (i2c'.txing => i2c.txing) /\ i2c'.tx_index = i2c.tx_index
          \/ i2c'.tx_index = 0 /\ i2c.tx_length > i2c.tx_index
      BY <2>3 DEF isr_txing_addr, TypeOK
    <3>5. i2c.rx_index \in Nat /\ i2c.tx_index \in Nat /\ i2c.rx_length \in Nat /\ i2c.tx_length \in Nat
      BY BoundsAssumption DEF TypeOK, Byte
    <3>6. i2c'.rxing => i2c'.rx_index < i2c'.rx_length
      BY <3>1, <3>2, <3>3, <3>5 DEF Pending
    <3>7. i2c'.txing => i2c'.tx_index < i2c'.tx_length
      BY <3>1, <3>2, <3>4, <3>5 DEF Pending
    <3> QED BY <2>3, <3>2, <3>6, <3>7 DEF isr_txing_addr, Pending
  <2>4. ASSUME NEW nack \in BOOLEAN, isr_txing(nack)
        PROVE  i2c'.acquired = i2c.acquired /\ Flags(i2c) /\ Pending'
    <3>1. Pending
      BY <1>2, <2>1
    <3>2. i2c'.acquired = i2c.acquired /\ i2c'.rxing = i2c.rxing /\ i2c'.rx_index = i2c.rx_index
             /\ i2c'.rx_length = i2c.rx_length /\ i2c'.tx_length = i2c.tx_length
      BY <2>4 DEF isr_txing, TypeOK
    <3>3. i2c'.txing => i2c'.tx_index < i2c'.tx_length
      BY <2>4 DEF isr_txing, TypeOK
    <3> QED BY <2>4, <3>1, <3>2, <3>3 DEF isr_txing, Pending
  <2>5. ASSUME isr_rxing PROVE i2c'.acquired = i2c.acquired /\ Flags(i2c) /\ Pending'
    <3>1. i2c.rx_index < i2c.rx_length /\ i2c.rx_length \in Nat /\ i2c.rx_index \in Nat /\ i2c.rx_length <= ByteMax
      BY <1>2, <2>1, <2>5, BoundsAssumption DEF isr_rxing, Pending, TypeOK, Byte
    <3>2. Inc(i2c.rx_index) = i2c.rx_index + 1
      BY <3>1, IncFacts, BoundsAssumption
    <3>3. i2c'.rxing => ~LastByte
      BY <2>5 DEF isr_rxing, TypeOK
    <3>4. /\ i2c'.rx_index = i2c.rx_index + 1 /\ i2c'.rx_length = i2c.rx_length
          /\ ~i2c'.txing /\ i2c'.acquired = i2c.acquired
      BY <2>5, <3>2 DEF isr_rxing, TypeOK
    <3>5. i2c'.rxing => i2c'.rx_index < i2c'.rx_length
      BY <3>1, <3>3, <3>4 DEF LastByte
    <3> QED BY <2>5, <3>4, <3>5 DEF isr_rxing, Pending
  <2>6. ASSUME isr_idle PROVE i2c' = i2c
    BY <2>6 DEF isr_idle
  <2>7. CASE isr_idle
    BY <1>0, <1>2, <2>1, <2>2, <2>6, <2>7 DEF Held, Pending
  <2>8. CASE ~isr_idle
    <3>1. i2c'.acquired = i2c.acquired /\ Flags(i2c) /\ Pending'
      BY <1>10, <2>3, <2>4, <2>5, <2>8 DEF hcs12_i2c_isr
    <3>2. Active(pc')
      BY <1>0, <1>2, <2>1, <3>1
    <3> QED BY <1>2, <2>1, <2>2, <3>1, <3>2 DEF Held
  <2> QED BY <2>7, <2>8
<1>11. ASSUME BusStarts \/ BusFrees \/ UNCHANGED vars PROVE Held' /\ (Active(pc') \/ ~Flags(i2c')) /\ Pending'
  <2>1. ~opened /\ i2c' = i2c /\ pc' = pc
    BY <1>11 DEF BusStarts, BusFrees, vars
  <2> QED BY <1>0, <1>2, <2>1 DEF Held, Inside, Pending
<1> QED BY <1>1, <1>3, <1>4, <1>6, <1>7, <1>8, <1>9, <1>10, <1>11 DEF Next, TaskStep

\* Until hcs12_i2c_write clears the flag it has just taken, acquire_i2c and release_i2c keep
\* the bus for one task at a time, and hcs12_i2c_isr neither stores past the caller's buffer
\* nor sends past its end, even when the task has given the transfer up.
THEOREM BusSafety == Spec => []BusSound
<1>1. IInv /\ [Next]_vars => IInv'
  BY TypeStep, LockStep DEF IInv
<1>2. IInv => BusSound
  <2> SUFFICES ASSUME IInv PROVE Exclusive /\ InBuffer
    BY DEF IInv, BusSound
  <2>1. InBuffer
    BY DEF IInv, InBuffer, Pending
  <2>2. CASE opened
    BY <2>1, <2>2 DEF Exclusive
  <2>3. CASE ~opened
    <3>1. Inside = {} \/ \E t \in Tasks : Inside = {t}
      BY <2>3 DEF IInv, Held, Inside
    <3>2. Cardinality(Inside) <= 1
      <4>1. Cardinality({}) = 0 /\ \A t \in Tasks : Cardinality({t}) = 1
        BY FS_EmptySet, FS_Singleton
      <4> QED BY <3>1, <4>1
    <3> QED BY <2>1, <3>2 DEF Exclusive
  <2> QED BY <2>2, <2>3
<1> QED BY InitIInv, <1>1, <1>2, PTL DEF Spec

---------------------------------------------------------------------------
(* What a transfer reports. *)

\* Bytes of the call's own that went out: a read leaves tx_index to the call before it.
Sent(t) == IF call[t].op = "read" THEN 0 ELSE i2c.tx_index

\* Before hcs12_i2c_* stores its lengths nothing has moved.
Prepared(t) == moved[t] = 0 /\ (pc[t] = "setup" => regs.wire = "none")

\* From then on the struct is the caller's, reading follows writing, and the indexes that
\* the task polls count what has moved.
InTransfer(t) ==
    /\ call[t].op # "write" /\ (pc[t] = "wait_txing" => call[t].op = "write_then_read")
    /\ i2c.tx_length = (IF call[t].op = "read" THEN 0 ELSE call[t].wlen)
    /\ i2c.rx_length = call[t].rlen
    /\ i2c.tx_length > 0 => i2c.tx_data = t
    /\ i2c.rx_length > 0 => i2c.rx_data = t
    /\ Sent(t) <= i2c.tx_length /\ i2c.rx_index <= i2c.rx_length
    /\ i2c.rx_index > 0 \/ i2c.rxing => i2c.tx_index >= i2c.tx_length
    /\ i2c.txing_addr => /\ i2c.rx_index = 0 /\ ~i2c.txing /\ ~i2c.rxing
                         /\ i2c.tx_index < i2c.tx_length => i2c.tx_index = 0
    /\ moved[t] = Sent(t) + i2c.rx_index
    /\ pc[t] = "release" => res[t] <= moved[t]
    /\ pc[t] \in {"bus", "start", "poll"} =>
           regs.wire = "none" /\ Sent(t) = 0 /\ i2c.rx_index = 0 /\ ~i2c.txing /\ ~i2c.rxing
    /\ pc[t] = "wait_rxing" => res[t] = Sent(t) /\ i2c.tx_index >= i2c.tx_length

Carried == \A t \in Inside : IF pc[t] \in {"init_regs", "setup"} THEN Prepared(t) ELSE InTransfer(t)

\* The byte that will be the last is going to be answered with NACK.
Nacking == i2c.rxing /\ i2c.rx_length = i2c.rx_index + 1 => regs.txak

\* What a uint8_t keeps of a count.
LEMMA ModFacts ==
    ASSUME NEW a \in Nat, a <= 2 * ByteMax
    PROVE  /\ a % (ByteMax + 1) <= a
           /\ a <= ByteMax => a % (ByteMax + 1) = a
<1> DEFINE M == ByteMax + 1
<1>1. M \in Nat \ {0}
  BY BoundsAssumption
<1>2. CASE a < M
  <2>1. a % M = a
    BY <1>1, <1>2
  <2> QED BY <2>1
<1>3. CASE a >= M
  <2>1. a - M \in Nat /\ a - M < M - 1
    BY <1>1, <1>3, BoundsAssumption
  <2>2. a % M = a - M
    BY <1>1, <2>1
  <2> QED BY <1>1, <1>3, <2>2, BoundsAssumption
<1> QED BY <1>1, <1>2, <1>3

\* The fields as numbers.
LEMMA FieldFacts ==
    ASSUME TypeOK
    PROVE  /\ i2c.tx_index \in Nat /\ i2c.tx_index <= ByteMax
           /\ i2c.rx_index \in Nat /\ i2c.rx_index <= ByteMax
           /\ i2c.tx_length \in Nat /\ i2c.tx_length <= ByteMax
           /\ i2c.rx_length \in Nat /\ i2c.rx_length <= ByteMax
           /\ i2c.tx_data \in Tasks \cup {NoTask} /\ i2c.rx_data \in Tasks \cup {NoTask}
           /\ i2c.txing_addr \in BOOLEAN /\ i2c.txing \in BOOLEAN /\ i2c.rxing \in BOOLEAN
           /\ \A t \in Tasks : Sent(t) \in Nat /\ Sent(t) <= ByteMax
BY BoundsAssumption DEF TypeOK, Byte, Sent

\* The handler during a transfer of the only task inside.
LEMMA IsrCarries ==
    ASSUME TypeOK, NEW t \in Tasks, InTransfer(t), Pending, Nacking, hcs12_i2c_isr, ~opened,
           pc[t] \in {"wait_txing", "wait_rxing", "release"}
    PROVE  /\ InTransfer(t)' /\ Nacking'
           /\ \A u \in Tasks : u # t => moved'[u] = moved[u]
<1>0. pc' = pc /\ call' = call /\ res' = res
  BY DEF hcs12_i2c_isr
<1>1. ASSUME i2c' = i2c, moved' = moved PROVE InTransfer(t)'
  BY <1>0, <1>1 DEF InTransfer, Sent
<1>2. ASSUME NEW nack \in BOOLEAN, isr_txing_addr(nack)
      PROVE  InTransfer(t)' /\ Nacking' /\ moved' = moved
  <2>1. /\ moved' = moved /\ i2c.txing_addr
        /\ i2c'.tx_length = i2c.tx_length /\ i2c'.rx_length = i2c.rx_length
        /\ i2c'.tx_data = i2c.tx_data /\ i2c'.rx_data = i2c.rx_data /\ ~i2c'.txing_addr
    BY <1>2 DEF isr_txing_addr, TypeOK
  <2>2. /\ i2c.rx_index = 0 /\ ~i2c.txing /\ ~i2c.rxing
        /\ i2c.tx_index < i2c.tx_length => i2c.tx_index = 0
    BY <2>1 DEF InTransfer
  <2>3. i2c'.tx_index = i2c.tx_index /\ i2c'.rx_index = i2c.rx_index
    BY <1>2, <2>2 DEF isr_txing_addr, TypeOK
  <2>4. i2c'.rxing => i2c.tx_length <= i2c.tx_index /\ (i2c.rx_length = 1 => regs'.txak)
    BY <1>2, <2>2 DEF isr_txing_addr, TypeOK, ReadData
  <2>5. Sent(t)' = Sent(t)
    BY <1>0, <2>3 DEF Sent
  <2>6. InTransfer(t)'
    BY <1>0, <2>1, <2>2, <2>3, <2>4, <2>5, FieldFacts DEF InTransfer
  <2>7. Nacking'
    BY <2>1, <2>2, <2>3, <2>4, FieldFacts DEF Nacking
  <2> QED BY <2>1, <2>6, <2>7
<1>3. ASSUME NEW nack \in BOOLEAN, isr_txing(nack)
      PROVE  InTransfer(t)' /\ Nacking' /\ \A u \in Tasks : u # t => moved'[u] = moved[u]
  <2>1. /\ i2c.txing /\ ~i2c.txing_addr /\ i2c'.rxing = i2c.rxing /\ i2c'.rx_index = i2c.rx_index
        /\ i2c'.tx_length = i2c.tx_length /\ i2c'.rx_length = i2c.rx_length
        /\ i2c'.tx_data = i2c.tx_data /\ i2c'.rx_data = i2c.rx_data
        /\ i2c'.tx_index = TxIndex(nack)
    BY <1>3 DEF isr_txing, TypeOK
  <2>2. /\ i2c.tx_index < i2c.tx_length /\ i2c.tx_length > 0 /\ i2c.tx_data = t
        /\ i2c.rx_index = 0 /\ ~i2c.rxing
    BY <2>1, FieldFacts DEF Pending, InTransfer
  <2>3. call[t].op # "read" /\ Sent(t) = i2c.tx_index /\ Sent(t)' = i2c'.tx_index
    BY <1>0, <2>2 DEF InTransfer, Sent
  <2>4. TxIndex(FALSE) = i2c.tx_index + 1 /\ TxIndex(TRUE) = i2c.tx_index
    BY <2>2, FieldFacts, IncFacts, BoundsAssumption DEF TxIndex
  <2>5. moved[t] = i2c.tx_index
    BY <2>2, <2>3, FieldFacts DEF InTransfer
  <2>6. moved' = IF nack THEN moved ELSE [moved EXCEPT ![t] = i2c.tx_index + 1]
    BY <1>3, <2>2, <2>5, TasksAssumption DEF isr_txing, Moved
  <2>7. moved'[t] = i2c'.tx_index /\ \A u \in Tasks : u # t => moved'[u] = moved[u]
    <3>1. CASE nack = TRUE
      BY <2>1, <2>4, <2>5, <2>6, <3>1
    <3>2. CASE nack = FALSE
      BY <2>1, <2>4, <2>6, <3>2 DEF TypeOK
    <3> QED BY <3>1, <3>2
  <2>8. i2c'.tx_index \in Nat /\ i2c'.tx_index <= i2c.tx_length /\ i2c'.tx_index >= i2c.tx_index
    <3>1. i2c'.tx_index \in {i2c.tx_index, i2c.tx_index + 1}
      <4>1. nack = TRUE \/ nack = FALSE
        OBVIOUS
      <4> QED BY <2>1, <2>4, <4>1
    <3> QED BY <2>2, <3>1, FieldFacts
  <2>9. /\ i2c'.tx_index = i2c'.tx_index + i2c'.rx_index
        /\ pc[t] = "release" => res[t] <= i2c'.tx_index
    <3>1. res[t] \in Nat
      BY BoundsAssumption DEF TypeOK, Byte
    <3>2. pc[t] = "release" => res[t] <= i2c.tx_index
      BY <2>5 DEF InTransfer
    <3> QED BY <2>1, <2>2, <2>8, <3>1, <3>2, FieldFacts
  <2>10. i2c'.txing_addr => ~i2c'.txing /\ i2c'.tx_index >= i2c'.tx_length
    BY <1>3, <2>1 DEF isr_txing, TypeOK
  <2>11. pc[t] # "wait_rxing"
    BY <2>2, FieldFacts DEF InTransfer
  <2>12. InTransfer(t)'
    BY <1>0, <2>1, <2>2, <2>3, <2>7, <2>8, <2>9, <2>10, <2>11, FieldFacts DEF InTransfer
  <2>13. Nacking'
    BY <2>1, <2>2 DEF Nacking
  <2> QED BY <2>7, <2>12, <2>13
<1>4. ASSUME isr_rxing
      PROVE  InTransfer(t)' /\ Nacking' /\ \A u \in Tasks : u # t => moved'[u] = moved[u]
  <2>1. /\ i2c.rxing /\ ~i2c.txing_addr /\ ~i2c.txing /\ ~i2c'.txing_addr /\ ~i2c'.txing
        /\ i2c'.tx_length = i2c.tx_length /\ i2c'.rx_length = i2c.rx_length
        /\ i2c'.tx_data = i2c.tx_data /\ i2c'.rx_data = i2c.rx_data
        /\ i2c'.tx_index = i2c.tx_index /\ i2c'.rx_index = Inc(i2c.rx_index)
        /\ i2c'.rxing = ~LastByte
    BY <1>4 DEF isr_rxing, TypeOK
  <2>2. /\ i2c.rx_index < i2c.rx_length /\ i2c.rx_length > 0 /\ i2c.rx_data = t
        /\ i2c.tx_index >= i2c.tx_length
    BY <2>1, FieldFacts DEF Pending, InTransfer
  <2>3. i2c'.rx_index = i2c.rx_index + 1
    BY <2>1, <2>2, FieldFacts, IncFacts, BoundsAssumption
  <2>4. Sent(t)' = Sent(t)
    BY <1>0, <2>1 DEF Sent
  <2>5. moved' = [moved EXCEPT ![t] = @ + 1]
    BY <1>4, <2>2, TasksAssumption DEF isr_rxing, Moved
  <2>6. /\ moved'[t] = Sent(t) + i2c'.rx_index
        /\ pc[t] = "release" => res[t] <= moved'[t]
    <3>1. moved'[t] = moved[t] + 1 /\ moved[t] \in Nat /\ res[t] \in Nat
      BY <2>5, BoundsAssumption DEF TypeOK, Byte
    <3>2. moved[t] = Sent(t) + i2c.rx_index /\ (pc[t] = "release" => res[t] <= moved[t])
      BY DEF InTransfer
    <3> QED BY <2>3, <3>1, <3>2, FieldFacts
  <2>7. InTransfer(t)'
    BY <1>0, <2>1, <2>2, <2>3, <2>4, <2>6, FieldFacts DEF InTransfer
  <2>8. Nacking'
    <3> SUFFICES ASSUME i2c.rx_length = i2c.rx_index + 2 PROVE regs'.txak
      BY <2>1, <2>3, FieldFacts DEF Nacking
    <3>1. NackNext
      BY DEF NackNext
    <3> QED BY <1>4, <3>1 DEF isr_rxing, ReadData, TypeOK
  <2> QED BY <2>5, <2>7, <2>8 DEF TypeOK
<1>5. ASSUME isr_idle
      PROVE  InTransfer(t)' /\ Nacking' /\ moved' = moved
  BY <1>1, <1>5 DEF isr_idle, Nacking
<1> QED BY <1>2, <1>3, <1>4, <1>5 DEF hcs12_i2c_isr

\* A step of the task inside, alone with its transfer.
LEMMA TaskCarries ==
    ASSUME TypeOK, Called, NEW t \in Tasks, t \in Inside, ~opened',
           IF pc[t] \in {"init_regs", "setup"} THEN Prepared(t) ELSE InTransfer(t),
           \/ pc[t] \notin {"init_regs", "setup", "bus"}
           \/ ~i2c.txing_addr /\ ~i2c.txing /\ ~i2c.rxing,
           Nacking,
           init_regs(t) \/ Setup(t) \/ WaitBus(t) \/ Start(t) \/ PollStart(t)
               \/ wait_txing(t) \/ wait_rxing(t)
    PROVE  /\ IF pc'[t] \in {"init_regs", "setup"} THEN Prepared(t)' ELSE InTransfer(t)'
           /\ Nacking' /\ moved' = moved
           /\ pc'[t] = "release" => res'[t] = moved'[t] % (ByteMax + 1)
<1>0. call[t] \in Calls /\ call[t].op \in {"write", "read", "write_then_read"}
      /\ call[t].wlen \in Nat /\ call[t].rlen \in Nat
  BY CallsAssumption, BoundsAssumption DEF Called, Inside
<1>1. CASE init_regs(t)
  <2>1. pc'[t] = "setup" /\ moved' = moved /\ regs'.wire = "none" /\ i2c' = i2c /\ pc[t] = "init_regs"
    BY <1>1 DEF init_regs, Goto, task, Fresh, TypeOK
  <2> QED BY <2>1 DEF Prepared, Nacking
<1>2. CASE Setup(t)
  <2>1. /\ pc[t] = "setup" /\ pc'[t] = "bus" /\ call' = call /\ moved' = moved /\ regs' = regs
        /\ call[t].op # "write" /\ i2c' = SetUp(t, call[t])
    BY <1>2 DEF Setup, Goto, task, TypeOK
  <2>2. moved[t] = 0 /\ regs.wire = "none" /\ ~i2c.txing_addr /\ ~i2c.txing /\ ~i2c.rxing
    BY <2>1 DEF Prepared
  <2>3. ~i2c'.txing_addr /\ ~i2c'.txing /\ ~i2c'.rxing
    BY <1>0, <2>1, <2>2, SetUpFacts
  <2>4. /\ i2c'.rx_length = call[t].rlen /\ i2c'.rx_data = t /\ i2c'.rx_index = 0
        /\ call[t].op = "read" => i2c'.tx_length = 0 /\ i2c'.tx_index = i2c.tx_index
        /\ call[t].op # "read" => i2c'.tx_length = call[t].wlen /\ i2c'.tx_data = t /\ i2c'.tx_index = 0
    BY <1>0, <2>1 DEF SetUp, TypeOK
  <2>5. Sent(t)' = 0
    BY <2>1, <2>4 DEF Sent
  <2>6. InTransfer(t)'
    BY <1>0, <2>1, <2>2, <2>3, <2>4, <2>5, FieldFacts DEF InTransfer
  <2> QED BY <2>1, <2>3, <2>6 DEF Nacking
<1>3. CASE WaitBus(t)
  <2>1. /\ pc[t] = "bus" /\ pc'[t] = "start" /\ call' = call /\ moved' = moved /\ regs' = regs
        /\ i2c' = [i2c EXCEPT !.txing_addr = TRUE]
    BY <1>3 DEF WaitBus, Goto, task, TypeOK
  <2>2. /\ i2c'.tx_length = i2c.tx_length /\ i2c'.rx_length = i2c.rx_length
        /\ i2c'.tx_data = i2c.tx_data /\ i2c'.rx_data = i2c.rx_data
        /\ i2c'.tx_index = i2c.tx_index /\ i2c'.rx_index = i2c.rx_index
        /\ i2c'.txing = i2c.txing /\ i2c'.rxing = i2c.rxing
    BY <2>1 DEF TypeOK
  <2>3. InTransfer(t) /\ Sent(t)' = Sent(t)
    BY <2>1, <2>2 DEF Sent
  <2>4. i2c.tx_index < i2c.tx_length => i2c.tx_index = 0
    BY <2>1, <2>3, FieldFacts DEF InTransfer, Sent
  <2>5. InTransfer(t)'
    BY <2>1, <2>2, <2>3, <2>4 DEF InTransfer
  <2> QED BY <2>1, <2>2, <2>5 DEF Nacking
<1>4. CASE Start(t)
  <2>1. /\ pc[t] = "start" /\ pc'[t] = "poll" /\ call' = call /\ moved' = moved /\ i2c' = i2c
        /\ regs'.wire = regs.wire /\ regs'.txak = regs.txak
    BY <1>4 DEF Start, Goto, task, TypeOK
  <2> QED BY <2>1 DEF InTransfer, Sent, Nacking
<1>5. CASE PollStart(t)
  <2>1. /\ pc[t] = "poll" /\ call' = call /\ moved' = moved /\ i2c' = i2c
        /\ regs'.txak = regs.txak /\ res'[t] = 0
        /\ pc'[t] \in {"release", FirstWait(call[t])}
    BY <1>5 DEF PollStart, Goto, task, TypeOK
  <2>2. /\ FirstWait(call[t]) \in {"wait_txing", "wait_rxing", "release"}
        /\ FirstWait(call[t]) = "wait_txing" => call[t].op # "read"
        /\ FirstWait(call[t]) # "wait_txing" /\ call[t].op = "write_then_read" => call[t].wlen = 0
    BY <1>0 DEF FirstWait
  <2>3. InTransfer(t) /\ Sent(t) = 0 /\ Sent(t)' = Sent(t) /\ i2c.rx_index = 0
    BY <2>1 DEF InTransfer, Sent
  <2>4. moved[t] = 0 /\ 0 = 0 % (ByteMax + 1)
    <3>1. moved[t] = 0
      BY <2>3 DEF InTransfer
    <3> QED BY <3>1, BoundsAssumption
  <2>5. pc'[t] = "wait_rxing" => i2c.tx_index >= i2c.tx_length
    BY <1>0, <2>1, <2>2, <2>3, FieldFacts DEF InTransfer
  <2>6. pc'[t] = "wait_txing" => call[t].op = "write_then_read"
    BY <1>0, <2>1, <2>2, <2>3 DEF InTransfer
  <2>7. InTransfer(t)'
    BY <2>1, <2>2, <2>3, <2>4, <2>5, <2>6 DEF InTransfer
  <2> QED BY <2>1, <2>2, <2>4, <2>7 DEF Nacking
<1>6. CASE wait_txing(t)
  <2>1. /\ pc[t] = "wait_txing" /\ call' = call /\ moved' = moved /\ i2c' = i2c /\ regs' = regs
        /\ \/ pc'[t] = pc[t]
           \/ /\ res'[t] = i2c.tx_index
              /\ pc'[t] = IF call[t].op = "write" \/ i2c.tx_index < call[t].wlen \/ call[t].rlen = 0
                          THEN "release" ELSE "wait_rxing"
    BY <1>6 DEF wait_txing, Goto, task, TypeOK
  <2>2. InTransfer(t) /\ call[t].op = "write_then_read" /\ Sent(t)' = Sent(t) /\ Sent(t) = i2c.tx_index
    BY <2>1 DEF InTransfer, Sent
  <2>3. pc'[t] = "release" => i2c.rx_index = 0 /\ res'[t] = i2c.tx_index
    BY <1>0, <2>1, <2>2, FieldFacts DEF InTransfer
  <2>4. pc'[t] = "wait_rxing" => i2c.tx_index >= i2c.tx_length /\ res'[t] = i2c.tx_index
    BY <1>0, <2>1, <2>2, FieldFacts DEF InTransfer
  <2>5. pc'[t] = "release" => res'[t] = moved[t] /\ moved[t] = moved[t] % (ByteMax + 1)
    <3>1. i2c.rx_index = 0 => moved[t] = i2c.tx_index
      BY <2>2, FieldFacts DEF InTransfer
    <3>2. i2c.tx_index % (ByteMax + 1) = i2c.tx_index
      BY FieldFacts, ModFacts, BoundsAssumption
    <3> QED BY <2>1, <2>3, <3>1, <3>2
  <2>6. pc'[t] = "release" => res'[t] <= moved'[t]
    BY <2>1, <2>5 DEF TypeOK
  <2>7. InTransfer(t)'
    BY <2>1, <2>2, <2>4, <2>6 DEF InTransfer
  <2> QED BY <2>1, <2>5, <2>7 DEF Nacking
<1>7. CASE wait_rxing(t)
  <2>1. /\ pc[t] = "wait_rxing" /\ call' = call /\ moved' = moved /\ i2c' = i2c /\ regs' = regs
        /\ \/ pc'[t] = pc[t] /\ res' = res
           \/ pc'[t] = "release" /\ res'[t] = (res[t] + i2c.rx_index) % (ByteMax + 1)
    BY <1>7 DEF wait_rxing, Goto, task, TypeOK
  <2>2. InTransfer(t) /\ Sent(t)' = Sent(t) /\ res[t] = Sent(t)
    BY <2>1 DEF InTransfer, Sent
  <2>3. moved[t] = Sent(t) + i2c.rx_index /\ moved[t] \in Nat /\ moved[t] <= 2 * ByteMax
    BY <2>2, FieldFacts, BoundsAssumption DEF InTransfer
  <2>4. pc'[t] = "release" => res'[t] = moved'[t] % (ByteMax + 1) /\ res'[t] <= moved'[t]
    BY <2>1, <2>2, <2>3, ModFacts
  <2>5. InTransfer(t)'
    BY <2>1, <2>2, <2>4 DEF InTransfer
  <2> QED BY <2>1, <2>4, <2>5 DEF Nacking
<1> QED BY <1>1, <1>2, <1>3, <1>4, <1>5, <1>6, <1>7

\* Everything that is known between two steps.
JInv == IInv /\ (opened \/ (Carried /\ Nacking))

\* What the task inside may count on.
LEMMA InsideFacts ==
    ASSUME JInv, ~opened, NEW t \in Inside
    PROVE  /\ TypeOK /\ Called /\ t \in Tasks /\ Pending /\ Nacking
           /\ \A u \in Tasks : u # t => u \notin Inside
           /\ IF pc[t] \in {"init_regs", "setup"} THEN Prepared(t) ELSE InTransfer(t)
           /\ \/ pc[t] \notin {"init_regs", "setup", "bus"}
              \/ ~i2c.txing_addr /\ ~i2c.txing /\ ~i2c.rxing
<1>1. /\ TypeOK /\ Called /\ Held /\ Quiet /\ Pending /\ Carried /\ Nacking
  BY DEF JInv, IInv
<1>2. t \in Tasks /\ Inside = {t}
  BY <1>1 DEF Held, Inside
<1> QED BY <1>1, <1>2 DEF Carried, Quiet

\* While nobody is inside, the handler only finds spurious interrupts.
LEMMA OutsideFacts ==
    ASSUME JInv, ~opened, Inside = {}
    PROVE  TypeOK /\ ~i2c.txing_addr /\ ~i2c.txing /\ ~i2c.rxing
BY DEF JInv, IInv, Quiet

\* A step of the handler: it touches only the count of the task inside.
LEMMA HandlerStep ==
    ASSUME JInv, hcs12_i2c_isr, ~opened
    PROVE  /\ Carried' /\ Nacking' /\ pc' = pc
           /\ \A u \in Tasks : u \notin Inside => moved'[u] = moved[u]
<1>0. pc' = pc /\ Inside' = Inside /\ call' = call /\ res' = res
  BY DEF hcs12_i2c_isr, Inside
<1>1. ASSUME ~i2c.txing_addr, ~i2c.txing, ~i2c.rxing
      PROVE  i2c' = i2c /\ moved' = moved /\ regs'.wire = "none" /\ Nacking'
  <2>1. isr_idle
    BY <1>1 DEF hcs12_i2c_isr, isr_txing_addr, isr_txing, isr_rxing
  <2> QED BY <1>1, <2>1 DEF isr_idle, Send, Nacking, JInv, IInv, TypeOK
<1>2. CASE Inside = {}
  BY <1>0, <1>1, <1>2, OutsideFacts DEF Carried
<1>3. ASSUME NEW t \in Inside PROVE Carried' /\ Nacking' /\ \A u \in Tasks : u # t => moved'[u] = moved[u]
  <2>0. /\ TypeOK /\ t \in Tasks /\ Pending /\ Nacking
        /\ \A u \in Tasks : u # t => u \notin Inside
        /\ IF pc[t] \in {"init_regs", "setup"} THEN Prepared(t) ELSE InTransfer(t)
        /\ \/ pc[t] \notin {"init_regs", "setup", "bus"}
           \/ ~i2c.txing_addr /\ ~i2c.txing /\ ~i2c.rxing
    BY InsideFacts
  <2>1. SUFFICES /\ IF pc[t] \in {"init_regs", "setup"} THEN Prepared(t)' ELSE InTransfer(t)'
                 /\ Nacking' /\ \A u \in Tasks : u # t => moved'[u] = moved[u]
    BY <1>0, <2>0 DEF Carried, Inside
  <2>2. CASE pc[t] \in {"init_regs", "setup", "bus"}
    <3>1. i2c' = i2c /\ moved' = moved /\ regs'.wire = "none" /\ Nacking'
      BY <1>1, <2>0, <2>2
    <3> QED BY <1>0, <2>0, <2>2, <3>1 DEF Prepared, InTransfer, Sent
  <2>3. CASE pc[t] \in {"start", "poll"}
    BY <2>0, <2>3 DEF InTransfer, hcs12_i2c_isr
  <2>4. CASE pc[t] \in {"wait_txing", "wait_rxing", "release"}
    BY <2>0, <2>4, IsrCarries
  <2> QED BY <2>0, <2>2, <2>3, <2>4 DEF Inside, TypeOK
<1> QED BY <1>0, <1>2, <1>3

\* Every step keeps the account of the transfer, and the count that is sampled is a true one.
LEMMA CarryStep ==
    ASSUME JInv, [Next]_vars, ~opened'
    PROVE  /\ Carried' /\ Nacking'
           /\ \A t \in Tasks : pc'[t] = "release" /\ pc[t] # "release" => res'[t] = moved'[t] % (ByteMax + 1)
<1>0. TypeOK /\ Called
  BY DEF JInv, IInv
<1>1. ASSUME NEW t \in Tasks, release_i2c(t)
      PROVE  /\ Carried' /\ Nacking'
             /\ \A u \in Tasks : pc'[u] = "release" /\ pc[u] # "release" => res'[u] = moved'[u] % (ByteMax + 1)
  <2>1. Inside = {t}
    <3>1. t \in Inside
      BY <1>1 DEF release_i2c, Inside
    <3>2. CASE opened
      BY <1>1, <3>2 DEF release_i2c
    <3>3. CASE ~opened
      BY <3>1, <3>3, InsideFacts DEF Inside
    <3> QED BY <3>2, <3>3
  <2>2. Inside' = {} /\ \A u \in Tasks : pc'[u] \in {"idle", pc[u]}
    BY <1>0, <1>1, <2>1 DEF release_i2c, Goto, Inside, TypeOK
  <2>3. ~i2c'.rxing
    BY <1>0, <1>1 DEF release_i2c, TypeOK
  <2> QED BY <2>2, <2>3 DEF Carried, Nacking
<1>2. ASSUME \A t \in Tasks : ~release_i2c(t) PROVE ~opened
  BY <1>2 DEF Next, TaskStep, Call, acquire_i2c, init_regs, Setup, WaitBus, Start, PollStart,
              wait_txing, wait_rxing, hcs12_i2c_isr, BusStarts, BusFrees, vars
<1>3. ASSUME NEW t \in Tasks, ~opened,
             init_regs(t) \/ Setup(t) \/ WaitBus(t) \/ Start(t) \/ PollStart(t)
                 \/ wait_txing(t) \/ wait_rxing(t)
      PROVE  /\ Carried' /\ Nacking'
             /\ \A u \in Tasks : pc'[u] = "release" /\ pc[u] # "release" => res'[u] = moved'[u] % (ByteMax + 1)
  <2>1. t \in Inside /\ \A u \in Tasks : u # t => pc'[u] = pc[u]
    BY <1>0, <1>3 DEF Inside, init_regs, Setup, WaitBus, Start, PollStart, wait_txing, wait_rxing, Goto, TypeOK
  <2>2. /\ TypeOK /\ Called /\ t \in Tasks /\ Nacking
        /\ \A u \in Tasks : u # t => u \notin Inside
        /\ IF pc[t] \in {"init_regs", "setup"} THEN Prepared(t) ELSE InTransfer(t)
        /\ \/ pc[t] \notin {"init_regs", "setup", "bus"}
           \/ ~i2c.txing_addr /\ ~i2c.txing /\ ~i2c.rxing
    BY <1>3, <2>1, InsideFacts
  <2>3. /\ IF pc'[t] \in {"init_regs", "setup"} THEN Prepared(t)' ELSE InTransfer(t)'
        /\ Nacking' /\ (pc'[t] = "release" => res'[t] = moved'[t] % (ByteMax + 1))
    BY <1>3, <2>1, <2>2, TaskCarries
  <2>4. Inside' \subseteq {t}
    BY <2>1, <2>2 DEF Inside
  <2> QED BY <2>1, <2>3, <2>4 DEF Carried
<1>4. ASSUME ~opened, UNCHANGED <<i2c, call, res, moved>>, Inside' = Inside,
             \A t \in Inside : pc'[t] = pc[t], regs'.wire = regs.wire, regs'.txak = regs.txak
      PROVE  Carried' /\ Nacking'
  <2>1. Carried /\ Nacking
    BY <1>4 DEF JInv
  <2> QED BY <1>4, <2>1 DEF Carried, Nacking, Prepared, InTransfer, Sent
<1>5. ASSUME NEW t \in Tasks, NEW c \in Calls, Call(t, c)
      PROVE  /\ Carried' /\ Nacking'
             /\ \A u \in Tasks : pc'[u] = "release" /\ pc[u] # "release" => res'[u] = moved'[u] % (ByteMax + 1)
  <2>1. /\ ~opened /\ UNCHANGED <<i2c, regs, res, moved>> /\ pc[t] = "idle"
        /\ \A u \in Tasks : u # t => pc'[u] = pc[u] /\ call'[u] = call[u]
        /\ pc'[t] = "acquire"
    BY <1>0, <1>5 DEF Call, Goto, TypeOK
  <2>2. Inside' = Inside /\ t \notin Inside
    BY <2>1 DEF Inside
  <2>3. Carried /\ Nacking
    BY <2>1 DEF JInv
  <2>4. ASSUME NEW u \in Inside
        PROVE  IF pc'[u] \in {"init_regs", "setup"} THEN Prepared(u)' ELSE InTransfer(u)'
    <3>1. u \in Tasks /\ u # t
      BY <2>2 DEF Inside
    <3>2. IF pc[u] \in {"init_regs", "setup"} THEN Prepared(u) ELSE InTransfer(u)
      BY <2>3 DEF Carried
    <3> QED BY <2>1, <3>1, <3>2 DEF Prepared, InTransfer, Sent
  <2> QED BY <2>1, <2>2, <2>3, <2>4 DEF Carried, Nacking
<1>6. ASSUME NEW t \in Tasks, acquire_i2c(t)
      PROVE  /\ Carried' /\ Nacking'
             /\ \A u \in Tasks : pc'[u] = "release" /\ pc[u] # "release" => res'[u] = moved'[u] % (ByteMax + 1)
  <2>1. /\ ~opened /\ regs' = regs /\ call' = call /\ pc[t] = "acquire"
        /\ \A u \in Tasks : u # t => pc'[u] = pc[u] /\ res'[u] = res[u] /\ moved'[u] = moved[u]
        /\ pc'[t] \in {"idle", "acquire", "init_regs"}
        /\ pc'[t] = "init_regs" => moved'[t] = 0 /\ ~i2c.acquired
        /\ pc'[t] # "init_regs" => i2c' = i2c
        /\ i2c'.rxing = i2c.rxing /\ i2c'.rx_length = i2c.rx_length /\ i2c'.rx_index = i2c.rx_index
    BY <1>0, <1>6 DEF acquire_i2c, Goto, TypeOK
  <2>2. Carried /\ Nacking /\ Held
    BY <2>1 DEF JInv, IInv
  <2>3. Nacking'
    BY <2>1, <2>2 DEF Nacking
  <2>4. CASE pc'[t] = "init_regs"
    <3>1. Inside = {}
      BY <2>1, <2>2, <2>4 DEF Held
    <3>2. Inside' \subseteq {t}
      BY <2>1, <3>1 DEF Inside
    <3>3. Prepared(t)'
      BY <2>1, <2>4 DEF Prepared
    <3> QED BY <2>1, <2>3, <2>4, <3>2, <3>3 DEF Carried
  <2>5. CASE pc'[t] # "init_regs"
    <3>1. Inside' = Inside /\ t \notin Inside
      BY <2>1, <2>5 DEF Inside
    <3>2. ASSUME NEW u \in Inside
          PROVE  IF pc'[u] \in {"init_regs", "setup"} THEN Prepared(u)' ELSE InTransfer(u)'
      <4>1. u \in Tasks /\ u # t
        BY <3>1 DEF Inside
      <4>2. IF pc[u] \in {"init_regs", "setup"} THEN Prepared(u) ELSE InTransfer(u)
        BY <2>2 DEF Carried
      <4> QED BY <2>1, <2>5, <4>1, <4>2 DEF Prepared, InTransfer, Sent
    <3> QED BY <2>1, <2>3, <3>1, <3>2 DEF Carried
  <2> QED BY <2>4, <2>5
<1>7. ASSUME BusStarts \/ BusFrees \/ UNCHANGED vars
      PROVE  Carried' /\ Nacking' /\ pc' = pc
  <2>1. /\ ~opened /\ UNCHANGED <<i2c, call, res, moved, pc>> /\ Inside' = Inside
        /\ regs'.wire = regs.wire /\ regs'.txak = regs.txak
    BY <1>0, <1>7 DEF BusStarts, BusFrees, vars, Inside, TypeOK
  <2> QED BY <1>4, <2>1
<1>8. ASSUME hcs12_i2c_isr PROVE Carried' /\ Nacking' /\ pc' = pc
  <2>1. ~opened
    BY <1>8 DEF hcs12_i2c_isr
  <2> QED BY <1>8, <2>1, HandlerStep
<1>9. CASE \E t \in Tasks : release_i2c(t)
  BY <1>1, <1>9
<1>10. CASE \A t \in Tasks : ~release_i2c(t)
  BY <1>2, <1>3, <1>5, <1>6, <1>7, <1>8, <1>10 DEF Next, TaskStep
<1> QED BY <1>9, <1>10

\* What a call returns has moved, and what has moved it had asked for.
LEMMA ReturnFacts ==
    ASSUME JInv, ~opened, NEW t \in Tasks, pc[t] = "release"
    PROVE  res[t] <= moved[t] /\ moved[t] <= Total(call[t])
<1>1. TypeOK /\ Called /\ InTransfer(t)
  BY InsideFacts DEF Inside
<1>2. call[t].op \in {"write", "read", "write_then_read"} /\ call[t].wlen \in Nat /\ call[t].rlen \in Nat
  BY <1>1, CallsAssumption, BoundsAssumption DEF Called
<1>3. Total(call[t]) = i2c.tx_length + i2c.rx_length
  BY <1>1, <1>2 DEF InTransfer, Total
<1>4. /\ moved[t] = Sent(t) + i2c.rx_index /\ Sent(t) <= i2c.tx_length
      /\ i2c.rx_index <= i2c.rx_length /\ res[t] <= moved[t]
  BY <1>1 DEF InTransfer
<1> QED BY <1>1, <1>3, <1>4, FieldFacts

\* No step touches the buffer of a call that has returned.
LEMMA NoLateStep ==
    ASSUME JInv, [Next]_vars, ~opened, NEW t \in Tasks, pc[t] = "idle", pc'[t] = "idle"
    PROVE  moved'[t] = moved[t]
<1>0. TypeOK /\ t \notin Inside
  BY DEF JInv, IInv, Inside
<1>1. CASE hcs12_i2c_isr
  BY <1>0, <1>1, HandlerStep
<1>2. ASSUME NEW u \in Tasks, acquire_i2c(u) PROVE moved'[t] = moved[t]
  BY <1>0, <1>2 DEF acquire_i2c, TypeOK
<1>3. CASE UNCHANGED moved
  BY <1>3
<1> QED BY <1>1, <1>2, <1>3 DEF Next, TaskStep, Call, init_regs, Setup, WaitBus, Start, PollStart,
               wait_txing, wait_rxing, release_i2c, task, BusStarts, BusFrees, vars

\* Receiving ends only with the byte that is answered with NACK.
LEMMA NackStep ==
    ASSUME JInv, [Next]_vars, ~opened, i2c.rxing, regs.en, ~i2c'.rxing, regs'.en
    PROVE  regs.txak
<1>0. TypeOK /\ Called /\ Nacking
  BY DEF JInv, IInv
<1>1. ASSUME i2c'.rxing = i2c.rxing PROVE FALSE
  BY <1>1
<1>2. ASSUME NEW t \in Tasks, TaskStep(t) PROVE FALSE
  <2>1. CASE release_i2c(t)
    BY <1>0, <2>1 DEF release_i2c, Fresh, TypeOK
  <2>2. CASE Setup(t)
    <3>1. t \in Inside /\ pc[t] = "setup"
      BY <2>2 DEF Setup, Inside
    <3> QED BY <3>1, InsideFacts
  <2>3. CASE ~release_i2c(t) /\ ~Setup(t)
    BY <1>0, <1>1, <1>2, <2>3 DEF TaskStep, acquire_i2c, init_regs, WaitBus, Start, PollStart,
                                  wait_txing, wait_rxing, TypeOK
  <2> QED BY <2>1, <2>2, <2>3
<1>3. CASE hcs12_i2c_isr
  <2>1. ASSUME NEW nack \in BOOLEAN, isr_txing_addr(nack) PROVE FALSE
    BY <1>0, <2>1 DEF isr_txing_addr, TypeOK
  <2>2. ASSUME NEW nack \in BOOLEAN, isr_txing(nack) PROVE FALSE
    BY <1>0, <2>2 DEF isr_txing, TypeOK
  <2>3. CASE isr_rxing
    <3>1. LastByte
      BY <1>0, <2>3 DEF isr_rxing, TypeOK
    <3> QED BY <1>0, <3>1 DEF LastByte, Nacking
  <2>4. CASE isr_idle
    BY <2>4 DEF isr_idle
  <2> QED BY <1>3, <2>1, <2>2, <2>3, <2>4 DEF hcs12_i2c_isr
<1> QED BY <1>1, <1>2, <1>3 DEF Next, Call, BusStarts, BusFrees, vars

\* As long as hcs12_i2c_write has not given the flag away: the count that wait_txing and
\* wait_rxing take is the number of bytes moved by then, after a NACK and after a timeout
\* too; what the call returns after release_i2c never exceeds what has moved, nor that what
\* the call asked for (a byte moved after the count was taken goes unreported);
\* hcs12_i2c_isr never stores into
\* the buffer of a call that has returned; and the last byte of every read is answered with
\* NACK.  For any number of tasks, any calls, any width of the counters.
THEOREM TransferSafety == Spec => TransfersTrue
<1> DEFINE Late == (\E t \in Tasks : moved'[t] # moved[t] /\ pc[t] = "idle" /\ pc'[t] = "idle") => opened
           Nack == i2c.rxing /\ regs.en /\ ~i2c'.rxing /\ regs'.en /\ ~opened => regs.txak
           Result == \A t \in Tasks :
               /\ pc[t] # "release" /\ pc'[t] = "release" /\ ~opened'
                      => res'[t] = moved'[t] % (ByteMax + 1)
               /\ pc[t] = "release" /\ pc'[t] = "idle" /\ ~opened
                      => res[t] <= moved[t] /\ moved[t] <= Total(call[t])
<1>1. Init => JInv
  <2> SUFFICES ASSUME Init PROVE Carried /\ Nacking
    BY InitIInv DEF JInv
  <2> QED BY DEF Init, Carried, Nacking, Inside
<1>2. JInv /\ [Next]_vars => JInv'
  <2>1. IInv /\ [Next]_vars => IInv'
    BY TypeStep, LockStep DEF IInv
  <2> QED BY <2>1, CarryStep DEF JInv
<1>3. JInv /\ [Next]_vars => Late /\ Nack /\ Result
  BY NoLateStep, NackStep, CarryStep, ReturnFacts
<1>4. Spec => [][Late /\ Nack /\ Result]_vars
  <2>1. JInv /\ [Next]_vars => [Late /\ Nack /\ Result]_vars
    BY <1>3
  <2> QED BY <1>1, <1>2, <2>1, PTL DEF Spec
<1>5. ([][Late]_vars <=> NoLateStore) /\ ([][Nack]_vars <=> LastByteNacked) /\ ([][Result]_vars <=> ResultTrue)
  BY DEF NoLateStore, LastByteNacked, ResultTrue
<1>6. [Late /\ Nack /\ Result]_vars => [Late]_vars /\ [Nack]_vars /\ [Result]_vars
  OBVIOUS
<1>7. [][Late /\ Nack /\ Result]_vars => [][Late]_vars /\ [][Nack]_vars /\ [][Result]_vars
  BY <1>6, PTL
<1> QED BY <1>4, <1>5, <1>7 DEF TransfersTrue
=============================================================================
