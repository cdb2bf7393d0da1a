------------------------------- MODULE SoftBus ------------------------------
(***************************************************************************)
(* The bit-banged buses: i2c/softi2c.c and spi/softspi.c on the pins of    *)
(* gpio/gpio.c, and the byte loops of spi/spi.c over softspi or hcs12_spi. *)
(* A transfer is the waveform of its pins, one entry per gpio_set_output;  *)
(* what the slave pulls low, on SDA and on SCL, is given with the job.  An *)
(* external listener reads the waveform back by the rules of the bus.      *)
(***************************************************************************)
EXTENDS Integers, Sequences, SequencesExt

CONSTANTS Jobs   \* the transfers to run
VARIABLES job,   \* the one running
          out    \* what it did: waveform, result, bytes received

vars == <<job, out>>
Idle == [ret |-> -1]

Bits(byte) == [k \in 1 .. 8 |-> (byte \div 2 ^ (8 - k)) % 2]              \* MSB first
ByteOf(bits) == FoldLeft(LAMBDA v, b : 2 * v + b, 0, bits)
Indices(n) == [k \in 1 .. n |-> k]
Join(n, piece(_)) == FlattenSeq([k \in 1 .. n |-> piece(k)])

---------------------------------------------------------------------------
(* softi2c.c *)

\* SCL and SDA after each gpio_set_output.  Every piece but the first begins with SCL low,
\* so it does not depend on the piece before.
__start == <<<<1, 1>>, <<1, 1>>, <<1, 0>>, <<0, 0>>>>
__stop == <<<<0, 0>>, <<1, 0>>, <<1, 1>>>>
__restart_SclFirst == <<<<1, 0>>, <<1, 1>>, <<1, 0>>, <<0, 0>>>>
__restart == <<<<0, 1>>, <<1, 1>>, <<1, 0>>, <<0, 0>>>>

\* The open drain line is low when either side pulls it.  The loop after SCL is released
\* has its test the wrong way round: it polls 100 times while SCL is high, and ends at once
\* when a slave holds it low.  Either way SDA is read and SCL is driven low next.
__onebit(bit, slave) == <<<<0, bit * slave>>, <<1, bit * slave>>, <<0, bit * slave>>>>
__onebyte(byte, slave) == Join(8, LAMBDA k : __onebit(Bits(byte)[k], Bits(slave)[k]))

\* A byte out and the slave's answer; a byte in and the master's answer.
PutByte(byte, ack) == __onebyte(byte, 255) \o __onebit(1, IF ack THEN 0 ELSE 1)
GetByte(byte, last) == __onebyte(255, byte) \o __onebit(IF last THEN 1 ELSE 0, 1)
PutAll(bytes, acks) == Join(Len(bytes), LAMBDA k : PutByte(bytes[k], k <= acks))
GetAll(bytes) == Join(Len(bytes), LAMBDA k : GetByte(bytes[k], k >= Len(bytes)))
\* The loop stops at the first byte that is not acknowledged.
Sent(j) == SubSeq(j.w, 1, IF j.acks < Len(j.w) THEN j.acks + 1 ELSE Len(j.w))
Acked(j) == IF j.acks < Len(j.w) THEN j.acks ELSE Len(j.w)

PutAddr(j, read) == PutByte(((2 * j.addr) % 256) + (IF read THEN 1 ELSE 0), j.present)
If(cond, seq) == IF cond THEN seq ELSE <<>>

\* External: the slave holds SCL low over the n-th time the master releases it (n = 0: never;
\* a transfer begins with SCL free).  What it shows on SDA meanwhile is the job's.
Stretched(wave, n) ==
    LET Rises(k) == wave[k][1] = 1 /\ (k = 1 \/ wave[k - 1][1] = 0)
        Release(k) == Len(SelectSeq(Indices(k), Rises))
    IN  IF n < 2 THEN wave
        ELSE [k \in DOMAIN wave |-> IF Release(k) = n THEN <<0, wave[k][2]>> ELSE wave[k]]

Line == <<<<1, 1>>>>   \* what softi2c_init leaves

softi2c_write(j) ==
    [wave |-> Stretched(Line \o __start \o PutAddr(j, FALSE) \o If(j.present, PutAll(Sent(j), j.acks)) \o __stop,
                        j.held),
     ret |-> IF j.present THEN Acked(j) ELSE 0, got |-> <<>>]

softi2c_read(j) ==
    [wave |-> Stretched(Line \o __start \o PutAddr(j, TRUE) \o If(j.present, GetAll(j.r)) \o __stop, j.held),
     ret |-> IF j.present THEN Len(j.r) ELSE 0, got |-> If(j.present, j.r)]

softi2c_write_then_read(j) ==
    LET writes == Len(j.w) > 0
        written == IF writes /\ j.present THEN Acked(j) ELSE 0
        reads == Len(j.r) > 0 /\ (~writes \/ (j.present /\ written = Len(j.w)))
    IN  [wave |-> Stretched(Line \o __start
                    \o If(writes, PutAddr(j, FALSE) \o If(j.present, PutAll(Sent(j), j.acks)))
                    \o If(reads /\ writes, __restart)
                    \o If(reads, PutAddr(j, TRUE) \o If(j.present, GetAll(j.r))) \o __stop, j.held),
         ret |-> written + Len(If(reads /\ j.present, j.r)), got |-> If(reads /\ j.present, j.r)]

---------------------------------------------------------------------------
(* softspi.c and spi.c *)

\* The order the bits go in.
InOrder(j, bits) == IF j.lsb THEN Reverse(bits) ELSE bits
Active(j) == IF j.idleHigh THEN 0 ELSE 1
Rest(j) == IF j.idleHigh THEN 1 ELSE 0

\* CLK and MOSI after each gpio_set_output of one bit; `was' is the bit before.
__transmit_1st_edge(j, was, bit) == <<<<Rest(j), bit>>, <<Active(j), bit>>, <<Rest(j), bit>>>>
__transmit_2st_edge_LateData(j, was, bit) == <<<<Active(j), was>>, <<Rest(j), was>>, <<Rest(j), bit>>>>
__transmit_2st_edge(j, was, bit) == <<<<Active(j), was>>, <<Active(j), bit>>, <<Rest(j), bit>>>>
softspi_transmit(j, bits) ==
    Join(Len(bits), LAMBDA k : LET was == IF k = 1 THEN 0 ELSE bits[k - 1] IN
        IF j.firstEdge THEN __transmit_1st_edge(j, was, bits[k]) ELSE __transmit_2st_edge(j, was, bits[k]))

\* send, recv and send_and_recv: transmit_byte fails at one byte, or never.  recv sends
\* whatever its variable holds, which is what came in before (at first, anything).
Outgoing(j, k) == IF j.hasW THEN j.w[k] ELSE IF k = 1 THEN j.junk ELSE j.miso[k - 1]
transmitted(j) == IF j.failAt <= j.len THEN j.failAt - 1 ELSE j.len
spi_transfer_use_transmit_onebyte(j) ==
    LET n == IF ~j.hasW /\ ~j.hasR THEN 0 ELSE transmitted(j) IN
    [wave |-> <<<<Rest(j), 0>>>>
                \o softspi_transmit(j, Join(n, LAMBDA k : InOrder(j, Bits(Outgoing(j, k))))),
     ret |-> n, got |-> IF j.hasR THEN SubSeq(j.miso, 1, n) ELSE <<>>]

---------------------------------------------------------------------------

Run(op, result(_)) ==
    /\ out = Idle /\ job.op = op
    /\ out' = result(job)
    /\ UNCHANGED job

Init == job \in Jobs /\ out = Idle
Next == \/ Run("softi2c_write", softi2c_write)
        \/ Run("softi2c_read", softi2c_read)
        \/ Run("softi2c_write_then_read", softi2c_write_then_read)
        \/ Run("spi_transfer", spi_transfer_use_transmit_onebyte)
        \/ out # Idle /\ UNCHANGED vars
Spec == Init /\ [][Next]_vars

---------------------------------------------------------------------------
(* External: the listeners, and the properties *)

START == 2
STOP == 3
\* START, STOP and the bits of an I2C waveform: a bit is what SDA shows while SCL is high,
\* unless it changes there.
Listen(wave) ==
    LET High(k) == wave[k][1] = 1 /\ wave[k + 1][1] = 1 /\ wave[k][2] # wave[k + 1][2]
        Fall(k) == wave[k][1] = 1 /\ wave[k + 1][1] = 0
        Clean(k) == ~\E m \in 1 .. k - 1 : High(m) /\ \A n \in m .. k : wave[n][1] = 1
        events == SelectSeq(Indices(Len(wave) - 1), LAMBDA k : High(k) \/ (Fall(k) /\ Clean(k)))
    IN  [e \in DOMAIN events |->
            LET k == events[e] IN IF Fall(k) THEN wave[k][2] ELSE IF wave[k + 1][2] = 0 THEN START ELSE STOP]

\* What the I2C specification wants on the wire for a job.
Ack(yes) == <<IF yes THEN 0 ELSE 1>>
Addr(j, rw) == Bits(2 * j.addr + rw) \o Ack(j.present)
Writes(j) == Addr(j, 0) \o If(j.present, Join(Len(Sent(j)), LAMBDA k : Bits(j.w[k]) \o Ack(k <= j.acks)))
Reads(j) == Addr(j, 1) \o If(j.present, Join(Len(j.r), LAMBDA k : Bits(j.r[k]) \o Ack(k < Len(j.r))))
Wanted(j) ==
    LET writes == j.op = "softi2c_write" \/ (j.op = "softi2c_write_then_read" /\ Len(j.w) > 0)
        accepted == writes => j.present /\ j.acks >= Len(j.w)
        reads == j.op = "softi2c_read" \/ (j.op = "softi2c_write_then_read" /\ Len(j.r) > 0 /\ accepted)
    IN  <<START>> \o If(writes, Writes(j)) \o If(writes /\ reads, <<START>>) \o If(reads, Reads(j)) \o <<STOP>>
Ran(ops) == out # Idle /\ job.op \in ops

\* A listener on the bus hears START, the address, each byte MSB first with its answer, a
\* repeated START before a read and STOP, and nothing else, whatever the slave refuses.  The
\* exception is a slave that holds the clock: __onebit does not wait for it, so exactly the
\* bit, START or STOP it holds SCL over is missing for every listener.
Unheard(heard, n) == IF n \in 2 .. Len(heard) THEN RemoveAt(heard, n) ELSE heard
I2cWave ==
    Ran({"softi2c_write", "softi2c_read", "softi2c_write_then_read"})
        => Listen(out.wave) = Unheard(Wanted(job), job.held)

\* A slave in the same mode samples exactly the bytes the master meant to send, in every
\* combination of idle level, edge and bit order.
SlaveBits(j, wave) ==
    LET Samples(k) == wave[k][1] # wave[k + 1][1]
                        /\ wave[k + 1][1] = IF j.firstEdge THEN Active(j) ELSE Rest(j)
        edges == SelectSeq(Indices(Len(wave) - 1), Samples)
    IN  [k \in DOMAIN edges |-> wave[edges[k]][2]]
SpiWave ==
    Ran({"spi_transfer"}) =>
        SlaveBits(job, out.wave) = Join(out.ret, LAMBDA k : InOrder(job, Bits(Outgoing(job, k))))
=============================================================================
