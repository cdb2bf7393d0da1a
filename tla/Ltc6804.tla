------------------------------- MODULE Ltc6804 ------------------------------
(***************************************************************************)
(* drivers/ltc/ltc6804.c: a battery monitor read in groups of three cells, *)
(* each group followed by a 15 bit check (PEC) of its six bytes.  A job is *)
(* one call; one bit of one group may be turned over on the wire.          *)
(***************************************************************************)
EXTENDS Integers, Sequences, SequencesExt, Bitwise

CONSTANTS Jobs    \* the calls to make
VARIABLES job, out
vars == <<job, out>>
Idle == [ret |-> -1]

\* The cells and the auxiliary inputs the chip has measured.
Cells == <<33000, 33001, 257, 65535, 0, 32768, 41999, 4096, 255, 256, 511, 12345>>
Aux == <<1000, 20000, 30000, 40000, 50000, 60000>>

\* The table: what the generator quoted above it computes.
CRC16_POLY == 17817   \* 0x4599
Shift(rem) == (IF (rem \div 16384) % 2 = 1 THEN ((2 * rem) % 65536) ^^ CRC16_POLY ELSE (2 * rem) % 65536)
pec16Table == [i \in 0 .. 255 |-> FoldLeft(LAMBDA rem, bit : Shift(rem), i * 128, <<8, 7, 6, 5, 4, 3, 2, 1>>)]

calc_crc16_Address8(data) ==
    (2 * FoldLeft(LAMBDA rem, b : ((rem * 256) % 65536) ^^ pec16Table[((rem \div 256) ^^ b) % 256], 16, data)) % 65536
calc_crc16(data) ==
    (2 * FoldLeft(LAMBDA rem, b : ((rem * 256) % 65536) ^^ pec16Table[((rem \div 128) ^^ b) % 256], 16, data)) % 65536
Bytes(crc) == <<crc \div 256, crc % 256>>

\* What goes out: the command and its check, then the data and theirs.
ltc_send_short_and_crc(cmd) == Bytes(cmd) \o Bytes(calc_crc16(Bytes(cmd)))
ltc_send_data_daisychain(cmd, dat) ==
    ltc_send_short_and_crc(cmd) \o (IF dat = <<>> THEN <<>> ELSE dat \o Bytes(calc_crc16(dat)))

\* External: the chip answers six bytes and their check; a flip turns over one of the 64 bits.
Group(values, gid) ==
    FlattenSeq([i \in 1 .. 3 |-> <<values[3 * gid + i] % 256, values[3 * gid + i] \div 256>>])
Flip(bytes, bit) == [i \in DOMAIN bytes |-> IF i = bit \div 8 + 1 THEN bytes[i] ^^ (2 ^ (bit % 8)) ELSE bytes[i]]
Wire(j, values, gid) ==
    LET dat == Group(values, gid)
        all == dat \o Bytes(calc_crc16(dat))
    IN  IF j.flip >= 0 /\ j.badGroup = gid THEN Flip(all, j.flip) ELSE all

\* The bytes of a group, <<>> when its check fails.
ltc_recv_data_daisychain_Unchecked(j, values, gid) == SubSeq(Wire(j, values, gid), 1, 6)
ltc_recv_data_daisychain(j, values, gid) ==
    LET w == Wire(j, values, gid)
        dat == SubSeq(w, 1, 6)
    IN  IF SubSeq(w, 7, 8) = Bytes(calc_crc16(dat)) THEN dat ELSE <<>>

Value(dat, i) == dat[2 * i - 1] + dat[2 * i] * 256
Values(dat) == IF dat = <<>> THEN <<>> ELSE [i \in 1 .. 3 |-> Value(dat, i)]

\* 1_get_voltage and 1_get_aux: groups in order until one fails or the buffer is full.
Groups(j, values, n) ==
    LET got == [g \in 1 .. n |-> Values(ltc_recv_data_daisychain(j, values, g - 1))]
        before(g) == \A k \in 1 .. g : got[k] # <<>>
        all == FlattenSeq([g \in 1 .. n |-> IF before(g) THEN got[g] ELSE <<>>])
    IN  SubSeq(all, 1, IF j.size < Len(all) THEN j.size ELSE Len(all))
ltc6804_1_get_voltage(j) == [ret |-> Len(Groups(j, Cells, 4)), val |-> Groups(j, Cells, 4)]
ltc6804_1_get_aux(j) == [ret |-> Len(Groups(j, Aux, 2)), val |-> Groups(j, Aux, 2)]

\* One cell: its group, then its place in it; past the last group nothing is read.
ltc6804_get_voltage(j) ==
    LET dat == IF j.size \div 3 < 4 THEN ltc_recv_data_daisychain(j, Cells, j.size \div 3) ELSE <<>>
        at == (j.size * 2) % 6
    IN  IF dat = <<>> THEN [ret |-> 0, val |-> <<>>]
        ELSE [ret |-> 1, val |-> <<dat[at + 1] + dat[at + 2] * 256>>]

\* start_channel, start_aux and start_all, and the configuration: frames without an answer.
ltc6804_start_channel(j) ==
    IF j.size >= 12 THEN [ret |-> 0, val |-> <<>>]
    ELSE [ret |-> 1, val |-> ltc_send_data_daisychain(864 + (IF j.size < 6 THEN j.size + 1 ELSE j.size - 5), <<>>)]
ltc6804_1_write_cfg(j) == [ret |-> 1, val |-> ltc_send_data_daisychain(1, j.cfg)]

Run(op, result(_)) == out = Idle /\ job.op = op /\ out' = result(job) /\ UNCHANGED job
Next == \/ Run("1_get_voltage", ltc6804_1_get_voltage) \/ Run("1_get_aux", ltc6804_1_get_aux)
        \/ Run("get_voltage", ltc6804_get_voltage) \/ Run("start_channel", ltc6804_start_channel)
        \/ Run("1_write_cfg", ltc6804_1_write_cfg)
        \/ out # Idle /\ UNCHANGED vars
Init == job \in Jobs /\ out = Idle

---------------------------------------------------------------------------

\* Every value handed out is the one the chip measured: a group with a flipped bit and all
\* after it are left out, the groups before it are there, in order and as far as there is room.
Least(a, b) == IF a < b THEN a ELSE b
Good(j) == IF j.flip < 0 THEN 4 ELSE j.badGroup
CellsTrue ==
    out # Idle =>
        CASE job.op = "1_get_voltage" -> out.val = SubSeq(Cells, 1, Least(job.size, 3 * Good(job)))
          [] job.op = "1_get_aux" -> out.val = SubSeq(Aux, 1, Least(job.size, Least(6, 3 * Good(job))))
          [] job.op = "get_voltage" ->
                out.val = IF job.size < 12 /\ (job.flip < 0 \/ job.badGroup # job.size \div 3)
                          THEN <<Cells[job.size + 1]>> ELSE <<>>
          [] OTHER -> TRUE

\* Every frame sent passes the chip's own check, done bit by bit as its data sheet's shift
\* register does (the polynomial over the bits, seed 16), not by the table.
PecBit(rem, bit) ==
    LET in == ((rem \div 16384) + bit) % 2 IN ((2 * rem) % 32768) ^^ ((in * CRC16_POLY) % 32768)
BitsOf(bytes) == FlattenSeq([i \in DOMAIN bytes |-> [k \in 1 .. 8 |-> (bytes[i] \div 2 ^ (8 - k)) % 2]])
Pec(bytes) == Bytes(2 * FoldLeft(PecBit, 16, BitsOf(bytes)))
FramePasses ==
    out # Idle /\ job.op \in {"start_channel", "1_write_cfg"} /\ out.ret = 1 =>
        /\ SubSeq(out.val, 3, 4) = Pec(SubSeq(out.val, 1, 2))
        /\ Len(out.val) > 4 => SubSeq(out.val, Len(out.val) - 1, Len(out.val)) = Pec(SubSeq(out.val, 5, Len(out.val) - 2))
=============================================================================
