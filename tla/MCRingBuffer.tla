---------------------------- MODULE MCRingBuffer ----------------------------
\* A three byte ring over two letters and the terminator.
EXTENDS RingBuffer

MCSize == 0..(Cap + 1)
MCDat == UNION {[1..n -> Byte] : n \in 0..2} \cup {<<1, 2, 0, 1>>, <<2, 0, 1, 1, 2>>}
MCPrefix == {<<>>, <<1>>, <<2>>, <<1, 2>>, <<1, 2, 2, 2, 2>>}
=============================================================================
