----------------------------- MODULE RingBuffer -----------------------------
(***************************************************************************)
(* src/ringbuffer/ringbuffer.c: the byte ring under the looper's command   *)
(* queue, the modem's receive buffers and the DTU's command queue.         *)
(*                                                                         *)
(* One action per public function.  The byte loops of the functions run    *)
(* to their end inside the caller's critical section, so a call is one     *)
(* step; its effect on buf, len, in and out is that of the whole loop.     *)
(* Each call also records what it hands back: ret is the returned value,   *)
(* got the bytes stored through the caller's pointer.  A parameter dst is  *)
(* FALSE when that pointer is NULL.  The NULL test on the ring itself is   *)
(* left out: such a call returns 0 and touches nothing.                    *)
(***************************************************************************)
EXTENDS Integers, Sequences, FiniteSets

CONSTANTS Cap,      \* bytes in the caller's buffer (ringbuffer_init's len)
          Byte,     \* the values a byte can have
          NUL,      \* the string terminator
          Dat,      \* byte strings a caller may write
          Prefix,   \* prefixes a caller may ask for
          Size      \* lengths a caller may pass

\* the largest RINGBUFFER_SIZE_TYPE
SizeMax == 65535

ASSUME CapAssumption == Cap \in 1..SizeMax
ASSUME ByteAssumption == NUL \in Byte
ASSUME DatAssumption == \A dat \in Dat : dat \in Seq(Byte) /\ Len(dat) <= SizeMax
ASSUME PrefixAssumption == Prefix \subseteq Seq(Byte \ {NUL})
ASSUME SizeAssumption == Size \subseteq 0..SizeMax

VARIABLES buf, len, in, out, ret, got

vars == <<buf, len, in, out, ret, got>>

Index == 0..(Cap - 1)

Smaller(m, n) == IF m <= n THEN m ELSE n

\* mutant: "rb->in > rb->cap"
Wrap_TooLate(i) == IF i > Cap THEN i - Cap ELSE i

\* Indices step with "if (rb->in >= rb->cap) rb->in = 0".
Wrap(i) == IF i >= Cap THEN i - Cap ELSE i

Contents == [i \in 1..len |-> buf[Wrap(out + i - 1)]]

-----------------------------------------------------------------------------
(***************************************************************************)
(* The loops the functions share.                                          *)
(***************************************************************************)

\* while space is left, buf[in++] = *dat++
Store(dat, n) ==
  LET room == Smaller(n, Cap - len)
      offset(j) == IF j >= in THEN j - in ELSE j - in + Cap
  IN  /\ buf' = [j \in Index |->
                   IF offset(j) < room THEN dat[offset(j) + 1] ELSE buf[j]]
      /\ in' = Wrap(in + room)
      /\ len' = len + room
      /\ ret' = room
      /\ got' = <<>>
      /\ out' = out

\* mutant: "++rb->out" before the byte is fetched
Take_SkipsFirst(n, k) ==
  /\ out' = Wrap(out + n)
  /\ len' = len - n
  /\ got' = [i \in 1..k |-> buf[Wrap(Wrap(out + 1) + i - 1)]]
  /\ UNCHANGED <<buf, in>>

\* n bytes are popped, the first k of them are stored in the caller's buffer
Take(n, k) ==
  /\ out' = Wrap(out + n)
  /\ len' = len - n
  /\ got' = [i \in 1..k |-> buf[Wrap(out + i - 1)]]
  /\ UNCHANGED <<buf, in>>

\* How many bytes have left once the loop that has popped k of at most limit
\* bytes has gone on to the first c: every byte with no c before it.
PopUntil(c, k, limit) ==
  Cardinality({i \in 1..limit : \A j \in (k + 1)..(i - 1) : Contents[j] # c})

NoEffect(r) ==
  /\ ret' = r
  /\ got' = <<>>
  /\ UNCHANGED <<buf, len, in, out>>

-----------------------------------------------------------------------------
Init ==
  /\ buf = [j \in Index |-> NUL]
  /\ len = 0 /\ in = 0 /\ out = 0
  /\ ret = 0 /\ got = <<>>

\* mutant: out is not reset
ringbuffer_clear_KeepsOut ==
  /\ len' = 0 /\ in' = 0 /\ out' = out
  /\ ret' = 0 /\ got' = <<>>
  /\ buf' = buf

ringbuffer_clear ==
  /\ len' = 0 /\ in' = 0 /\ out' = 0
  /\ ret' = 0 /\ got' = <<>>
  /\ buf' = buf

ringbuffer_put(uch, n) == Store([i \in 1..n |-> uch], n)

ringbuffer_try_write(dat) == Store(dat, Len(dat))

\* mutant: the guard only asks for some room, a write that does not fit is cut short
ringbuffer_write_Partial(dat) ==
  IF Cap - len = 0 /\ Len(dat) > 0 THEN NoEffect(0) ELSE ringbuffer_try_write(dat)

ringbuffer_write(dat) ==
  IF Cap - len < Len(dat) THEN NoEffect(0) ELSE ringbuffer_try_write(dat)

ringbuffer_try_read(dst, n) ==
  LET k == Smaller(n, len)
  IN  IF dst THEN Take(k, k) /\ ret' = k ELSE NoEffect(0)

\* mutant: the byte after the terminator is still read
ringbuffer_try_read_util_PastTerm(dst, n, term) ==
  LET m == Smaller(n, len)
      k == Smaller(PopUntil(term, 0, m) + 1, m)
  IN  IF dst THEN Take(k, k) /\ ret' = k ELSE NoEffect(0)

ringbuffer_try_read_util(dst, n, term) ==
  LET k == PopUntil(term, 0, Smaller(n, len))
  IN  IF dst THEN Take(k, k) /\ ret' = k ELSE NoEffect(0)

\* The guard compares the request with the free space, not with len.
ringbuffer_read(dst, n) ==
  IF Cap - len < n THEN NoEffect(0) ELSE ringbuffer_try_read(dst, n)

ringbuffer_get_left_space == NoEffect(Cap - len)

\* Pops one string; a NULL buf, or bytes past bufSize, are thrown away.
ringbuffer_read_string(dst, bufSize) ==
  LET n == PopUntil(NUL, 0, len)
      k == IF dst THEN Smaller(n, bufSize) ELSE 0
  IN  Take(n, k) /\ ret' = k

\* mutant: a mismatch leaves the rest of the string in the ring
ringbuffer_read_string_and_is_with_prefix_NoResync(prefix, dst, size) ==
  LET compared == Cardinality({i \in 1..Smaller(Len(prefix), len) :
                                 \A j \in 1..(i - 1) : Contents[j] = prefix[j]})
      matched == \A i \in 1..compared : Contents[i] = prefix[i]
      n == IF matched /\ len >= Len(prefix)
             THEN PopUntil(NUL, compared, len)
             ELSE compared
      k == IF dst THEN Smaller(n, size) ELSE 0
  IN  /\ Take(n, k)
      /\ ret' = IF matched /\ len >= Len(prefix) THEN 1 ELSE 0

\* The comparison pops byte by byte and stops at the first difference (or
\* when the ring is empty); unless the last byte popped ended the string, the
\* rest of the string is popped after it.
ringbuffer_read_string_and_is_with_prefix(prefix, dst, size) ==
  LET compared == Cardinality({i \in 1..Smaller(Len(prefix), len) :
                                 \A j \in 1..(i - 1) : Contents[j] = prefix[j]})
      matched == \A i \in 1..compared : Contents[i] = prefix[i]
      chrIsNul == compared > 0 /\ Contents[compared] = NUL
      n == IF (matched /\ len < Len(prefix)) \/ chrIsNul
             THEN compared
             ELSE PopUntil(NUL, compared, len)
      k == IF dst THEN Smaller(n, size) ELSE 0
  IN  /\ Take(n, k)
      /\ ret' = IF matched /\ len >= Len(prefix) THEN 1 ELSE 0

\* The same function called with a NULL prefix.
ringbuffer_read_string_without_prefix(dst, size) ==
  LET n == PopUntil(NUL, 0, len)
      k == IF dst THEN Smaller(n, size) ELSE 0
  IN  Take(n, k) /\ ret' = IF k > 0 THEN 1 ELSE 0

Next ==
  \/ ringbuffer_clear
  \/ \E uch \in Byte, n \in Size : ringbuffer_put(uch, n)
  \/ \E dat \in Dat : ringbuffer_try_write(dat)
  \/ \E dat \in Dat : ringbuffer_write(dat)
  \/ \E dst \in BOOLEAN, n \in Size : ringbuffer_try_read(dst, n)
  \/ \E dst \in BOOLEAN, n \in Size, term \in Byte :
        ringbuffer_try_read_util(dst, n, term)
  \/ \E dst \in BOOLEAN, n \in Size : ringbuffer_read(dst, n)
  \/ ringbuffer_get_left_space
  \/ \E dst \in BOOLEAN, n \in Size : ringbuffer_read_string(dst, n)
  \/ \E prefix \in Prefix, dst \in BOOLEAN, n \in Size :
        ringbuffer_read_string_and_is_with_prefix(prefix, dst, n)
  \/ \E dst \in BOOLEAN, n \in Size :
        ringbuffer_read_string_without_prefix(dst, n)

Spec == Init /\ [][Next]_vars

-----------------------------------------------------------------------------
\* The indices stay inside the caller's buffer and len within its capacity: no
\* function writes or reads out of bounds.
TypeOK ==
  /\ buf \in [Index -> Byte]
  /\ len \in 0..Cap
  /\ in \in Index
  /\ out \in Index
  /\ ret \in 0..SizeMax
  /\ got \in Seq(Byte)

\* The two indices and the length, three separately updated fields, always
\* agree: the next free byte is len places after the oldest one.
IndexInv == in = Wrap(out + len)

Fifo == INSTANCE ByteFifo WITH queue <- Contents

\* Whatever calls are made, in whatever order and across any number of
\* wrap-arounds, the ring behaves as a bounded FIFO of bytes, and every read
\* hands its caller the oldest bytes in order.
RefinesFifo == Fifo!Spec

\* ringbuffer_write stores all of the caller's bytes behind those already
\* held, or none of them, and its return value tells the two apart
\* (ringbuffer.h:120).
WriteAllOrNothing ==
  [][\A dat \in Dat : ringbuffer_write(dat) =>
       \/ ret' = Len(dat) /\ Contents' = Contents \o dat
       \/ ret' = 0 /\ Contents' = Contents /\ Len(dat) > Cap - len]_vars

\* The string functions keep the ring framed: a call takes exactly one
\* string with its terminator (everything, when none has arrived yet),
\* whether or not the prefix matched and whatever fits in the caller's
\* buffer; and the answer is whether the string starts with the prefix.
OneStringPerCall ==
  [][\A prefix \in Prefix, dst \in BOOLEAN, n \in Size :
       ringbuffer_read_string_and_is_with_prefix(prefix, dst, n) =>
         /\ ret' = 1 <=> /\ Len(prefix) <= len
                         /\ SubSeq(Contents, 1, Len(prefix)) = prefix
         /\ \E e \in 0..len :
              /\ \A i \in 1..(e - 1) : Contents[i] # NUL
              /\ e = len \/ (e > 0 /\ Contents[e] = NUL)
              /\ Contents' = SubSeq(Contents, e + 1, len)]_vars

\* ringbuffer_try_read_util never reads past the terminator and stops short
\* of the request only at the terminator or at the end of the data.  This is
\* what ringbuffer.c does: it takes the bytes of a ring that holds fewer than
\* asked, where ringbuffer.h:102 says that it then reads nothing and returns 0.
StopsAtTerm ==
  [][\A n \in Size, term \in Byte : ringbuffer_try_read_util(TRUE, n, term) =>
       /\ \A i \in 1..(ret' - 1) : got'[i] # term
       /\ \/ ret' = n
          \/ len' = 0
          \/ ret' > 0 /\ got'[ret'] = term]_vars

\* A call works on whole units, whatever the ring holds and wherever it wraps:
\* writes, strings and reads up to a terminator.
CallsWhole == WriteAllOrNothing /\ OneStringPerCall /\ StopsAtTerm
=============================================================================
