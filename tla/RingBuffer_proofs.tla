------------------------- MODULE RingBuffer_proofs --------------------------
(***************************************************************************)
(* For every capacity, byte set and set of calls: the ring's fields stay   *)
(* in range and in agreement, the ring implements a bounded FIFO, and its  *)
(* calls move whole writes, strings and terminated runs of bytes.          *)
(***************************************************************************)
EXTENDS RingBuffer, FiniteSetTheorems, WellFoundedInduction, TLAPS

\* SizeMax is a natural number.
LEMMA SizeMaxNat == SizeMax \in Nat
BY SMT DEF SizeMax

\* What the capacity may be.
LEMMA CapFact == Cap \in Nat /\ 1 <= Cap /\ Cap <= SizeMax
BY SizeMaxNat, CapAssumption

Inv == TypeOK /\ IndexInv

\* A count of some of the first m positions is at most m.
LEMMA CountBound ==
  ASSUME NEW m \in Nat, NEW T \in SUBSET (1..m)
  PROVE  Cardinality(T) \in 0..m
<1>1. IsFiniteSet(1..m) /\ Cardinality(1..m) = m
  <2>1. IsFiniteSet(1..m) /\ Cardinality(1..m) = IF 1 > m THEN 0 ELSE m - 1 + 1
    BY FS_Interval
  <2>2. QED BY <2>1
<1>2. IsFiniteSet(T) /\ Cardinality(T) <= m
  BY <1>1, FS_Subset
<1>3. Cardinality(T) \in Nat
  BY <1>2, FS_CardinalityType
<1>4. QED
  BY <1>2, <1>3

\* Popping up to a terminator takes no more than the bytes on offer.
LEMMA PopUntilBound ==
  ASSUME NEW c, NEW k, NEW limit \in Nat
  PROVE  PopUntil(c, k, limit) \in 0..limit
<1> DEFINE T == {i \in 1..limit : \A j \in (k + 1)..(i - 1) : Contents[j] # c}
<1>1. T \in SUBSET (1..limit)
  OBVIOUS
<1>2. Cardinality(T) \in 0..limit
  <2> HIDE DEF T
  <2> QED BY <1>1, CountBound
<1> QED
  BY <1>2 DEF PopUntil

\* The bytes held form a byte string of length len.
LEMMA ContentsType ==
  ASSUME Inv
  PROVE  Contents \in Seq(Byte) /\ Len(Contents) = len
<1> USE SizeMaxNat, CapFact
<1>1. \A i \in 1..len : buf[Wrap(out + i - 1)] \in Byte
  BY DEF Inv, TypeOK, Wrap, Index
<1>2. len \in Nat
  BY DEF Inv, TypeOK
<1> QED
  BY <1>1, <1>2 DEF Contents

\* The write loop puts the stored bytes behind those already held.
LEMMA StoreAppends ==
  ASSUME Inv, NEW dat \in Seq(Byte), NEW n \in 0..SizeMax, n <= Len(dat),
         Store(dat, n)
  PROVE  /\ Inv'
         /\ ret' = Smaller(n, Cap - len)
         /\ Contents' = Contents \o SubSeq(dat, 1, ret')
         /\ Len(Contents) + ret' <= Cap
         /\ got' = <<>>
<1> USE SizeMaxNat, CapFact
<1> DEFINE room == Smaller(n, Cap - len)
           offset(j) == IF j >= in THEN j - in ELSE j - in + Cap
<1>1. /\ buf' = [j \in Index |->
                   IF offset(j) < room THEN dat[offset(j) + 1] ELSE buf[j]]
      /\ in' = Wrap(in + room)
      /\ len' = len + room
      /\ ret' = room
      /\ got' = <<>>
      /\ out' = out
  BY DEF Store
<1>2. room \in 0..SizeMax /\ room <= n /\ len + room <= Cap /\ room <= Len(dat)
  BY DEF Inv, TypeOK, Smaller
<1> HIDE DEF room
<1>3. \A j \in Index : offset(j) \in Index
  BY DEF Inv, TypeOK, Index
<1>4. TypeOK'
  <2>1. \A j \in Index : offset(j) < room => dat[offset(j) + 1] \in Byte
    BY <1>2, <1>3 DEF Index
  <2>2. buf' \in [Index -> Byte]
    BY <1>1, <2>1 DEF Inv, TypeOK
  <2>3. in' \in Index
    BY <1>1, <1>2 DEF Inv, TypeOK, Wrap, Index
  <2>4. got' \in Seq(Byte)
    BY <1>1
  <2>5. len' \in 0..Cap /\ out' \in Index /\ ret' \in 0..SizeMax
    BY <1>1, <1>2 DEF Inv, TypeOK
  <2> QED BY <2>2, <2>3, <2>4, <2>5 DEF TypeOK
<1>5. IndexInv'
  BY <1>1, <1>2 DEF Inv, TypeOK, IndexInv, Wrap, Index
<1>6. Contents' = Contents \o SubSeq(dat, 1, room)
  <2>1. Contents \in Seq(Byte) /\ Len(Contents) = len
    BY ContentsType
  <2>2. SubSeq(dat, 1, room) \in Seq(Byte) /\ Len(SubSeq(dat, 1, room)) = room
    BY <1>2
  <2>3. Contents' = [i \in 1..(len + room) |-> buf'[Wrap(out + i - 1)]]
    BY <1>1 DEF Contents
  <2>4. ASSUME NEW i \in 1..(len + room)
        PROVE  buf'[Wrap(out + i - 1)] = (Contents \o SubSeq(dat, 1, room))[i]
    <3> DEFINE j == Wrap(out + i - 1)
    <3>1. j \in Index /\ len \in 0..Cap /\ in \in Index /\ out \in Index
      BY <1>2 DEF Inv, TypeOK, Wrap, Index
    <3>2. CASE i <= len
      <4>1. ~(offset(j) < room)
        BY <3>1, <3>2, <1>2 DEF Inv, IndexInv, Wrap, Index
      <4>2. buf'[j] = buf[j]
        BY <4>1, <3>1, <1>1
      <4>3. (Contents \o SubSeq(dat, 1, room))[i] = Contents[i]
        BY <2>1, <2>2, <3>1, <3>2, <1>2
      <4>4. Contents[i] = buf[j]
        BY <3>1, <3>2 DEF Contents
      <4> QED BY <4>2, <4>3, <4>4
    <3>3. CASE i > len
      <4>1. offset(j) = i - len - 1
        BY <3>1, <3>3, <1>2 DEF Inv, IndexInv, Wrap, Index
      <4>2. buf'[j] = dat[i - len]
        BY <4>1, <3>1, <3>3, <1>1, <1>2 DEF Index
      <4>3. (Contents \o SubSeq(dat, 1, room))[i] = SubSeq(dat, 1, room)[i - len]
        BY <2>1, <2>2, <3>1, <3>3, <1>2
      <4>4. SubSeq(dat, 1, room)[i - len] = dat[i - len]
        BY <3>1, <3>3, <1>2
      <4> QED BY <4>2, <4>3, <4>4
    <3>4. i <= len \/ i > len
      BY <3>1, <1>2
    <3> QED BY <3>2, <3>3, <3>4
  <2>5. Contents \o SubSeq(dat, 1, room) =
          [i \in 1..(len + room) |-> (Contents \o SubSeq(dat, 1, room))[i]]
    BY <2>1, <2>2
  <2> QED BY <2>3, <2>4, <2>5
<1>7. Len(Contents) + room <= Cap
  BY <1>2, ContentsType
<1> QED
  BY <1>1, <1>4, <1>5, <1>6, <1>7 DEF Inv, room

\* A read loop removes the oldest bytes and hands over the first of them.
LEMMA TakeRemoves ==
  ASSUME Inv, NEW n \in 0..len, NEW k \in 0..n, Take(n, k),
         ret' \in 0..SizeMax
  PROVE  /\ Inv'
         /\ Contents' = SubSeq(Contents, n + 1, Len(Contents))
         /\ got' = SubSeq(Contents, 1, k)
<1> USE SizeMaxNat, CapFact
<1>1. Contents \in Seq(Byte) /\ Len(Contents) = len
  BY ContentsType
<1>2. len \in 0..Cap /\ in \in Index /\ out \in Index
  BY DEF Inv, TypeOK
<1>3. got' = SubSeq(Contents, 1, k)
  <2>1. SubSeq(Contents, 1, k) = [i \in 1..k |-> Contents[i]]
    BY <1>1, <1>2
  <2>2. \A i \in 1..k : Contents[i] = buf[Wrap(out + i - 1)]
    BY <1>2 DEF Contents
  <2> QED BY <2>1, <2>2 DEF Take
<1>4. Contents' = SubSeq(Contents, n + 1, len)
  <2>1. SubSeq(Contents, n + 1, len) = [i \in 1..(len - n) |-> Contents[i + n]]
    BY <1>1, <1>2
  <2>2. ASSUME NEW i \in 1..(len - n)
        PROVE  Contents[i + n] = buf[Wrap(Wrap(out + n) + i - 1)]
    <3>1. i + n \in 1..len
      BY <1>2
    <3>2. Contents[i + n] = buf[Wrap(out + (i + n) - 1)]
      BY <3>1 DEF Contents
    <3>3. Wrap(out + (i + n) - 1) = Wrap(Wrap(out + n) + i - 1)
      BY <1>2, <3>1 DEF Wrap, Index
    <3> QED BY <3>2, <3>3
  <2>3. Contents' = [i \in 1..(len - n) |-> buf[Wrap(Wrap(out + n) + i - 1)]]
    BY DEF Contents, Take
  <2> QED BY <2>1, <2>2, <2>3
<1>5. TypeOK'
  <2>1. got' \in Seq(Byte)
    BY <1>1, <1>2, <1>3
  <2>2. out' \in Index /\ len' \in 0..Cap
    BY <1>2 DEF Take, Wrap, Index
  <2> QED BY <2>1, <2>2 DEF Take, Inv, TypeOK
<1>6. IndexInv'
  BY <1>2 DEF Take, Inv, IndexInv, Wrap, Index
<1> QED
  BY <1>1, <1>3, <1>4, <1>5, <1>6 DEF Inv

\* A call that touches nothing is an enqueue of no bytes.
LEMMA NoEffectRefines ==
  ASSUME Inv, NEW r \in 0..SizeMax, NoEffect(r)
  PROVE  Inv' /\ Fifo!Next
<1> USE SizeMaxNat, CapFact
<1>1. Inv'
  <2>1. <<>> \in Seq(Byte)
    OBVIOUS
  <2> QED BY <2>1 DEF NoEffect, Inv, TypeOK, IndexInv
<1>2. Contents' = Contents /\ got' = <<>>
  BY DEF NoEffect, Contents
<1>3. Contents \o <<>> = Contents /\ Len(Contents) + Len(<<>>) <= Cap
  BY ContentsType DEF Inv, TypeOK
<1>4. <<>> \in Fifo!Chunk
  BY DEF Fifo!Chunk
<1> QED
  BY <1>1, <1>2, <1>3, <1>4 DEF Fifo!Next, Fifo!Enqueue

\* The first m elements of a byte string are a byte string of length m.
LEMMA HeadOfSeq ==
  ASSUME NEW d \in Seq(Byte), NEW m \in Nat, m <= Len(d)
  PROVE  Len(SubSeq(d, 1, m)) = m /\ SubSeq(d, 1, m) \in [1..m -> Byte]
<1>1. SubSeq(d, 1, m) = [i \in 1..m |-> d[i]] /\ Len(SubSeq(d, 1, m)) = m
  OBVIOUS
<1>2. \A i \in 1..m : d[i] \in Byte
  OBVIOUS
<1> QED BY <1>1, <1>2

\* A loop that stores bytes is an Enqueue of the FIFO.
LEMMA StoreRefines ==
  ASSUME Inv, NEW dat \in Seq(Byte), NEW n \in 0..SizeMax, n <= Len(dat),
         Store(dat, n)
  PROVE  Inv' /\ Fifo!Next
<1> USE SizeMaxNat, CapFact
<1> DEFINE s == SubSeq(dat, 1, ret')
<1>1. /\ Inv'
      /\ ret' = Smaller(n, Cap - len)
      /\ Contents' = Contents \o s
      /\ Len(Contents) + ret' <= Cap
      /\ got' = <<>>
  BY StoreAppends
<1>2. ret' \in 0..Cap /\ ret' <= Len(dat)
  BY <1>1 DEF Inv, TypeOK, Smaller
<1>3. Len(s) = ret' /\ s \in [1..ret' -> Byte]
  <2>1. ret' \in Nat /\ ret' <= Len(dat)
    BY <1>2
  <2> QED BY <2>1, HeadOfSeq, Zenon
<1>4. s \in Fifo!Chunk
  BY <1>2, <1>3 DEF Fifo!Chunk
<1>5. Fifo!Enqueue(s)
  BY <1>1, <1>3 DEF Fifo!Enqueue
<1> QED
  BY <1>1, <1>4, <1>5 DEF Fifo!Next

\* A loop that pops bytes is a Dequeue of the FIFO.
LEMMA TakeRefines ==
  ASSUME Inv, NEW n \in 0..len, NEW k \in 0..n, Take(n, k),
         ret' \in 0..SizeMax
  PROVE  Inv' /\ Fifo!Next
<1> USE SizeMaxNat, CapFact
<1>1. /\ Inv'
      /\ Contents' = SubSeq(Contents, n + 1, Len(Contents))
      /\ got' = SubSeq(Contents, 1, k)
  BY TakeRemoves
<1>2. n \in 0..Cap /\ k \in 0..Cap /\ k <= n /\ n <= Len(Contents)
  BY ContentsType DEF Inv, TypeOK
<1>3. Fifo!Dequeue(n, k)
  BY <1>1, <1>2 DEF Fifo!Dequeue
<1> QED
  BY <1>1, <1>2, <1>3 DEF Fifo!Next

\* Every call keeps the fields in agreement and is a step of the FIFO.
LEMMA NextRefines ==
  ASSUME Inv, Next
  PROVE  Inv' /\ Fifo!Next
<1> USE SizeMaxNat, CapFact
<1>1. len \in Nat /\ len <= Cap
  BY DEF Inv, TypeOK
<1>2. \A n \in Size : n \in 0..SizeMax
  BY SizeAssumption
<1>3. 0 \in 0..SizeMax /\ 1 \in 0..SizeMax /\ \A i \in 0..len : i \in 0..SizeMax
  BY <1>1
<1>a. CASE ringbuffer_clear
  <2>1. Contents' = <<>> /\ got' = <<>>
    BY <1>a DEF ringbuffer_clear, Contents
  <2>2. Inv'
    <3>1. <<>> \in Seq(Byte)
      OBVIOUS
    <3> QED BY <1>a, <3>1 DEF ringbuffer_clear, Inv, TypeOK, IndexInv, Wrap, Index
  <2> QED BY <2>1, <2>2 DEF Fifo!Next, Fifo!Clear
<1>b. ASSUME NEW uch \in Byte, NEW n \in Size, ringbuffer_put(uch, n)
      PROVE  Inv' /\ Fifo!Next
  <2> DEFINE dat == [i \in 1..n |-> uch]
  <2>1. n \in 0..SizeMax
    BY <1>2
  <2>2. dat \in Seq(Byte) /\ Len(dat) = n
    BY <2>1
  <2>3. Store(dat, n)
    BY <1>b DEF ringbuffer_put
  <2> HIDE DEF dat
  <2> QED BY <2>1, <2>2, <2>3, StoreRefines
<1>c. ASSUME NEW dat \in Dat, ringbuffer_try_write(dat)
      PROVE  Inv' /\ Fifo!Next
  <2>1. dat \in Seq(Byte) /\ Len(dat) \in 0..SizeMax
    BY DatAssumption
  <2> QED BY <1>c, <2>1, StoreRefines DEF ringbuffer_try_write
<1>d. ASSUME NEW dat \in Dat, ringbuffer_write(dat)
      PROVE  Inv' /\ Fifo!Next
  <2>1. CASE Cap - len < Len(dat)
    BY <1>d, <2>1, <1>3, NoEffectRefines DEF ringbuffer_write
  <2>2. CASE ~(Cap - len < Len(dat))
    BY <1>c, <1>d, <2>2 DEF ringbuffer_write
  <2> QED BY <2>1, <2>2
<1>e. ASSUME NEW dst \in BOOLEAN, NEW n \in Size, ringbuffer_try_read(dst, n)
      PROVE  Inv' /\ Fifo!Next
  <2> DEFINE k == Smaller(n, len)
  <2>1. k \in 0..len /\ k \in 0..k
    BY <1>1, <1>2 DEF Smaller
  <2>2. \/ Take(k, k) /\ ret' = k
        \/ NoEffect(0)
    BY <1>e DEF ringbuffer_try_read
  <2> HIDE DEF k
  <2> QED BY <2>1, <2>2, <1>3, TakeRefines, NoEffectRefines
<1>f. ASSUME NEW dst \in BOOLEAN, NEW n \in Size, NEW term \in Byte,
             ringbuffer_try_read_util(dst, n, term)
      PROVE  Inv' /\ Fifo!Next
  <2> DEFINE m == Smaller(n, len)
             k == PopUntil(term, 0, m)
  <2>1. m \in 0..len
    BY <1>1, <1>2 DEF Smaller
  <2>2. \/ Take(k, k) /\ ret' = k
        \/ NoEffect(0)
    BY <1>f DEF ringbuffer_try_read_util
  <2>3. k \in 0..m
    <3> HIDE DEF m
    <3> QED BY <2>1, <1>1, PopUntilBound
  <2> HIDE DEF m, k
  <2>4. k \in 0..len /\ k \in 0..k
    BY <2>1, <2>3, <1>1
  <2> QED BY <2>2, <2>4, <1>3, TakeRefines, NoEffectRefines
<1>g. ASSUME NEW dst \in BOOLEAN, NEW n \in Size, ringbuffer_read(dst, n)
      PROVE  Inv' /\ Fifo!Next
  <2>1. NoEffect(0) \/ ringbuffer_try_read(dst, n)
    BY <1>g DEF ringbuffer_read
  <2> QED BY <2>1, <1>e, <1>3, NoEffectRefines
<1>h. CASE ringbuffer_get_left_space
  <2>1. Cap - len \in 0..SizeMax
    BY <1>1
  <2> QED BY <1>h, <2>1, NoEffectRefines DEF ringbuffer_get_left_space
<1>i. ASSUME NEW dst \in BOOLEAN, NEW size \in Size, NEW n \in 0..len,
             Take(n, IF dst THEN Smaller(n, size) ELSE 0), ret' \in 0..len \cup {0, 1}
      PROVE  Inv' /\ Fifo!Next
  <2> DEFINE k == IF dst THEN Smaller(n, size) ELSE 0
  <2>1. k \in 0..n
    BY <1>1, <1>2 DEF Smaller
  <2>2. ret' \in 0..SizeMax
    BY <1>i, <1>3
  <2> HIDE DEF k
  <2>3. Take(n, k)
    BY <1>i DEF k
  <2> QED BY <2>1, <2>2, <2>3, TakeRefines
<1>j. ASSUME NEW dst \in BOOLEAN, NEW n \in Size, ringbuffer_read_string(dst, n)
      PROVE  Inv' /\ Fifo!Next
  <2> DEFINE e == PopUntil(NUL, 0, len)
             k == IF dst THEN Smaller(e, n) ELSE 0
  <2>1. e \in 0..len
    BY <1>1, PopUntilBound
  <2>2. Take(e, k) /\ ret' = k
    BY <1>j DEF ringbuffer_read_string
  <2> HIDE DEF e
  <2>3. k \in 0..len
    BY <1>1, <1>2, <2>1 DEF Smaller
  <2> QED BY <2>1, <2>2, <2>3, <1>i
<1>k. ASSUME NEW prefix \in Prefix, NEW dst \in BOOLEAN, NEW n \in Size,
             ringbuffer_read_string_and_is_with_prefix(prefix, dst, n)
      PROVE  Inv' /\ Fifo!Next
  <2> DEFINE m == Smaller(Len(prefix), len)
             C == {i \in 1..m : \A j \in 1..(i - 1) : Contents[j] = prefix[j]}
             compared == Cardinality(C)
             matched == \A i \in 1..compared : Contents[i] = prefix[i]
             chrIsNul == compared > 0 /\ Contents[compared] = NUL
             e == IF (matched /\ len < Len(prefix)) \/ chrIsNul
                    THEN compared
                    ELSE PopUntil(NUL, compared, len)
             k == IF dst THEN Smaller(e, n) ELSE 0
  <2>1. Take(e, k) /\ ret' \in {0, 1}
    BY <1>k DEF ringbuffer_read_string_and_is_with_prefix
  <2>2. m \in 0..len
    BY <1>1, PrefixAssumption DEF Smaller
  <2>3. C \in SUBSET (1..m)
    OBVIOUS
  <2>4. compared \in 0..m
    <3> HIDE DEF m, C
    <3> QED BY <2>2, <2>3, <1>1, CountBound
  <2>5. e \in 0..len
    <3> HIDE DEF compared, m
    <3>1. PopUntil(NUL, compared, len) \in 0..len
      BY <1>1, PopUntilBound
    <3>2. compared \in 0..len
      BY <2>2, <2>4, <1>1
    <3> QED BY <3>1, <3>2
  <2> HIDE DEF e
  <2> QED BY <2>1, <2>5, <1>i
<1>l. ASSUME NEW dst \in BOOLEAN, NEW n \in Size,
             ringbuffer_read_string_without_prefix(dst, n)
      PROVE  Inv' /\ Fifo!Next
  <2> DEFINE e == PopUntil(NUL, 0, len)
  <2>1. e \in 0..len
    BY <1>1, PopUntilBound
  <2>2. Take(e, IF dst THEN Smaller(e, n) ELSE 0) /\ ret' \in {0, 1}
    BY <1>l DEF ringbuffer_read_string_without_prefix
  <2> HIDE DEF e
  <2> QED BY <2>1, <2>2, <1>i
<1> QED
  BY <1>a, <1>b, <1>c, <1>d, <1>e, <1>f, <1>g, <1>h, <1>j, <1>k, <1>l DEF Next

\* The initial state satisfies the invariant and is an empty FIFO.
LEMMA InitInv == Init => Inv /\ Fifo!Init
<1> USE SizeMaxNat, CapFact
<1> SUFFICES ASSUME Init PROVE Inv /\ Fifo!Init
  OBVIOUS
<1>1. <<>> \in Seq(Byte)
  OBVIOUS
<1>2. Inv
  BY <1>1, ByteAssumption DEF Init, Inv, TypeOK, IndexInv, Wrap, Index
<1>3. Contents = <<>>
  BY DEF Init, Contents
<1> QED BY <1>2, <1>3 DEF Init, Fifo!Init

\* The invariant is inductive, and every step is one of the FIFO or a stutter.
LEMMA StepInv == Inv /\ [Next]_vars => Inv' /\ [Fifo!Next]_(Fifo!vars)
<1> SUFFICES ASSUME Inv, [Next]_vars PROVE Inv' /\ [Fifo!Next]_(Fifo!vars)
  OBVIOUS
<1>1. CASE Next
  BY <1>1, NextRefines
<1>2. CASE UNCHANGED vars
  BY <1>2 DEF vars, Inv, TypeOK, IndexInv, Contents, Fifo!vars
<1> QED BY <1>1, <1>2

\* For every capacity and every sequence of calls, the ring's indices and
\* length stay inside the buffer and describe the same free slot
\* (ringbuffer.c's three separately updated fields).
THEOREM IndexSafety == Spec => [](TypeOK /\ IndexInv)
<1>1. Inv => TypeOK /\ IndexInv
  BY DEF Inv
<1> QED BY InitInv, StepInv, <1>1, PTL DEF Spec

\* For every capacity and every sequence of calls, ringbuffer.c implements a
\* bounded FIFO of bytes.
THEOREM Refinement == Spec => RefinesFifo
<1> QED BY InitInv, StepInv, PTL DEF Spec, RefinesFifo, Fifo!Spec

-----------------------------------------------------------------------------
(***************************************************************************)
(* Calls work on whole units.                                              *)
(***************************************************************************)

\* Natural numbers are well ordered.
LEMMA Least ==
  ASSUME NEW S \in SUBSET Nat, S # {}
  PROVE  \E n \in S : \A m \in S : n <= m
<1> DEFINE R == {p \in Nat \X Nat : p[1] < p[2]}
<1>1. IsWellFoundedOn(R, Nat)
  BY NatLessThanWellFounded DEF OpToRel
<1>2. PICK n \in S : \A m \in S : ~(<<m, n>> \in R)
  <2> HIDE DEF R
  <2> QED BY <1>1, WFMin
<1>3. ASSUME NEW m \in S PROVE n <= m
  <2>1. m \in Nat /\ n \in Nat /\ <<m, n>> \notin R
    BY <1>2
  <2> QED BY <2>1
<1> QED BY <1>3

\* A loop passes positions without a gap: counting them gives the last one.
LEMMA Passed ==
  ASSUME NEW m \in Nat, NEW T \in SUBSET (1..m), \A i \in T, j \in 1..m : j <= i => j \in T
  PROVE  Cardinality(T) \in 0..m /\ T = 1..Cardinality(T)
<1>1. CASE T = 1..m
  <2>1. Cardinality(1..m) = m
    <3>1. Cardinality(1..m) = IF 1 > m THEN 0 ELSE m - 1 + 1
      BY FS_Interval
    <3> QED BY <3>1
  <2> QED BY <1>1, <2>1
<1>2. CASE T # 1..m
  <2>1. (1..m) \ T # {} /\ (1..m) \ T \in SUBSET Nat
    <3>1. 1..m \in SUBSET Nat
      OBVIOUS
    <3>2. \E i \in 1..m : i \notin T
      BY <1>2, Zenon
    <3> QED BY <3>1, <3>2, Zenon
  <2>2. PICK e \in (1..m) \ T : \A i \in (1..m) \ T : e <= i
    BY <2>1, Least
  <2>3. T = 1..(e - 1)
    <3>1. ASSUME NEW i \in T PROVE i \in 1..(e - 1)
      <4>1. i \in 1..m /\ e \in 1..m /\ ~(e <= i)
        BY <2>2
      <4> QED BY <4>1
    <3>2. ASSUME NEW i \in 1..(e - 1) PROVE i \in T
      <4>1. i \in 1..m /\ ~(e <= i)
        BY <2>2
      <4> QED BY <2>2, <4>1
    <3> QED BY <3>1, <3>2
  <2>4. Cardinality(1..(e - 1)) = e - 1
    <3>1. e - 1 \in Int /\ e - 1 >= 0
      BY <2>2
    <3>2. Cardinality(1..(e - 1)) = IF 1 > e - 1 THEN 0 ELSE (e - 1) - 1 + 1
      BY <3>1, FS_Interval
    <3> QED BY <3>1, <3>2
  <2>5. e - 1 \in 0..m
    BY <2>2
  <2> QED BY <2>3, <2>4, <2>5
<1> QED BY <1>1, <1>2

\* The loop stops right behind the first c after position k, or at its limit.
LEMMA PopUntilStops ==
  ASSUME NEW c, NEW limit \in Nat, NEW k \in 0..limit
  PROVE  LET n == PopUntil(c, k, limit) IN
         /\ n \in k..limit
         /\ \A j \in (k + 1)..(n - 1) : Contents[j] # c
         /\ n < limit => k < n /\ Contents[n] = c
<1> DEFINE T == {i \in 1..limit : \A j \in (k + 1)..(i - 1) : Contents[j] # c}
           n == Cardinality(T)
<1>1. T \in SUBSET (1..limit)
  OBVIOUS
<1>2. ASSUME NEW i \in T, NEW j \in 1..limit, j <= i PROVE j \in T
  <2>1. \A l \in (k + 1)..(j - 1) : l \in (k + 1)..(i - 1)
    BY <1>1, <1>2
  <2> QED BY <1>2, <2>1
<1>3. n \in 0..limit /\ T = 1..n
  <2> HIDE DEF T
  <2> QED BY <1>1, <1>2, Passed
<1>4. \A i \in 1..limit : i \in T <=> i \in 1..n
  BY <1>3
<1>5. \A i \in 1..limit : i \in 1..n <=> \A j \in (k + 1)..(i - 1) : Contents[j] # c
  BY <1>4
<1> HIDE DEF n
<1>6. n >= k
  <2>1. CASE k = 0
    BY <1>3, <2>1
  <2>2. CASE k # 0
    <3>1. k \in 1..limit /\ (k + 1)..(k - 1) = {}
      BY <2>2
    <3>2. k \in 1..n
      BY <1>5, <3>1
    <3> QED BY <1>3, <3>2
  <2> QED BY <2>1, <2>2
<1>7. \A j \in (k + 1)..(n - 1) : Contents[j] # c
  <2>1. CASE n = 0
    <3>1. (k + 1)..(n - 1) = {}
      BY <2>1
    <3> QED BY <3>1
  <2>2. CASE n # 0
    <3>1. n \in 1..limit /\ n \in 1..n
      BY <1>3, <2>2
    <3> QED BY <1>5, <3>1
  <2> QED BY <2>1, <2>2
<1>8. ASSUME n < limit PROVE k < n /\ Contents[n] = c
  <2>1. n + 1 \in 1..limit /\ n + 1 \notin 1..n /\ (n + 1) - 1 = n
    BY <1>3, <1>8
  <2>2. PICK j \in (k + 1)..n : Contents[j] = c
    BY <1>5, <2>1
  <2>3. ~(j \in (k + 1)..(n - 1))
    BY <1>7, <2>2
  <2>4. j = n /\ k < n
    BY <1>3, <2>2, <2>3
  <2> QED BY <2>2, <2>4
<1>9. n = PopUntil(c, k, limit)
  BY DEF n, PopUntil
<1>10. n \in k..limit
  BY <1>3, <1>6
<1> QED BY <1>7, <1>8, <1>9, <1>10

\* ringbuffer_write stores everything or nothing.
LEMMA WholeWrite ==
  ASSUME Inv, NEW dat \in Dat, ringbuffer_write(dat)
  PROVE  \/ ret' = Len(dat) /\ Contents' = Contents \o dat
         \/ ret' = 0 /\ Contents' = Contents /\ Len(dat) > Cap - len
<1> USE SizeMaxNat, CapFact
<1>1. dat \in Seq(Byte) /\ Len(dat) \in 0..SizeMax /\ Len(dat) \in Nat /\ len \in Nat /\ Cap \in Nat
  BY DatAssumption DEF Inv, TypeOK
<1>2. CASE Cap - len < Len(dat)
  <2>1. NoEffect(0)
    BY <1>2 DEF ringbuffer_write
  <2>2. ret' = 0 /\ Contents' = Contents
    BY <2>1 DEF NoEffect, Contents
  <2> QED BY <1>1, <1>2, <2>2
<1>3. CASE ~(Cap - len < Len(dat))
  <2>1. Store(dat, Len(dat))
    BY <1>3 DEF ringbuffer_write, ringbuffer_try_write
  <2>2. ret' = Smaller(Len(dat), Cap - len) /\ Contents' = Contents \o SubSeq(dat, 1, ret')
    <3>1. Len(dat) <= Len(dat)
      BY <1>1
    <3> QED BY <1>1, <2>1, <3>1, StoreAppends
  <2>3. ret' = Len(dat)
    BY <1>1, <1>3, <2>2 DEF Smaller
  <2>4. SubSeq(dat, 1, Len(dat)) = dat
    BY <1>1
  <2> QED BY <2>2, <2>3, <2>4
<1> QED BY <1>2, <1>3

\* ringbuffer_try_read_util ends behind the first terminator.
LEMMA WholeUntil ==
  ASSUME Inv, NEW n \in Size, NEW term \in Byte, ringbuffer_try_read_util(TRUE, n, term)
  PROVE  /\ \A i \in 1..(ret' - 1) : got'[i] # term
         /\ \/ ret' = n
            \/ len' = 0
            \/ ret' > 0 /\ got'[ret'] = term
<1> USE SizeMaxNat, CapFact
<1> DEFINE m == Smaller(n, len)
           k == PopUntil(term, 0, m)
<1>1. len \in Nat /\ n \in Nat /\ len <= SizeMax
  BY SizeAssumption DEF Inv, TypeOK
<1>2. m \in Nat /\ m <= len /\ (m = n \/ m = len) /\ 0 \in 0..m
  BY <1>1 DEF Smaller
<1>3. Take(k, k) /\ ret' = k
  BY DEF ringbuffer_try_read_util
<1> HIDE DEF m
<1>4. /\ k \in 0..m
      /\ \A j \in (0 + 1)..(k - 1) : Contents[j] # term
      /\ k < m => 0 < k /\ Contents[k] = term
  BY <1>2, PopUntilStops
<1> HIDE DEF k
<1>5. k \in 0..len /\ k \in 0..k /\ k \in 0..SizeMax /\ k \in Nat
  BY <1>1, <1>2, <1>4
<1>6. got' = SubSeq(Contents, 1, k) /\ len' = len - k
  BY <1>3, <1>5, TakeRemoves DEF Take
<1>7. \A i \in 1..k : got'[i] = Contents[i]
  <2>1. Contents \in Seq(Byte) /\ Len(Contents) = len
    BY ContentsType
  <2> QED BY <1>5, <1>6, <2>1
<1>8. ASSUME NEW i \in 1..(ret' - 1) PROVE got'[i] # term
  <2>1. i \in (0 + 1)..(k - 1) /\ i \in 1..k
    BY <1>3, <1>5
  <2> QED BY <1>4, <1>7, <2>1
<1>9. CASE k < m
  <2>1. k \in 1..k
    BY <1>4, <1>5, <1>9
  <2> QED BY <1>3, <1>4, <1>7, <1>8, <1>9, <2>1
<1>10. CASE k = m
  <2>1. k = n \/ len' = 0
    BY <1>1, <1>2, <1>6, <1>10
  <2> QED BY <1>3, <1>8, <2>1
<1> QED BY <1>2, <1>4, <1>9, <1>10

\* The positions compared with the prefix: the last may differ, no other does.
LEMMA Compared ==
  ASSUME NEW prefix, NEW m \in Nat
  PROVE  LET compared == Cardinality({i \in 1..m : \A j \in 1..(i - 1) : Contents[j] = prefix[j]}) IN
         /\ compared \in 0..m
         /\ \A j \in 1..(compared - 1) : Contents[j] = prefix[j]
         /\ compared < m => \E j \in 1..compared : Contents[j] # prefix[j]
<1> DEFINE T == {i \in 1..m : \A j \in 1..(i - 1) : Contents[j] = prefix[j]}
           n == Cardinality(T)
<1>1. T \in SUBSET (1..m)
  OBVIOUS
<1>2. ASSUME NEW i \in T, NEW j \in 1..m, j <= i PROVE j \in T
  <2>1. \A l \in 1..(j - 1) : l \in 1..(i - 1)
    BY <1>1, <1>2
  <2> QED BY <1>2, <2>1
<1>3. n \in 0..m /\ T = 1..n
  <2> HIDE DEF T
  <2> QED BY <1>1, <1>2, Passed
<1>4. \A i \in 1..m : i \in T <=> i \in 1..n
  BY <1>3
<1>5. \A i \in 1..m : i \in 1..n <=> \A j \in 1..(i - 1) : Contents[j] = prefix[j]
  BY <1>4
<1> HIDE DEF n
<1>6. \A j \in 1..(n - 1) : Contents[j] = prefix[j]
  <2>1. CASE n = 0
    <3>1. 1..(n - 1) = {}
      BY <2>1
    <3> QED BY <3>1
  <2>2. CASE n # 0
    <3>1. n \in 1..m /\ n \in 1..n
      BY <1>3, <2>2
    <3> QED BY <1>5, <3>1
  <2> QED BY <2>1, <2>2
<1>7. ASSUME n < m PROVE \E j \in 1..n : Contents[j] # prefix[j]
  <2>1. n + 1 \in 1..m /\ n + 1 \notin 1..n /\ (n + 1) - 1 = n
    BY <1>3, <1>7
  <2> QED BY <1>5, <2>1
<1> QED BY <1>3, <1>6, <1>7 DEF n

\* Sequences of the same length with the same elements are equal.
LEMMA SameSeq ==
  ASSUME NEW S, NEW T, NEW a \in Seq(S), NEW b \in Seq(T), Len(a) = Len(b),
         \A i \in 1..Len(a) : a[i] = b[i]
  PROVE  a = b
<1>1. DOMAIN a = 1..Len(a) /\ DOMAIN b = 1..Len(a)
  OBVIOUS
<1>2. a = [i \in DOMAIN a |-> a[i]] /\ b = [i \in DOMAIN b |-> b[i]]
  OBVIOUS
<1> QED BY <1>1, <1>2

\* The prefix test answers truly and takes one string, matched or not.
LEMMA WholeString ==
  ASSUME Inv, NEW prefix \in Prefix, NEW dst \in BOOLEAN, NEW size \in Size,
         ringbuffer_read_string_and_is_with_prefix(prefix, dst, size)
  PROVE  /\ ret' = 1 <=> /\ Len(prefix) <= len
                         /\ SubSeq(Contents, 1, Len(prefix)) = prefix
         /\ \E e \in 0..len :
              /\ \A i \in 1..(e - 1) : Contents[i] # NUL
              /\ e = len \/ (e > 0 /\ Contents[e] = NUL)
              /\ Contents' = SubSeq(Contents, e + 1, len)
<1> USE SizeMaxNat, CapFact
<1> DEFINE p == Len(prefix)
           m == Smaller(p, len)
           compared == Cardinality({i \in 1..m : \A j \in 1..(i - 1) : Contents[j] = prefix[j]})
           matched == \A i \in 1..compared : Contents[i] = prefix[i]
           chrIsNul == compared > 0 /\ Contents[compared] = NUL
           e == IF (matched /\ len < p) \/ chrIsNul THEN compared ELSE PopUntil(NUL, compared, len)
           k == IF dst THEN Smaller(e, size) ELSE 0
<1>1. Take(e, k) /\ ret' = IF matched /\ len >= p THEN 1 ELSE 0
  BY DEF ringbuffer_read_string_and_is_with_prefix
<1>2. /\ len \in Nat /\ len <= SizeMax /\ prefix \in Seq(Byte \ {NUL}) /\ p \in Nat /\ size \in Nat
      /\ \A i \in 1..p : prefix[i] # NUL
  BY PrefixAssumption, SizeAssumption DEF Inv, TypeOK
<1>3. Contents \in Seq(Byte) /\ Len(Contents) = len
  BY ContentsType
<1>4. m \in Nat /\ m <= len /\ m <= p /\ (len < p => m = len) /\ (len >= p => m = p)
  BY <1>2 DEF Smaller
<1> HIDE DEF p, m
<1>5. /\ compared \in 0..m
      /\ \A j \in 1..(compared - 1) : Contents[j] = prefix[j]
      /\ compared < m => \E j \in 1..compared : Contents[j] # prefix[j]
  BY <1>4, Compared
<1> HIDE DEF compared
<1>6. compared \in 0..len /\ compared \in Nat /\ \A j \in 1..(compared - 1) : Contents[j] # NUL
  <2>1. compared \in 0..len /\ compared \in Nat /\ \A j \in 1..(compared - 1) : j \in 1..p
    BY <1>2, <1>4, <1>5
  <2> QED BY <1>2, <1>5, <2>1
<1>7. matched => compared = m
  BY <1>4, <1>5
<1>8. /\ e \in 0..len
      /\ \A i \in 1..(e - 1) : Contents[i] # NUL
      /\ e = len \/ (e > 0 /\ Contents[e] = NUL)
  <2>1. CASE matched /\ len < p
    <3>1. e = compared /\ compared = len
      BY <1>4, <1>7, <2>1
    <3> QED BY <1>6, <3>1
  <2>2. CASE chrIsNul
    <3>1. e = compared
      BY <2>2
    <3> QED BY <1>6, <2>2, <3>1
  <2>3. CASE ~((matched /\ len < p) \/ chrIsNul)
    <3>1. e = PopUntil(NUL, compared, len)
      BY <2>3
    <3>2. /\ e \in compared..len
          /\ \A j \in (compared + 1)..(e - 1) : Contents[j] # NUL
          /\ e < len => compared < e /\ Contents[e] = NUL
      <4>1. PopUntil(NUL, compared, len) \in compared..len
        BY <1>2, <1>6, PopUntilStops
      <4>2. \A j \in (compared + 1)..(PopUntil(NUL, compared, len) - 1) : Contents[j] # NUL
        BY <1>2, <1>6, PopUntilStops
      <4>3. PopUntil(NUL, compared, len) < len =>
              compared < PopUntil(NUL, compared, len) /\ Contents[PopUntil(NUL, compared, len)] = NUL
        BY <1>2, <1>6, PopUntilStops
      <4> HIDE DEF e
      <4> QED BY <3>1, <4>1, <4>2, <4>3
    <3>3. compared > 0 => Contents[compared] # NUL
      BY <2>3
    <3> HIDE DEF e
    <3>4. ASSUME NEW i \in 1..(e - 1) PROVE Contents[i] # NUL
      <4>1. i \in 1..(compared - 1) \/ (i = compared /\ compared > 0) \/ i \in (compared + 1)..(e - 1)
        BY <1>6, <3>2
      <4> QED BY <1>6, <3>2, <3>3, <4>1
    <3>5. e \in 0..len /\ (e = len \/ (e > 0 /\ Contents[e] = NUL))
      BY <1>2, <1>6, <3>2
    <3> QED BY <3>4, <3>5
  <2> QED BY <2>1, <2>2, <2>3
<1> HIDE DEF e
<1>9. Contents' = SubSeq(Contents, e + 1, len)
  <2>1. k \in 0..e
    BY <1>2, <1>8 DEF Smaller
  <2>2. ret' \in 0..SizeMax
    BY <1>1
  <2> HIDE DEF k
  <2>3. Contents' = SubSeq(Contents, e + 1, Len(Contents))
    BY <1>1, <1>8, <2>1, <2>2, TakeRemoves
  <2> QED BY <1>3, <2>3
<1>10. ret' = 1 <=> (matched /\ len >= p)
  BY <1>1
<1>11. ASSUME len >= p PROVE matched <=> SubSeq(Contents, 1, p) = prefix
  <2>1. m = p
    BY <1>4, <1>11
  <2>2. SubSeq(Contents, 1, p) \in Seq(Byte) /\ Len(SubSeq(Contents, 1, p)) = p
        /\ \A i \in 1..p : SubSeq(Contents, 1, p)[i] = Contents[i]
    BY <1>2, <1>3, <1>11
  <2>3. ASSUME matched PROVE SubSeq(Contents, 1, p) = prefix
    <3>1. compared = p
      BY <1>7, <2>1, <2>3
    <3>2. \A i \in 1..p : SubSeq(Contents, 1, p)[i] = prefix[i]
      BY <2>2, <2>3, <3>1
    <3> QED BY <1>2, <2>2, <3>2, SameSeq DEF p
  <2>4. ASSUME SubSeq(Contents, 1, p) = prefix PROVE matched
    <3>1. \A i \in 1..compared : i \in 1..p
      BY <1>2, <1>5, <2>1
    <3> QED BY <2>2, <2>4, <3>1
  <2> QED BY <2>3, <2>4
<1>12. ret' = 1 <=> (p <= len /\ SubSeq(Contents, 1, p) = prefix)
  BY <1>2, <1>10, <1>11
<1> QED BY <1>8, <1>9, <1>12 DEF p

\* For every capacity, byte set and set of arguments: a write stores all of the
\* caller's bytes or none, a string read takes exactly one string whether or
\* not the prefix matched, and a read up to a terminator stops behind it.
THEOREM WholeCalls == Spec => CallsWhole
<1> DEFINE A == \A dat \in Dat : ringbuffer_write(dat) =>
                  \/ ret' = Len(dat) /\ Contents' = Contents \o dat
                  \/ ret' = 0 /\ Contents' = Contents /\ Len(dat) > Cap - len
           B == \A prefix \in Prefix, dst \in BOOLEAN, n \in Size :
                  ringbuffer_read_string_and_is_with_prefix(prefix, dst, n) =>
                    /\ ret' = 1 <=> /\ Len(prefix) <= len
                                    /\ SubSeq(Contents, 1, Len(prefix)) = prefix
                    /\ \E e \in 0..len :
                         /\ \A i \in 1..(e - 1) : Contents[i] # NUL
                         /\ e = len \/ (e > 0 /\ Contents[e] = NUL)
                         /\ Contents' = SubSeq(Contents, e + 1, len)
           C == \A n \in Size, term \in Byte : ringbuffer_try_read_util(TRUE, n, term) =>
                  /\ \A i \in 1..(ret' - 1) : got'[i] # term
                  /\ \/ ret' = n
                     \/ len' = 0
                     \/ ret' > 0 /\ got'[ret'] = term
<1>1. Inv => A /\ B /\ C
  BY WholeWrite, WholeString, WholeUntil
<1>2. Spec => []Inv
  BY InitInv, StepInv, PTL DEF Spec
<1>3. (WriteAllOrNothing <=> [][A]_vars) /\ (OneStringPerCall <=> [][B]_vars) /\ (StopsAtTerm <=> [][C]_vars)
  BY DEF WriteAllOrNothing, OneStringPerCall, StopsAtTerm
<1>4. Inv => [A]_vars /\ [B]_vars /\ [C]_vars
  BY <1>1
<1> HIDE DEF A, B, C
<1>5. []Inv => [][A]_vars /\ [][B]_vars /\ [][C]_vars
  BY <1>4, PTL
<1> QED BY <1>2, <1>3, <1>5, PTL DEF CallsWhole
=============================================================================
