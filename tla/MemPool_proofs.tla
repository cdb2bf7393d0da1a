--------------------------- MODULE MemPool_proofs ---------------------------
(***************************************************************************)
(* Memory safety of the allocator, for any buffers, header size, requests  *)
(* and width of the size type; and that it keeps its chain sound and loses *)
(* no byte while the sizes it adds up do not wrap.                         *)
(***************************************************************************)
EXTENDS MemPool, FiniteSetTheorems, WellFoundedInduction, TLAPS

PairwiseDisjoint(S) == \A s, t \in S : s # t => Disjoint(s, t)
Covered(R, S) == \A r \in R : \A x \in Bytes(r) : \E s \in S : x \in Bytes(s)

\* The constants are natural numbers.
LEMMA SizesNat == Header \in Nat /\ SizeMod \in Nat \ {0} /\ Buffers \subseteq Segment
BY SizeAssumption, BufferAssumption

\* Reducing a sum of sizes to 16 bits never makes it larger.
LEMMA ModFacts ==
  ASSUME NEW n \in Nat
  PROVE  n % SizeMod \in Nat /\ n % SizeMod <= n
BY SizeAssumption

\* Joining a segment to its successor invents no byte and makes no overlap.
LEMMA CombineFacts ==
  ASSUME NEW S \in SUBSET Segment, NEW seg \in Segment, PairwiseDisjoint(S),
         \A s \in S : Disjoint(s, seg) /\ Disjoint(seg, s)
  PROVE  LET R == try_combine_with_next(S, seg)
         IN  R \subseteq Segment /\ PairwiseDisjoint(R) /\ Covered(R, S \cup {seg})
<1> DEFINE nexts == {n \in S : n.addr = End(seg)}
           next == CHOOSE n \in nexts : TRUE
           j == [addr |-> seg.addr, size |-> (seg.size + next.size) % SizeMod]
           R == try_combine_with_next(S, seg)
<1>1. CASE nexts = {}
  <2>1. R = S \cup {seg}
    BY <1>1 DEF try_combine_with_next
  <2> HIDE DEF R
  <2>2. PairwiseDisjoint(R)
    BY <2>1 DEF PairwiseDisjoint
  <2>3. Covered(R, S \cup {seg})
    BY <2>1 DEF Covered
  <2> QED BY <2>1, <2>2, <2>3 DEF R
<1>2. CASE nexts # {}
  <2>1. R = (S \ {next}) \cup {j}
    BY <1>2 DEF try_combine_with_next
  <2>2. next \in S /\ next.addr = seg.addr + seg.size
    BY <1>2 DEF End
  <2> HIDE DEF next, nexts
  <2>3. /\ next.addr \in Nat /\ next.size \in Nat /\ seg.addr \in Nat /\ seg.size \in Nat
        /\ seg.size + next.size \in Nat
    BY <2>2 DEF Segment
  <2>4. /\ (seg.size + next.size) % SizeMod \in Nat
        /\ (seg.size + next.size) % SizeMod <= seg.size + next.size
    BY <2>3, ModFacts
  <2>5. j \in Segment
    BY <2>3, <2>4 DEF Segment
  <2>6. \A x \in Bytes(j) : x \in Bytes(seg) \/ x \in Bytes(next)
    BY <2>2, <2>3, <2>4 DEF Bytes, End
  <2> HIDE DEF j, R
  <2>7. ASSUME NEW s \in S, s # next PROVE Disjoint(s, j) /\ Disjoint(j, s)
    <3>1. Disjoint(s, next) /\ Disjoint(next, s) /\ Disjoint(s, seg) /\ Disjoint(seg, s)
      BY <2>2, <2>7 DEF PairwiseDisjoint
    <3> QED BY <2>6, <3>1 DEF Disjoint
  <2>8. PairwiseDisjoint(R)
    BY <2>1, <2>7 DEF PairwiseDisjoint
  <2>9. Covered(R, S \cup {seg})
    BY <2>1, <2>2, <2>6 DEF Covered
  <2>10. R \subseteq Segment
    BY <2>1, <2>5
  <2> QED BY <2>8, <2>9, <2>10 DEF R
<1> QED BY <1>1, <1>2

\* The same for add_segment's place in the chain, joined on both sides.
LEMMA InsertedFacts ==
  ASSUME NEW S \in SUBSET Segment, NEW seg \in Segment, PairwiseDisjoint(S),
         \A s \in S : Disjoint(s, seg) /\ Disjoint(seg, s)
  PROVE  /\ Inserted(S, seg) \subseteq Segment
         /\ PairwiseDisjoint(Inserted(S, seg))
         /\ Covered(Inserted(S, seg), S \cup {seg})
<1> DEFINE S1 == try_combine_with_next(S, seg)
           pres == {p \in S1 : End(p) = seg.addr}
           pre == CHOOSE p \in pres : TRUE
           S2 == S1 \ {pre}
           R == try_combine_with_next(S2, pre)
<1>1. S1 \subseteq Segment /\ PairwiseDisjoint(S1) /\ Covered(S1, S \cup {seg})
  BY CombineFacts
<1>2. CASE pres = {}
  <2>1. Inserted(S, seg) = S1
    BY <1>2 DEF Inserted
  <2> QED BY <1>1, <2>1
<1>3. CASE pres # {}
  <2>1. Inserted(S, seg) = R
    BY <1>3 DEF Inserted
  <2>2. pre \in S1
    BY <1>3
  <2> HIDE DEF pre, pres, S1
  <2>3. /\ S2 \in SUBSET Segment /\ pre \in Segment /\ PairwiseDisjoint(S2)
        /\ \A s \in S2 : Disjoint(s, pre) /\ Disjoint(pre, s)
    BY <1>1, <2>2 DEF PairwiseDisjoint
  <2> HIDE DEF S2
  <2>4. R \subseteq Segment /\ PairwiseDisjoint(R) /\ Covered(R, S2 \cup {pre})
    BY <2>3, CombineFacts
  <2> HIDE DEF R
  <2>5. S2 \cup {pre} \subseteq S1
    BY <2>2 DEF S2
  <2>6. Covered(R, S \cup {seg})
    BY <1>1, <2>4, <2>5 DEF Covered
  <2> QED BY <2>1, <2>4, <2>6
<1> QED BY <1>2, <1>3

-----------------------------------------------------------------------------
MemInv == TypeOK /\ NoOverlap

\* Disjointness is symmetric.
LEMMA DisjointSym == \A s, t : Disjoint(s, t) => Disjoint(t, s)
BY DEF Disjoint

\* A segment that overlaps nothing may be put into the chain.
LEMMA AddSegment ==
  ASSUME MemInv, NEW seg \in Segment, NEW held \in {"NULL", "POISON"},
         add_segment(seg, held),
         added \subseteq added', added' \subseteq Buffers, live' \subseteq live, fault' = fault,
         \A s \in free : Disjoint(s, seg),
         \A m \in live' : Disjoint(seg, m),
         \A x \in Bytes(seg) : \E b \in added' : x \in Bytes(b)
  PROVE  MemInv'
<1>1. /\ free \in SUBSET Segment /\ PairwiseDisjoint(free)
      /\ \A s \in free : Disjoint(s, seg) /\ Disjoint(seg, s)
  BY DisjointSym DEF MemInv, TypeOK, NoOverlap, PairwiseDisjoint
<1>2. free' \subseteq Segment /\ PairwiseDisjoint(free') /\ Covered(free', free \cup {seg})
  BY <1>1, InsertedFacts DEF add_segment
<1>3. TypeOK'
  <2>1. tail' \in {"NULL", "POISON"}
    BY DEF add_segment, MemInv, TypeOK
  <2> QED BY <1>2, <2>1 DEF MemInv, TypeOK
<1>4. ASSUME NEW r \in free', NEW m \in live' PROVE Disjoint(r, m)
  <2>1. \A s \in free \cup {seg} : Disjoint(s, m)
    BY <1>4 DEF MemInv, NoOverlap
  <2> QED BY <1>2, <2>1 DEF Covered, Disjoint
<1>5. ASSUME NEW r \in free' \cup live', NEW x \in Bytes(r)
      PROVE  \E b \in added' : x \in Bytes(b)
  <2>1. \A s \in free \cup {seg} : \A y \in Bytes(s) : \E b \in added' : y \in Bytes(b)
    BY DEF MemInv, NoOverlap
  <2>2. CASE r \in free'
    BY <1>2, <1>5, <2>1, <2>2 DEF Covered
  <2>3. CASE r \in live'
    BY <1>5, <2>3 DEF MemInv, NoOverlap
  <2> QED BY <2>2, <2>3
<1>6. NoOverlap'
  <2>1. \A s, t \in free' : s # t => Disjoint(s, t)
    BY <1>2 DEF PairwiseDisjoint
  <2>2. \A m, n \in live' : m # n => Disjoint(m, n)
    BY DEF MemInv, NoOverlap
  <2> QED BY <1>4, <1>5, <2>1, <2>2 DEF NoOverlap
<1> QED BY <1>3, <1>6 DEF MemInv

\* mem_pool_add_buffer brings in bytes no segment has.
LEMMA AddBufferSafe ==
  ASSUME MemInv, NEW b \in Buffers, mem_pool_add_buffer(b)
  PROVE  MemInv'
<1>1. /\ b \notin added /\ added' = added \cup {b} /\ add_segment(b, "NULL")
      /\ live' = live /\ fault' = fault /\ b \in Segment /\ added' \subseteq Buffers
  BY SizesNat DEF mem_pool_add_buffer, MemInv, TypeOK
<1>2. \A c \in added : Disjoint(c, b)
  BY <1>1, BufferAssumption DEF MemInv, TypeOK
<1>3. \A s \in free \cup live : Disjoint(s, b)
  BY <1>2 DEF MemInv, NoOverlap, Disjoint
<1>4. \A m \in live' : Disjoint(b, m)
  BY <1>1, <1>3, DisjointSym
<1>5. \A x \in Bytes(b) : \E c \in added' : x \in Bytes(c)
  BY <1>1
<1> QED BY <1>1, <1>3, <1>4, <1>5, AddSegment

\* mem_pool_free moves a block's bytes back to the chain.
LEMMA FreeSafe ==
  ASSUME MemInv, NEW m \in live, mem_pool_free(m)
  PROVE  MemInv'
<1> DEFINE seg == [addr |-> m.addr, size |-> m.size]
<1>1. /\ live' = live \ {m} /\ add_segment(seg, "POISON")
      /\ added' = added /\ fault' = fault
  BY DEF mem_pool_free
<1>2. seg \in Segment /\ Bytes(seg) = Bytes(m)
  BY DEF MemInv, TypeOK, Segment, Bytes, End
<1> HIDE DEF seg
<1>3. \A s \in free : Disjoint(s, seg)
  BY <1>2 DEF MemInv, NoOverlap, Disjoint
<1>4. \A n \in live' : Disjoint(seg, n)
  BY <1>1, <1>2 DEF MemInv, NoOverlap, Disjoint
<1>5. \A x \in Bytes(seg) : \E b \in added' : x \in Bytes(b)
  BY <1>1, <1>2 DEF MemInv, NoOverlap
<1>6. added' \subseteq Buffers
  BY <1>1 DEF MemInv, TypeOK
<1> QED BY <1>1, <1>2, <1>3, <1>4, <1>5, <1>6, AddSegment

\* Carving one segment in two, or taking it whole and losing the rest.
LEMMA MallocSafe ==
  ASSUME MemInv, NEW r \in Requests, mem_pool_malloc(r)
  PROVE  MemInv'
<1> DEFINE size == TotalSize(r)
<1>1. size \in Nat
  <2>1. r + Header \in Nat
    BY RequestAssumption, SizesNat
  <2> QED BY <2>1, ModFacts DEF TotalSize
<1>2. CASE UNCHANGED <<free, tail, live>> /\ fault' = TRUE
  BY <1>2 DEF mem_pool_malloc, MemInv, TypeOK, NoOverlap
<1>3. ASSUME NEW seg \in free, seg.size >= size, splite(seg, size, r), fault' = fault,
             added' = added
      PROVE  MemInv'
  <2> HIDE DEF size
  <2>0. /\ seg.addr \in Nat /\ seg.size \in Nat /\ Header \in Nat
        /\ free \subseteq Segment
        /\ live \subseteq [addr : Nat, size : Nat, asked : Requests]
    BY SizesNat DEF MemInv, TypeOK, Segment
  <2>1. CASE seg.size > size + 2 * Header
    <3> DEFINE rest == [addr |-> seg.addr + size, size |-> seg.size - size]
               m == [addr |-> seg.addr, size |-> size, asked |-> r]
    <3>1. free' = (free \ {seg}) \cup {rest} /\ live' = live \cup {m} /\ tail' = tail
      BY <1>3, <2>1 DEF splite
    <3>2. rest \in Segment /\ m \in [addr : Nat, size : Nat, asked : Requests]
      BY <1>1, <1>3, <2>0 DEF Segment
    <3>3. /\ \A x \in Bytes(rest) : x \in Bytes(seg) /\ x \notin Bytes(m)
          /\ \A x \in Bytes(m) : x \in Bytes(seg) /\ x \notin Bytes(rest)
      BY <1>1, <1>3, <2>0 DEF Bytes, End
    <3> HIDE DEF rest, m
    <3>4. TypeOK'
      BY <1>3, <2>0, <3>1, <3>2 DEF MemInv, TypeOK
    <3>5. ASSUME NEW s \in free \ {seg}
          PROVE  /\ Disjoint(s, rest) /\ Disjoint(rest, s) /\ Disjoint(s, m)
      <4>1. Disjoint(s, seg) /\ Disjoint(seg, s)
        BY <1>3, <3>5 DEF MemInv, NoOverlap
      <4> QED BY <3>3, <4>1 DEF Disjoint
    <3>6. ASSUME NEW n \in live
          PROVE  Disjoint(n, m) /\ Disjoint(m, n) /\ Disjoint(rest, n)
      <4>1. Disjoint(seg, n)
        BY <1>3, <3>6 DEF MemInv, NoOverlap
      <4> QED BY <3>3, <4>1 DEF Disjoint
    <3>7. Disjoint(rest, m)
      BY <3>3 DEF Disjoint
    <3>8. \A s \in free' \cup live' : \A x \in Bytes(s) : \E b \in added' : x \in Bytes(b)
      <4>1. \A x \in Bytes(seg) : \E b \in added : x \in Bytes(b)
        BY <1>3 DEF MemInv, NoOverlap
      <4>2. \A s \in free \cup live : \A x \in Bytes(s) : \E b \in added : x \in Bytes(b)
        BY DEF MemInv, NoOverlap
      <4> QED BY <1>3, <3>1, <3>3, <4>1, <4>2
    <3>9. \A s, t \in free' : s # t => Disjoint(s, t)
      BY <3>1, <3>5 DEF MemInv, NoOverlap
    <3>10. \A n, o \in live' : n # o => Disjoint(n, o)
      BY <3>1, <3>6 DEF MemInv, NoOverlap
    <3>11. \A s \in free', n \in live' : Disjoint(s, n)
      BY <3>1, <3>5, <3>6, <3>7 DEF MemInv, NoOverlap
    <3> QED BY <3>4, <3>8, <3>9, <3>10, <3>11 DEF MemInv, NoOverlap
  <2>2. CASE ~(seg.size > size + 2 * Header)
    <3> DEFINE m == [addr |-> seg.addr, size |-> seg.size, asked |-> r]
    <3>1. /\ free' = {s \in free : s.addr < seg.addr}
          /\ live' = live \cup {m} /\ tail' = "NULL"
      BY <1>3, <2>2 DEF splite
    <3>2. /\ m \in [addr : Nat, size : Nat, asked : Requests]
          /\ Bytes(m) = Bytes(seg)
      BY <2>0 DEF Bytes, End
    <3>3. free' \subseteq free /\ seg \notin free'
      BY <2>0, <3>1
    <3> HIDE DEF m
    <3>4. TypeOK'
      BY <1>3, <2>0, <3>1, <3>2, <3>3 DEF MemInv, TypeOK
    <3>5. \A s \in free' : Disjoint(s, m)
      BY <1>3, <3>2, <3>3 DEF MemInv, NoOverlap, Disjoint
    <3>6. \A n \in live : Disjoint(n, m) /\ Disjoint(m, n)
      BY <1>3, <3>2 DEF MemInv, NoOverlap, Disjoint
    <3>7. \A s \in free' \cup live' : \A x \in Bytes(s) : \E b \in added' : x \in Bytes(b)
      <4>1. \A s \in free \cup live : \A x \in Bytes(s) : \E b \in added : x \in Bytes(b)
        BY DEF MemInv, NoOverlap
      <4> QED BY <1>3, <3>1, <3>2, <3>3, <4>1
    <3>8. NoOverlap'
      BY <3>1, <3>3, <3>5, <3>6, <3>7 DEF MemInv, NoOverlap
    <3> QED BY <3>4, <3>8 DEF MemInv
  <2> QED BY <2>1, <2>2
<1> QED BY <1>2, <1>3 DEF mem_pool_malloc

\* MemInv is inductive.
LEMMA MemStep == MemInv /\ [Next]_vars => MemInv'
<1> SUFFICES ASSUME MemInv, [Next]_vars PROVE MemInv'
  OBVIOUS
<1>1. CASE Walk
  BY <1>1 DEF Walk, MemInv, TypeOK, NoOverlap
<1>2. CASE UNCHANGED vars
  BY <1>2 DEF vars, MemInv, TypeOK, NoOverlap
<1> QED BY <1>1, <1>2, AddBufferSafe, MallocSafe, FreeSafe DEF Next

\* The empty pool satisfies MemInv.
LEMMA MemInit == Init => MemInv
BY DEF Init, MemInv, TypeOK, NoOverlap

\* However allocations and frees interleave, also after the chain has been
\* cut or poisoned, mem_pool.c never hands out a byte twice, nor one it was
\* not given.
THEOREM MemorySafety == Spec => []NoOverlap
<1>1. MemInv => NoOverlap
  BY DEF MemInv
<1> QED BY MemInit, MemStep, <1>1, PTL DEF Spec

\* A block is at least as large as its request and header, whichever way splite took it.
LEMMA LargeStep == MemInv /\ BlockLargeEnough /\ [Next]_vars => BlockLargeEnough'
<1> SUFFICES ASSUME MemInv, BlockLargeEnough, [Next]_vars PROVE BlockLargeEnough'
  OBVIOUS
<1>1. ASSUME NEW r \in Requests, mem_pool_malloc(r) PROVE BlockLargeEnough'
  <2>1. TotalSize(r) = r + Header /\ r \in Nat /\ Header \in Nat
    BY RequestAssumption, SizeAssumption DEF TotalSize
  <2>2. ASSUME NEW seg \in free, seg.size >= TotalSize(r), splite(seg, TotalSize(r), r)
        PROVE  BlockLargeEnough'
    <3>1. PICK n : /\ live' = live \cup {[addr |-> seg.addr, size |-> n, asked |-> r]}
                   /\ n >= TotalSize(r)
      <4>1. TotalSize(r) >= TotalSize(r)
        BY <2>1
      <4> QED BY <2>2, <4>1 DEF splite
    <3> QED BY <2>1, <3>1 DEF BlockLargeEnough
  <2>3. CASE live' = live
    BY <2>3 DEF BlockLargeEnough
  <2> QED BY <1>1, <2>2, <2>3 DEF mem_pool_malloc
<1>2. CASE \E b \in Buffers : mem_pool_add_buffer(b)
  BY <1>2 DEF mem_pool_add_buffer, BlockLargeEnough
<1>3. CASE \E m \in live : mem_pool_free(m)
  BY <1>3 DEF mem_pool_free, BlockLargeEnough
<1>4. CASE Walk \/ UNCHANGED vars
  BY <1>4 DEF Walk, vars, BlockLargeEnough
<1> QED BY <1>1, <1>2, <1>3, <1>4 DEF Next

\* No block is allocated at the start.
LEMMA LargeInit == Init => BlockLargeEnough
BY DEF Init, BlockLargeEnough

\* Every allocated segment has room for its header and for what was asked.
THEOREM LargeEnough == Spec => []BlockLargeEnough
BY MemInit, MemStep, LargeInit, LargeStep, PTL DEF Spec

-----------------------------------------------------------------------------
\* From the start of any buffer to the end of any other is less than a size can count.
Small == \A b, c \in Buffers : End(b) - c.addr < SizeMod

Thick(S) == \A s \in S : s.size >= Header
Apart(S) == \A s, t \in S : End(s) # t.addr
Within(S) == \A s, t \in S : End(t) - s.addr < SizeMod

\* Joining two segments whose sum does not wrap: the result starts where the first did and
\* ends where the second did.
LEMMA CombineCases ==
  ASSUME NEW S \in SUBSET Segment, NEW seg \in Segment, Within(S \cup {seg})
  PROVE  \/ /\ \A n \in S : n.addr # End(seg)
            /\ try_combine_with_next(S, seg) = S \cup {seg}
         \/ \E n \in S, j \in Segment :
              /\ n.addr = End(seg)
              /\ j.addr = seg.addr /\ End(j) = End(n) /\ j.size = seg.size + n.size
              /\ try_combine_with_next(S, seg) = (S \ {n}) \cup {j}
<1> DEFINE nexts == {n \in S : n.addr = End(seg)}
           next == CHOOSE n \in nexts : TRUE
           j == [addr |-> seg.addr, size |-> (seg.size + next.size) % SizeMod]
<1>1. CASE nexts = {}
  BY <1>1 DEF try_combine_with_next
<1>2. CASE nexts # {}
  <2>1. next \in nexts
    BY <1>2
  <2>2. try_combine_with_next(S, seg) = (S \ {next}) \cup {j}
    BY <1>2 DEF try_combine_with_next
  <2> HIDE DEF next
  <2>3. next \in S /\ next.addr = seg.addr + seg.size
    BY <2>1 DEF End
  <2>4. seg.addr \in Nat /\ seg.size \in Nat /\ next.addr \in Nat /\ next.size \in Nat
    BY <2>3 DEF Segment
  <2>5. next.addr + next.size - seg.addr < SizeMod
    <3>1. next \in S \cup {seg} /\ seg \in S \cup {seg}
      BY <2>3
    <3>2. End(next) - seg.addr < SizeMod
      BY <3>1 DEF Within
    <3> QED BY <2>4, <3>2, SizesNat DEF End
  <2>6. (seg.size + next.size) % SizeMod = seg.size + next.size
    <3>1. seg.size + next.size \in Nat /\ seg.size + next.size < SizeMod
      BY <2>3, <2>4, <2>5, SizesNat
    <3> QED BY <3>1, SizeAssumption
  <2>7. j \in Segment /\ j.addr = seg.addr /\ j.size = seg.size + next.size
    BY <2>4, <2>6 DEF Segment
  <2>8. End(j) = End(next)
    BY <2>3, <2>4, <2>7 DEF End
  <2> HIDE DEF j
  <2> QED BY <2>1, <2>2, <2>3, <2>7, <2>8
<1> QED BY <1>1, <1>2

\* A segment put into a joined chain leaves it joined, on both sides.
LEMMA InsertedChain ==
  ASSUME NEW S \in SUBSET Segment, NEW seg \in Segment, Within(S \cup {seg}),
         \A s \in S : Disjoint(s, seg), Thick(S), Apart(S), seg.size >= Header
  PROVE  Thick(Inserted(S, seg)) /\ Apart(Inserted(S, seg))
<1> DEFINE S1 == try_combine_with_next(S, seg)
           pres == {p \in S1 : End(p) = seg.addr}
           pre == CHOOSE p \in pres : TRUE
<1>0. Header \in Nat /\ Header >= 1
  BY SizeAssumption
<1>1. PICK T \in SUBSET S, g \in Segment :
        /\ S1 = T \cup {g} /\ g.addr = seg.addr /\ g.size >= Header
        /\ \A t \in T : End(g) # t.addr
        /\ \E e \in S \cup {seg} : End(g) = End(e)
  <2>1. CASE /\ \A n \in S : n.addr # End(seg)
             /\ S1 = S \cup {seg}
    BY <2>1
  <2>2. ASSUME NEW n \in S, NEW j \in Segment, n.addr = End(seg),
               j.addr = seg.addr, End(j) = End(n), j.size = seg.size + n.size,
               S1 = (S \ {n}) \cup {j}
        PROVE  \E T \in SUBSET S, g \in Segment :
                  /\ S1 = T \cup {g} /\ g.addr = seg.addr /\ g.size >= Header
                  /\ \A t \in T : End(g) # t.addr
                  /\ \E e \in S \cup {seg} : End(g) = End(e)
    <3>1. j.size >= Header
      BY <1>0, <2>2 DEF Segment
    <3>2. \A t \in S \ {n} : End(j) # t.addr
      BY <2>2 DEF Apart
    <3> WITNESS S \ {n} \in SUBSET S, j \in Segment
    <3> QED BY <2>2, <3>1, <3>2
  <2> HIDE DEF S1
  <2>3. \/ (\A n \in S : n.addr # End(seg)) /\ S1 = S \cup {seg}
        \/ \E n \in S, j \in Segment :
              /\ n.addr = End(seg)
              /\ j.addr = seg.addr /\ End(j) = End(n) /\ j.size = seg.size + n.size
              /\ S1 = (S \ {n}) \cup {j}
    BY CombineCases DEF S1
  <2> QED BY <2>1, <2>2, <2>3
<1>2. Inserted(S, seg) = IF pres = {} THEN S1 ELSE try_combine_with_next(S1 \ {pre}, pre)
  BY DEF Inserted
<1> HIDE DEF S1
<1>3. End(g) # g.addr /\ Thick(S1) /\ S1 \in SUBSET Segment
  BY <1>0, <1>1 DEF End, Segment, Thick
<1>4. \A s, t \in T : End(s) # t.addr
  BY DEF Apart
<1>5. CASE pres = {}
  <2>1. Apart(S1)
    BY <1>1, <1>3, <1>4, <1>5 DEF Apart
  <2> QED BY <1>2, <1>3, <1>5, <2>1
<1>6. CASE pres # {}
  <2>1. pre \in pres
    BY <1>6
  <2> HIDE DEF pre
  <2>2. pre \in T /\ End(pre) = seg.addr /\ pre # g
    BY <1>1, <1>3, <2>1
  <2>3. Within((S1 \ {pre}) \cup {pre})
    <3>1. \A s \in S1 : \E a \in S \cup {seg} : s.addr = a.addr
      BY <1>1
    <3>2. \A s \in S1 : \E e \in S \cup {seg} : End(s) = End(e)
      BY <1>1
    <3>3. Within(S1)
      BY <3>1, <3>2 DEF Within
    <3> QED BY <2>1, <3>3 DEF Within
  <2>4. pre \in Segment /\ S1 \ {pre} \in SUBSET Segment /\ g \in S1 \ {pre}
    BY <1>1, <1>3, <2>2
  <2>5. PICK n \in S1 \ {pre}, j \in Segment :
          /\ n.addr = End(pre)
          /\ j.addr = pre.addr /\ End(j) = End(n) /\ j.size = pre.size + n.size
          /\ try_combine_with_next(S1 \ {pre}, pre) = ((S1 \ {pre}) \ {n}) \cup {j}
    BY <1>1, <2>2, <2>3, <2>4, CombineCases
  <2>6. n = g
    <3>1. ASSUME n \in T PROVE FALSE
      <4>1. n \in S /\ n.addr = seg.addr /\ n.size >= Header /\ n \in Segment
        BY <2>2, <2>5, <3>1 DEF Thick
      <4>2. seg.addr \in Bytes(n) /\ seg.addr \in Bytes(seg)
        BY <1>0, <4>1 DEF Bytes, End, Segment
      <4> QED BY <4>1, <4>2 DEF Disjoint
    <3> QED BY <1>1, <2>5, <3>1
  <2>7. Inserted(S, seg) = ((S1 \ {pre}) \ {n}) \cup {j}
    BY <1>2, <1>6, <2>5
  <2>8. \A s \in Inserted(S, seg) : s \in T \/ s = j
    BY <1>1, <2>6, <2>7
  <2>9. j.size >= Header /\ End(j) # j.addr
    BY <1>0, <1>1, <2>4, <2>5, <2>6 DEF End, Segment
  <2>10. Thick(Inserted(S, seg))
    BY <2>8, <2>9 DEF Thick
  <2>11. \A t \in T : End(t) # j.addr /\ End(j) # t.addr
    BY <1>1, <1>4, <2>2, <2>5, <2>6
  <2>12. Apart(Inserted(S, seg))
    BY <1>4, <2>8, <2>9, <2>11 DEF Apart
  <2> QED BY <2>10, <2>12
<1> QED BY <1>5, <1>6

\* Segments inside the buffers given to the pool, none of them empty, are within reach.
LEMMA CoveredWithin ==
  ASSUME Small, NEW S \in SUBSET Segment, Thick(S), NEW B \in SUBSET Buffers,
         \A s \in S : \A x \in Bytes(s) : \E b \in B : x \in Bytes(b)
  PROVE  Within(S)
<1> SUFFICES ASSUME NEW s \in S, NEW t \in S PROVE End(t) - s.addr < SizeMod
  BY DEF Within
<1>1. s.addr \in Nat /\ t.addr \in Nat /\ s.size \in Nat /\ t.size \in Nat /\ s.size >= 1 /\ t.size >= 1
  BY SizeAssumption DEF Thick, Segment
<1>2. s.addr \in Bytes(s) /\ t.addr + t.size - 1 \in Bytes(t)
  BY <1>1 DEF Bytes, End
<1>3. PICK b \in B : s.addr \in Bytes(b)
  BY <1>2
<1>4. PICK c \in B : t.addr + t.size - 1 \in Bytes(c)
  BY <1>2
<1>5. b \in Buffers /\ c \in Buffers /\ b \in Segment /\ c \in Segment
  BY SizesNat
<1>6. b.addr \in Nat /\ b.size \in Nat /\ c.addr \in Nat /\ c.size \in Nat
  BY <1>5 DEF Segment
<1>7. c.addr + c.size - b.addr < SizeMod
  BY <1>5, <1>6, SizesNat DEF Small, End
<1>8. b.addr <= s.addr /\ t.addr + t.size - 1 <= c.addr + c.size - 1
  BY <1>1, <1>3, <1>4, <1>6 DEF Bytes, End
<1>9. t.addr + t.size - s.addr < SizeMod
  BY <1>1, <1>6, <1>7, <1>8, SizesNat
<1> QED BY <1>1, <1>9, SizesNat DEF End

\* What add_segment puts into a sound chain leaves it sound.
LEMMA AddSegmentChain ==
  ASSUME Small, MemInv, ChainSound, NEW seg \in Segment, NEW held, add_segment(seg, held),
         seg.size >= Header, added \subseteq added', added' \subseteq Buffers,
         \A s \in free : Disjoint(s, seg),
         \A x \in Bytes(seg) : \E b \in added' : x \in Bytes(b)
  PROVE  ChainSound'
<1>1. free \in SUBSET Segment /\ Thick(free) /\ Apart(free)
  BY DEF MemInv, TypeOK, ChainSound, HeaderFits, Coalesced, Thick, Apart
<1>2. Within(free \cup {seg})
  <2>1. free \cup {seg} \in SUBSET Segment /\ Thick(free \cup {seg})
    BY <1>1 DEF Thick
  <2>2. \A s \in free \cup {seg} : \A x \in Bytes(s) : \E b \in added' : x \in Bytes(b)
    BY DEF MemInv, NoOverlap
  <2> QED BY <2>1, <2>2, CoveredWithin
<1>3. Thick(free') /\ Apart(free')
  BY <1>1, <1>2, InsertedChain DEF add_segment
<1> QED BY <1>3 DEF ChainSound, HeaderFits, Coalesced, Thick, Apart

\* Whatever malloc takes of a chain leaves a sound one.
LEMMA MallocChain ==
  ASSUME MemInv, ChainSound, NEW r \in Requests, mem_pool_malloc(r)
  PROVE  ChainSound'
<1> DEFINE size == TotalSize(r)
<1>1. size \in Nat /\ size >= 1 /\ Header \in Nat /\ Header >= 1
  <2>1. size = r + Header /\ r \in Nat /\ Header \in Nat /\ Header >= 1
    BY RequestAssumption, SizeAssumption DEF TotalSize
  <2> QED BY <2>1
<1>2. CASE UNCHANGED <<free, tail, live>> /\ fault' = TRUE
  BY <1>2 DEF ChainSound, HeaderFits, Coalesced
<1>3. ASSUME NEW seg \in free, seg.size >= size, splite(seg, size, r)
      PROVE  ChainSound'
  <2> HIDE DEF size
  <2>0. seg.addr \in Nat /\ seg.size \in Nat /\ free \subseteq Segment
    BY DEF MemInv, TypeOK, Segment
  <2>1. CASE seg.size > size + 2 * Header
    <3> DEFINE rest == [addr |-> seg.addr + size, size |-> seg.size - size]
    <3>1. free' = (free \ {seg}) \cup {rest}
      BY <1>3, <2>1 DEF splite
    <3>2. rest.addr = seg.addr + size /\ rest.size \in Nat /\ rest.size >= Header /\ End(rest) = End(seg)
          /\ End(rest) # rest.addr
      BY <1>1, <1>3, <2>0, <2>1 DEF End
    <3>3. ASSUME NEW s \in free \ {seg}, End(s) = rest.addr PROVE FALSE
      <4>1. s.addr \in Nat /\ s.size \in Nat /\ s.size >= 1
        BY <1>1, <2>0 DEF Segment, ChainSound, HeaderFits
      <4>2. s.addr + s.size = seg.addr + size
        BY <3>2, <3>3 DEF End
      <4>3. seg.addr + size - 1 \in Bytes(s) /\ seg.addr + size - 1 \in Bytes(seg)
        BY <1>1, <1>3, <2>0, <4>1, <4>2 DEF Bytes, End
      <4>4. Disjoint(s, seg)
        BY <1>3, <3>3 DEF MemInv, NoOverlap
      <4> QED BY <4>3, <4>4 DEF Disjoint
    <3> HIDE DEF rest
    <3>4. Thick(free')
      BY <3>1, <3>2 DEF Thick, ChainSound, HeaderFits
    <3>5. \A s \in free : End(rest) # s.addr
      BY <1>3, <3>2 DEF ChainSound, Coalesced
    <3>6. Apart(free')
      BY <3>1, <3>2, <3>3, <3>5 DEF Apart, ChainSound, Coalesced
    <3> QED BY <3>4, <3>6 DEF ChainSound, HeaderFits, Coalesced, Thick, Apart
  <2>2. CASE ~(seg.size > size + 2 * Header)
    <3>1. free' \subseteq free
      BY <1>3, <2>2 DEF splite
    <3> QED BY <3>1 DEF ChainSound, HeaderFits, Coalesced
  <2> QED BY <2>1, <2>2
<1> QED BY <1>2, <1>3 DEF mem_pool_malloc

\* ChainSound is inductive relative to what is proved above.
LEMMA ChainStep ==
  ASSUME Small
  PROVE  MemInv /\ BlockLargeEnough /\ ChainSound /\ [Next]_vars => ChainSound'
<1> SUFFICES ASSUME MemInv, BlockLargeEnough, ChainSound, [Next]_vars PROVE ChainSound'
  OBVIOUS
<1>1. ASSUME NEW b \in Buffers, mem_pool_add_buffer(b) PROVE ChainSound'
  <2>1. /\ b \notin added /\ added' = added \cup {b} /\ add_segment(b, "NULL")
        /\ b \in Segment /\ added' \subseteq Buffers /\ b.size >= Header
    BY <1>1, SizesNat, BufferAssumption DEF mem_pool_add_buffer, MemInv, TypeOK, Segment
  <2>2. \A c \in added : Disjoint(c, b)
    BY <2>1, BufferAssumption DEF MemInv, TypeOK
  <2>3. \A s \in free : Disjoint(s, b)
    BY <2>2 DEF MemInv, NoOverlap, Disjoint
  <2>4. \A x \in Bytes(b) : \E c \in added' : x \in Bytes(c)
    BY <2>1
  <2> QED BY <2>1, <2>3, <2>4, AddSegmentChain
<1>2. ASSUME NEW m \in live, mem_pool_free(m) PROVE ChainSound'
  <2> DEFINE seg == [addr |-> m.addr, size |-> m.size]
  <2>1. add_segment(seg, "POISON") /\ added' = added
    BY <1>2 DEF mem_pool_free
  <2>2. seg \in Segment /\ Bytes(seg) = Bytes(m) /\ seg.size = m.size
    BY DEF MemInv, TypeOK, Segment, Bytes, End
  <2>3. m.size >= Header
    <3>1. m.size \in Nat /\ m.asked \in Nat /\ m.size >= m.asked + Header
      BY RequestAssumption DEF MemInv, TypeOK, BlockLargeEnough
    <3> QED BY <3>1, SizesNat
  <2> HIDE DEF seg
  <2>4. \A s \in free : Disjoint(s, seg)
    BY <2>2 DEF MemInv, NoOverlap, Disjoint
  <2>5. \A x \in Bytes(seg) : \E b \in added' : x \in Bytes(b)
    BY <2>1, <2>2 DEF MemInv, NoOverlap
  <2>6. added' \subseteq Buffers
    BY <2>1 DEF MemInv, TypeOK
  <2> QED BY <2>1, <2>2, <2>3, <2>4, <2>5, <2>6, AddSegmentChain
<1>3. CASE Walk \/ UNCHANGED vars
  BY <1>3 DEF Walk, vars, ChainSound, HeaderFits, Coalesced
<1> QED BY <1>1, <1>2, <1>3, MallocChain DEF Next

\* While no joined size can wrap its 16 bits, every free segment of mem_pool.c holds its
\* header and no two of them touch, whatever was allocated and freed in whatever order.
THEOREM ChainSafety ==
  ASSUME Small
  PROVE  Spec => []ChainSound
<1>1. Init => ChainSound
  BY DEF Init, ChainSound, HeaderFits, Coalesced
<1> QED BY MemInit, MemStep, LargeStep, LargeInit, ChainStep, <1>1, PTL DEF Spec

-----------------------------------------------------------------------------
\* A byte is owned when some segment has it.
LEMMA OwnedIn == \A S, x : x \in Owned(S) <=> \E s \in S : x \in Bytes(s)
BY Zenon DEF Owned

\* Sets of segments that have the same bytes own the same.
LEMMA OwnedSame ==
  ASSUME NEW R, NEW S, \A x : (\E s \in R : x \in Bytes(s)) <=> (\E s \in S : x \in Bytes(s))
  PROVE  Owned(R) = Owned(S)
<1>1. \A x : x \in Owned(R) <=> x \in Owned(S)
  BY OwnedIn, Zenon
<1> QED BY <1>1, Zenon

\* Joining loses no byte.
LEMMA CombineOwned ==
  ASSUME NEW S \in SUBSET Segment, NEW seg \in Segment, Within(S \cup {seg})
  PROVE  LET R == try_combine_with_next(S, seg)
         IN  /\ R \in SUBSET Segment /\ Owned(R) = Owned(S \cup {seg})
             /\ \A s \in R : \E a \in S \cup {seg} : s.addr = a.addr
             /\ \A s \in R : \E e \in S \cup {seg} : End(s) = End(e)
<1> DEFINE R == try_combine_with_next(S, seg)
<1>1. CASE R = S \cup {seg}
  <2> HIDE DEF R
  <2>1. /\ R \in SUBSET Segment /\ Owned(R) = Owned(S \cup {seg})
        /\ \A s \in R : \E a \in S \cup {seg} : s.addr = a.addr
        /\ \A s \in R : \E e \in S \cup {seg} : End(s) = End(e)
    BY <1>1
  <2> QED BY <2>1 DEF R
<1>2. ASSUME NEW n \in S, NEW j \in Segment, n.addr = End(seg), j.addr = seg.addr,
             End(j) = End(n), j.size = seg.size + n.size, R = (S \ {n}) \cup {j}
      PROVE  /\ R \in SUBSET Segment /\ Owned(R) = Owned(S \cup {seg})
             /\ \A s \in R : \E a \in S \cup {seg} : s.addr = a.addr
             /\ \A s \in R : \E e \in S \cup {seg} : End(s) = End(e)
  <2> HIDE DEF R
  <2>1. n.addr \in Nat /\ n.size \in Nat /\ seg.addr \in Nat /\ seg.size \in Nat
    BY DEF Segment
  <2>2. \A x : x \in Bytes(j) <=> (x \in Bytes(seg) \/ x \in Bytes(n))
    <3>1. /\ Bytes(j) = seg.addr..((n.addr + n.size) - 1)
          /\ Bytes(seg) = seg.addr..(n.addr - 1)
          /\ Bytes(n) = n.addr..((n.addr + n.size) - 1)
      <4>1. Bytes(j) = seg.addr..(End(n) - 1) /\ Bytes(seg) = seg.addr..(n.addr - 1)
        BY <1>2 DEF Bytes
      <4> QED BY <4>1 DEF Bytes, End
    <3>2. n.addr = seg.addr + seg.size
      BY <1>2 DEF End
    <3> QED BY <2>1, <3>1, <3>2
  <2>3. \A x : (\E s \in R : x \in Bytes(s)) <=> (\E s \in S \cup {seg} : x \in Bytes(s))
    BY <1>2, <2>2
  <2>4. Owned(R) = Owned(S \cup {seg})
    BY <2>3, OwnedSame
  <2>5. /\ \A s \in R : \E a \in S \cup {seg} : s.addr = a.addr
        /\ \A s \in R : \E e \in S \cup {seg} : End(s) = End(e)
    BY <1>2
  <2> QED BY <1>2, <2>4, <2>5
<1>3. \/ R = S \cup {seg}
      \/ \E n \in S, j \in Segment :
           /\ n.addr = End(seg) /\ j.addr = seg.addr /\ End(j) = End(n)
           /\ j.size = seg.size + n.size /\ R = (S \ {n}) \cup {j}
  BY CombineCases
<1> HIDE DEF R
<1>4. /\ R \in SUBSET Segment /\ Owned(R) = Owned(S \cup {seg})
      /\ \A s \in R : \E a \in S \cup {seg} : s.addr = a.addr
      /\ \A s \in R : \E e \in S \cup {seg} : End(s) = End(e)
  BY <1>1, <1>2, <1>3
<1> QED BY <1>4 DEF R

\* Nor does joining on both sides.
LEMMA InsertedOwned ==
  ASSUME NEW S \in SUBSET Segment, NEW seg \in Segment, Within(S \cup {seg})
  PROVE  Owned(Inserted(S, seg)) = Owned(S \cup {seg})
<1> DEFINE S1 == try_combine_with_next(S, seg)
           pres == {p \in S1 : End(p) = seg.addr}
           pre == CHOOSE p \in pres : TRUE
<1>1. /\ S1 \in SUBSET Segment /\ Owned(S1) = Owned(S \cup {seg})
      /\ \A s \in S1 : \E a \in S \cup {seg} : s.addr = a.addr
      /\ \A s \in S1 : \E e \in S \cup {seg} : End(s) = End(e)
  BY CombineOwned
<1>2. Inserted(S, seg) = IF pres = {} THEN S1 ELSE try_combine_with_next(S1 \ {pre}, pre)
  BY DEF Inserted
<1> HIDE DEF S1
<1>3. CASE pres = {}
  BY <1>1, <1>2, <1>3
<1>4. CASE pres # {}
  <2>1. pre \in S1
    BY <1>4
  <2> HIDE DEF pre
  <2>2. (S1 \ {pre}) \cup {pre} = S1 /\ pre \in Segment /\ S1 \ {pre} \in SUBSET Segment
    BY <1>1, <2>1
  <2>3. Within((S1 \ {pre}) \cup {pre})
    BY <1>1, <2>2 DEF Within
  <2>4. Owned(try_combine_with_next(S1 \ {pre}, pre)) = Owned((S1 \ {pre}) \cup {pre})
    BY <2>2, <2>3, CombineOwned
  <2> QED BY <1>1, <1>2, <1>4, <2>2, <2>4
<1> QED BY <1>3, <1>4

\* What add_segment is given is owned afterwards, and all that was owned before.
LEMMA AddSegmentOwned ==
  ASSUME Small, MemInv, ChainSound, NEW seg \in Segment, NEW held, add_segment(seg, held),
         seg.size >= Header, added \subseteq added', added' \subseteq Buffers,
         \A x \in Bytes(seg) : \E b \in added' : x \in Bytes(b)
  PROVE  \A x : (\E s \in free' : x \in Bytes(s)) <=> (x \in Bytes(seg) \/ \E s \in free : x \in Bytes(s))
<1>1. free \in SUBSET Segment /\ Thick(free)
  BY DEF MemInv, TypeOK, ChainSound, HeaderFits, Thick
<1>2. Within(free \cup {seg})
  <2>1. free \cup {seg} \in SUBSET Segment /\ Thick(free \cup {seg})
    BY <1>1 DEF Thick
  <2>2. \A s \in free \cup {seg} : \A x \in Bytes(s) : \E b \in added' : x \in Bytes(b)
    BY DEF MemInv, NoOverlap
  <2> QED BY <2>1, <2>2, CoveredWithin
<1>3. Owned(free') = Owned(free \cup {seg})
  BY <1>1, <1>2, InsertedOwned DEF add_segment
<1>4. \A x : (\E s \in free' : x \in Bytes(s)) <=> (\E s \in free \cup {seg} : x \in Bytes(s))
  BY <1>3, OwnedIn, Zenon
<1> QED BY <1>4

\* What a step must show to keep the bytes.
LEMMA KeptIn ==
  ASSUME \A x : (\/ \E s \in free' : x \in Bytes(s)
                 \/ \E m \in live' : x \in Bytes(m))
             <=> (\/ \E s \in free : x \in Bytes(s)
                  \/ \E m \in live : x \in Bytes(m)
                  \/ \E b \in added' \ added : x \in Bytes(b))
  PROVE  Owned(free' \cup live') = Owned(free \cup live) \cup Owned(added' \ added)
<1>1. \A x : x \in Owned(free' \cup live')
             <=> (\E s \in free' : x \in Bytes(s)) \/ \E m \in live' : x \in Bytes(m)
  BY Zenon DEF Owned
<1>2. \A x : x \in Owned(free \cup live) \cup Owned(added' \ added)
             <=> (\/ \E s \in free : x \in Bytes(s)
                  \/ \E m \in live : x \in Bytes(m)
                  \/ \E b \in added' \ added : x \in Bytes(b))
  BY Zenon DEF Owned
<1>3. \A x : x \in Owned(free' \cup live') <=> x \in Owned(free \cup live) \cup Owned(added' \ added)
  BY <1>1, <1>2, Zenon
<1> QED BY <1>3, Zenon

\* malloc hands out what it takes from the chain, unless it cuts it.
LEMMA MallocOwned ==
  ASSUME MemInv, ChainSound, NEW r \in Requests, mem_pool_malloc(r), ~CutsChain
  PROVE  \A x : (\/ \E s \in free' : x \in Bytes(s)
                 \/ \E m \in live' : x \in Bytes(m))
             <=> (\/ \E s \in free : x \in Bytes(s)
                  \/ \E m \in live : x \in Bytes(m))
<1> DEFINE size == TotalSize(r)
<1>1. size \in Nat /\ Header \in Nat /\ Header >= 1
  BY RequestAssumption, SizeAssumption DEF TotalSize
<1>2. CASE UNCHANGED <<free, tail, live>>
  BY <1>2
<1>3. ASSUME NEW seg \in free, seg.size >= size, splite(seg, size, r)
      PROVE  \A x : (\/ \E s \in free' : x \in Bytes(s)
                     \/ \E m \in live' : x \in Bytes(m))
                 <=> (\/ \E s \in free : x \in Bytes(s)
                      \/ \E m \in live : x \in Bytes(m))
  <2> HIDE DEF size
  <2>0. seg.addr \in Nat /\ seg.size \in Nat /\ seg.size >= 1 /\ free \subseteq Segment
    BY <1>1 DEF MemInv, TypeOK, Segment, ChainSound, HeaderFits
  <2>1. CASE seg.size > size + 2 * Header
    <3> DEFINE rest == [addr |-> seg.addr + size, size |-> seg.size - size]
               m == [addr |-> seg.addr, size |-> size, asked |-> r]
    <3>1. free' = (free \ {seg}) \cup {rest} /\ live' = live \cup {m}
      BY <1>3, <2>1 DEF splite
    <3>2. \A x : x \in Bytes(seg) <=> (x \in Bytes(rest) \/ x \in Bytes(m))
      BY <1>1, <1>3, <2>0 DEF Bytes, End
    <3> HIDE DEF rest, m
    <3> QED BY <3>1, <3>2
  <2>2. CASE ~(seg.size > size + 2 * Header)
    <3> DEFINE m == [addr |-> seg.addr, size |-> seg.size, asked |-> r]
    <3>1. free' = {s \in free : s.addr < seg.addr} /\ live' = live \cup {m}
      BY <1>3, <2>2 DEF splite
    <3>2. Bytes(m) = Bytes(seg) /\ m.addr = seg.addr /\ m.size = seg.size
      BY DEF Bytes, End
    <3> HIDE DEF m
    <3>3. seg.addr \in Bytes(seg)
      BY <2>0 DEF Bytes, End
    <3>4. m \notin live
      <4>1. \A n \in live : seg.addr \notin Bytes(n)
        BY <1>3, <3>3 DEF MemInv, NoOverlap, Disjoint
      <4> QED BY <3>2, <3>3, <4>1
    <3>5. \A s \in free : ~(s.addr > seg.addr)
      BY <1>3, <3>1, <3>2, <3>4 DEF CutsChain
    <3>6. ASSUME NEW s \in free, s.addr = seg.addr PROVE s = seg
      <4>1. s.size \in Nat /\ s.size >= 1
        BY <1>1, <2>0 DEF Segment, ChainSound, HeaderFits
      <4>2. seg.addr \in Bytes(s)
        BY <2>0, <3>6, <4>1 DEF Bytes, End
      <4> QED BY <1>3, <3>3, <4>2 DEF MemInv, NoOverlap, Disjoint
    <3>7. \A s \in free : s.addr < seg.addr \/ s = seg
      <4>1. \A s \in free : s.addr \in Nat
        BY <2>0 DEF Segment
      <4> QED BY <2>0, <3>5, <3>6, <4>1
    <3>8. \A s \in free' : s \in free
      BY <3>1
    <3>9. \A s \in free : s \in free' \/ s = seg
      BY <3>1, <3>7
    <3> QED BY <1>3, <3>1, <3>2, <3>8, <3>9
  <2> QED BY <2>1, <2>2
<1> QED BY <1>2, <1>3 DEF mem_pool_malloc

\* No step loses a byte, unless it cuts the chain.
LEMMA KeptStep ==
  ASSUME Small, MemInv, BlockLargeEnough, ChainSound, [Next]_vars, ~CutsChain
  PROVE  Owned(free' \cup live') = Owned(free \cup live) \cup Owned(added' \ added)
<1>1. ASSUME NEW b \in Buffers, mem_pool_add_buffer(b)
      PROVE  Owned(free' \cup live') = Owned(free \cup live) \cup Owned(added' \ added)
  <2>1. /\ b \notin added /\ added' = added \cup {b} /\ add_segment(b, "NULL") /\ live' = live
        /\ b \in Segment /\ added' \subseteq Buffers /\ b.size >= Header
    BY <1>1, SizesNat, BufferAssumption DEF mem_pool_add_buffer, MemInv, TypeOK, Segment
  <2>2. \A x \in Bytes(b) : \E c \in added' : x \in Bytes(c)
    BY <2>1
  <2>3. \A x : (\E s \in free' : x \in Bytes(s)) <=> (x \in Bytes(b) \/ \E s \in free : x \in Bytes(s))
    BY <2>1, <2>2, AddSegmentOwned
  <2>4. \A c : c \in added' \ added <=> c = b
    BY <2>1
  <2> QED BY <2>1, <2>3, <2>4, KeptIn
<1>2. ASSUME NEW m \in live, mem_pool_free(m)
      PROVE  Owned(free' \cup live') = Owned(free \cup live) \cup Owned(added' \ added)
  <2> DEFINE seg == [addr |-> m.addr, size |-> m.size]
  <2>1. add_segment(seg, "POISON") /\ added' = added /\ live' = live \ {m}
    BY <1>2 DEF mem_pool_free
  <2>2. seg \in Segment /\ Bytes(seg) = Bytes(m) /\ seg.size = m.size
    BY DEF MemInv, TypeOK, Segment, Bytes, End
  <2>3. seg.size >= Header
    <3>1. m.size \in Nat /\ m.asked \in Nat /\ m.size >= m.asked + Header
      BY RequestAssumption DEF MemInv, TypeOK, BlockLargeEnough
    <3> QED BY <2>2, <3>1, SizesNat
  <2> HIDE DEF seg
  <2>4. \A x \in Bytes(seg) : \E b \in added' : x \in Bytes(b)
    BY <2>1, <2>2 DEF MemInv, NoOverlap
  <2>5. added' \subseteq Buffers
    BY <2>1 DEF MemInv, TypeOK
  <2>6. \A x : (\E s \in free' : x \in Bytes(s)) <=> (x \in Bytes(m) \/ \E s \in free : x \in Bytes(s))
    BY <2>1, <2>2, <2>3, <2>4, <2>5, AddSegmentOwned
  <2>7. added' \ added = {}
    BY <2>1
  <2> QED BY <1>2, <2>1, <2>6, <2>7, KeptIn
<1>3. ASSUME NEW r \in Requests, mem_pool_malloc(r)
      PROVE  Owned(free' \cup live') = Owned(free \cup live) \cup Owned(added' \ added)
  <2>1. added' \ added = {}
    BY <1>3 DEF mem_pool_malloc
  <2> QED BY <1>3, <2>1, MallocOwned, KeptIn
<1>4. CASE Walk \/ UNCHANGED vars
  <2>1. UNCHANGED <<added, free, live>>
    BY <1>4 DEF Walk, vars
  <2>2. added' \ added = {}
    BY <2>1
  <2> QED BY <2>1, <2>2, KeptIn
<1> QED BY <1>1, <1>2, <1>3, <1>4 DEF Next

\* While no joined size can wrap its 16 bits, no call of mem_pool.c loses a
\* byte of the buffers it was given, except by cutting the chain: split, joined
\* in any order, handed out and given back, the bytes stay the same.
LEMMA KeepsBytes ==
  ASSUME Small
  PROVE  Spec => BytesKept
<1> DEFINE A == ~CutsChain => Owned(free' \cup live')
                                = Owned(free \cup live) \cup Owned(added' \ added)
           Sound == MemInv /\ BlockLargeEnough /\ ChainSound
<1>1. Spec => []Sound
  <2>1. Init => Sound
    BY MemInit, LargeInit DEF Init, ChainSound, HeaderFits, Coalesced
  <2>2. Sound /\ [Next]_vars => Sound'
    BY MemStep, LargeStep, ChainStep
  <2> QED BY <2>1, <2>2, PTL DEF Spec
<1>2. Sound /\ [Next]_vars => [A]_vars
  BY KeptStep
<1>3. BytesKept <=> [][A]_vars
  BY DEF BytesKept
<1> HIDE DEF A, Sound
<1>4. [][Next]_vars /\ []Sound => [][A]_vars
  BY <1>2, PTL
<1>5. Spec => [][Next]_vars
  BY DEF Spec
<1> QED BY <1>1, <1>3, <1>4, <1>5, PTL

-----------------------------------------------------------------------------
\* The function inside the sum of the sizes of S.
SumOf(S) == CHOOSE f : f = [s \in SUBSET S |->
              IF s = {} THEN 0
              ELSE LET x == CHOOSE x \in s : TRUE
                   IN  x.size + f[s \ {x}]]

\* What Held stands for.
LEMMA HeldIs == ASSUME NEW S PROVE Held(S) = SumOf(S)[S]
BY DEF Held, MapThenSumSet, MapThenFoldSet, SumOf

\* Segments no two of which share a byte.
Laid(S) ==
  /\ IsFiniteSet(S)
  /\ \A s \in S : s.addr \in Nat /\ s.size \in Nat
  /\ PairwiseDisjoint(S)

\* A family of subsets of a finite set has a member that includes no other.
LEMMA LeastSubset ==
  ASSUME NEW S, IsFiniteSet(S), NEW X \in SUBSET (SUBSET S), X # {}
  PROVE  \E s \in X : \A t \in SUBSET s : t # s => t \notin X
<1> DEFINE R == StrictSubsetOrdering(S)
<1>1. IsWellFoundedOn(R, FiniteSubsetsOf(S))
  BY FS_StrictSubsetOrderingWellFounded
<1>2. X \subseteq FiniteSubsetsOf(S)
  BY FS_Subset DEF FiniteSubsetsOf
<1>3. PICK s \in X : \A t \in X : ~(<<t, s>> \in R)
  <2> HIDE DEF R
  <2> QED BY <1>1, <1>2, WFMin
<1>4. ASSUME NEW t \in SUBSET s, t # s, t \in X PROVE FALSE
  <2>1. t \in SUBSET S /\ s \in SUBSET S
    BY <1>4
  <2>2. <<t, s>> \in R
    BY <1>4, <2>1 DEF StrictSubsetOrdering
  <2> QED BY <1>3, <1>4, <2>2
<1> QED BY <1>4

\* A segment has as many bytes as its size says.
LEMMA BytesCount ==
  ASSUME NEW s, s.addr \in Nat, s.size \in Nat
  PROVE  IsFiniteSet(Bytes(s)) /\ Cardinality(Bytes(s)) = s.size
<1>1. s.addr \in Int /\ (s.addr + s.size) - 1 \in Int
  OBVIOUS
<1>2. /\ IsFiniteSet(s.addr..((s.addr + s.size) - 1))
      /\ Cardinality(s.addr..((s.addr + s.size) - 1))
           = IF s.addr > (s.addr + s.size) - 1 THEN 0 ELSE ((s.addr + s.size) - 1) - s.addr + 1
  BY <1>1, FS_Interval
<1>3. Bytes(s) = s.addr..((s.addr + s.size) - 1)
  BY DEF Bytes, End
<1>4. (IF s.addr > (s.addr + s.size) - 1 THEN 0 ELSE ((s.addr + s.size) - 1) - s.addr + 1) = s.size
  OBVIOUS
<1> QED BY <1>2, <1>3, <1>4

\* One segment more owns its bytes more.
LEMMA OwnedOneMore ==
  ASSUME NEW S, Laid(S), NEW x \in S, IsFiniteSet(Owned(S \ {x}))
  PROVE  IsFiniteSet(Owned(S)) /\ Cardinality(Owned(S)) = x.size + Cardinality(Owned(S \ {x}))
<1>1. Owned(S) = Owned(S \ {x}) \cup Bytes(x)
  <2>1. \A b : b \in Owned(S) <=> b \in Owned(S \ {x}) \cup Bytes(x)
    <3>1. \A b : (\E s \in S : b \in Bytes(s)) <=> (\E s \in S \ {x} : b \in Bytes(s)) \/ b \in Bytes(x)
      BY Zenon
    <3>2. \A b : b \in Owned(S \ {x}) \cup Bytes(x) <=> b \in Owned(S \ {x}) \/ b \in Bytes(x)
      BY Zenon
    <3> QED BY <3>1, <3>2, OwnedIn, Zenon
  <2> QED BY <2>1, Zenon
<1>2. Owned(S \ {x}) \cap Bytes(x) = {}
  <2>1. ASSUME NEW b, b \in Owned(S \ {x}), b \in Bytes(x) PROVE FALSE
    <3>1. PICK s \in S \ {x} : b \in Bytes(s)
      BY <2>1, OwnedIn, Zenon
    <3>2. Disjoint(s, x)
      BY DEF Laid, PairwiseDisjoint
    <3> QED BY <2>1, <3>1, <3>2 DEF Disjoint
  <2> QED BY <2>1, Zenon
<1>3. IsFiniteSet(Bytes(x)) /\ Cardinality(Bytes(x)) = x.size /\ x.size \in Nat
  BY BytesCount DEF Laid
<1>4. /\ IsFiniteSet(Owned(S \ {x}) \cup Bytes(x))
      /\ Cardinality(Owned(S \ {x}) \cup Bytes(x))
           = Cardinality(Owned(S \ {x})) + Cardinality(Bytes(x)) - Cardinality(Owned(S \ {x}) \cap Bytes(x))
  BY <1>3, FS_Union
<1>5. Cardinality(Owned(S \ {x})) \in Nat /\ Cardinality({}) = 0
  BY FS_CardinalityType, FS_EmptySet
<1>6. Cardinality(Owned(S)) = Cardinality(Owned(S \ {x})) + x.size - 0
  BY <1>1, <1>2, <1>3, <1>4, <1>5
<1> QED BY <1>1, <1>3, <1>4, <1>5, <1>6

\* Parts of a layout are layouts.
LEMMA LaidPart == ASSUME NEW S, Laid(S), NEW s \in SUBSET S PROVE Laid(s)
BY FS_Subset DEF Laid, PairwiseDisjoint

\* Finitely many segments own finitely many bytes.
LEMMA OwnedFinite ==
  ASSUME NEW S, Laid(S), NEW s \in SUBSET S
  PROVE  IsFiniteSet(Owned(s))
<1> DEFINE X == {t \in SUBSET S : ~IsFiniteSet(Owned(t))}
<1>1. SUFFICES ASSUME X # {} PROVE FALSE
  OBVIOUS
<1>2. PICK t \in X : \A u \in SUBSET t : u # t => u \notin X
  <2>1. X \in SUBSET (SUBSET S)
    OBVIOUS
  <2> HIDE DEF X
  <2> QED BY <1>1, <2>1, LeastSubset DEF Laid
<1>3. CASE t = {}
  <2>1. Owned(t) = {}
    BY <1>3, Zenon DEF Owned
  <2> QED BY <1>2, <2>1, FS_EmptySet
<1>4. ASSUME NEW x \in t PROVE FALSE
  <2>1. t \ {x} \in SUBSET t /\ t \ {x} # t /\ t \ {x} \in SUBSET S /\ t \in SUBSET S
    BY <1>2, <1>4
  <2>2. IsFiniteSet(Owned(t \ {x}))
    BY <1>2, <2>1
  <2>3. Laid(t)
    BY <2>1, LaidPart
  <2>4. IsFiniteSet(Owned(t))
    BY <1>4, <2>2, <2>3, OwnedOneMore
  <2> QED BY <1>2, <2>4
<1> QED BY <1>3, <1>4

\* The sizes of segments that share no byte add up to the number of bytes they own.
LEMMA HeldCounts ==
  ASSUME NEW S, Laid(S)
  PROVE  Held(S) = Cardinality(Owned(S))
<1> DEFINE f == SumOf(S)
           g == [s \in SUBSET S |-> Cardinality(Owned(s))]
           first(s) == CHOOSE x \in s : TRUE
<1>1. ASSUME NEW s \in SUBSET S, s # {}
      PROVE  /\ first(s) \in s /\ s \ {first(s)} \in SUBSET S /\ s \ {first(s)} # s
             /\ Cardinality(Owned(s)) = first(s).size + Cardinality(Owned(s \ {first(s)}))
  <2>1. first(s) \in s
    BY <1>1
  <2> HIDE DEF first
  <2>2. s \ {first(s)} \in SUBSET S /\ s \ {first(s)} # s
    BY <2>1
  <2>3. Laid(s) /\ IsFiniteSet(Owned(s \ {first(s)}))
    BY <2>2, LaidPart, OwnedFinite
  <2> QED BY <2>1, <2>2, <2>3, OwnedOneMore
<1>2. Cardinality(Owned({})) = 0
  <2>1. Owned({}) = {}
    BY Zenon DEF Owned
  <2> QED BY <2>1, FS_EmptySet
<1>3. g = [s \in SUBSET S |-> IF s = {} THEN 0 ELSE LET x == CHOOSE x \in s : TRUE IN x.size + g[s \ {x}]]
  <2>1. ASSUME NEW s \in SUBSET S
        PROVE  g[s] = IF s = {} THEN 0 ELSE LET x == CHOOSE x \in s : TRUE IN x.size + g[s \ {x}]
    <3>1. CASE s = {}
      BY <1>2, <3>1
    <3>2. CASE s # {}
      <4>1. g[s] = first(s).size + g[s \ {first(s)}]
        BY <1>1, <3>2
      <4> QED BY <3>2, <4>1
    <3> QED BY <3>1, <3>2
  <2> QED BY <2>1
<1>4. f = [s \in SUBSET S |-> IF s = {} THEN 0 ELSE LET x == CHOOSE x \in s : TRUE IN x.size + f[s \ {x}]]
  <2> HIDE DEF g
  <2> QED BY <1>3, Zenon DEF SumOf
<1> HIDE DEF f
<1>5. ASSUME NEW s \in SUBSET S PROVE f[s] = Cardinality(Owned(s))
  <2> DEFINE X == {t \in SUBSET S : f[t] # Cardinality(Owned(t))}
  <2>1. SUFFICES ASSUME X # {} PROVE FALSE
    OBVIOUS
  <2>2. PICK t \in X : \A u \in SUBSET t : u # t => u \notin X
    <3>1. X \in SUBSET (SUBSET S)
      OBVIOUS
    <3> HIDE DEF X
    <3> QED BY <2>1, <3>1, LeastSubset DEF Laid
  <2>3. CASE t = {}
    <3>1. f[t] = 0
      BY <1>4, <2>3
    <3> QED BY <1>2, <2>2, <2>3, <3>1
  <2>4. CASE t # {}
    <3>1. t \in SUBSET S
      BY <2>2
    <3>2. f[t] = first(t).size + f[t \ {first(t)}]
      BY <1>4, <2>4, <3>1
    <3>3. /\ first(t) \in t /\ t \ {first(t)} \in SUBSET S /\ t \ {first(t)} # t
          /\ Cardinality(Owned(t)) = first(t).size + Cardinality(Owned(t \ {first(t)}))
      BY <1>1, <2>4, <3>1
    <3> HIDE DEF first
    <3>4. t \ {first(t)} \in SUBSET t
      OBVIOUS
    <3>5. f[t \ {first(t)}] = Cardinality(Owned(t \ {first(t)}))
      BY <2>2, <3>3, <3>4
    <3> QED BY <2>2, <3>2, <3>3, <3>5
  <2> QED BY <2>3, <2>4
<1> QED BY <1>5, HeldIs DEF f

-----------------------------------------------------------------------------
\* Natural numbers are well ordered.
LEMMA LeastByte ==
  ASSUME NEW S \in SUBSET Nat, S # {}
  PROVE  \E n \in S : \A m \in S : n <= m
<1> DEFINE R == {p \in Nat \X Nat : p[1] < p[2]}
<1>1. IsWellFoundedOn(R, Nat)
  BY NatLessThanWellFounded DEF OpToRel
<1>2. PICK n \in S : \A m \in S : ~(<<m, n>> \in R)
  <2> HIDE DEF R
  <2> QED BY <1>1, WFMin
<1>3. ASSUME NEW m \in S PROVE n <= m
  <2>1. m \in Nat /\ n \in Nat /\ <<m, n>> \notin R
    BY <1>2
  <2> QED BY <2>1
<1> QED BY <1>3

\* The chain and the allocated blocks are finite.
Counted == IsFiniteSet(free) /\ IsFiniteSet(live)

\* Joining keeps a chain finite.
LEMMA CombineFinite ==
  ASSUME NEW S, IsFiniteSet(S), NEW seg
  PROVE  IsFiniteSet(try_combine_with_next(S, seg))
<1> DEFINE next == CHOOSE n \in {n \in S : n.addr = End(seg)} : TRUE
           j == [addr |-> seg.addr, size |-> (seg.size + next.size) % SizeMod]
<1>1. \/ try_combine_with_next(S, seg) = S \cup {seg}
      \/ try_combine_with_next(S, seg) = (S \ {next}) \cup {j}
  BY DEF try_combine_with_next
<1> HIDE DEF next, j
<1>2. IsFiniteSet(S \cup {seg}) /\ IsFiniteSet(S \ {next})
  BY FS_AddElement, FS_RemoveElement
<1>3. IsFiniteSet((S \ {next}) \cup {j})
  BY <1>2, FS_AddElement
<1> QED BY <1>1, <1>2, <1>3

\* So does add_segment.
LEMMA InsertedFinite ==
  ASSUME NEW S, IsFiniteSet(S), NEW seg
  PROVE  IsFiniteSet(Inserted(S, seg))
<1> DEFINE S1 == try_combine_with_next(S, seg)
           pre == CHOOSE p \in {p \in S1 : End(p) = seg.addr} : TRUE
<1>1. IsFiniteSet(S1)
  BY CombineFinite
<1>2. Inserted(S, seg) = S1 \/ Inserted(S, seg) = try_combine_with_next(S1 \ {pre}, pre)
  BY DEF Inserted
<1> HIDE DEF S1, pre
<1>3. IsFiniteSet(S1 \ {pre})
  BY <1>1, FS_RemoveElement
<1>4. IsFiniteSet(try_combine_with_next(S1 \ {pre}, pre))
  BY <1>3, CombineFinite
<1> QED BY <1>1, <1>2, <1>4

\* Every step adds one segment at most.
LEMMA CountedStep == Counted /\ [Next]_vars => Counted'
<1> SUFFICES ASSUME Counted, [Next]_vars PROVE Counted'
  OBVIOUS
<1>1. ASSUME NEW b, mem_pool_add_buffer(b) PROVE Counted'
  BY <1>1, InsertedFinite DEF mem_pool_add_buffer, add_segment, Counted
<1>2. ASSUME NEW m, mem_pool_free(m) PROVE Counted'
  <2>1. free' = Inserted(free, [addr |-> m.addr, size |-> m.size]) /\ live' = live \ {m}
    BY <1>2 DEF mem_pool_free, add_segment
  <2> QED BY <2>1, InsertedFinite, FS_RemoveElement DEF Counted
<1>3. ASSUME NEW r, mem_pool_malloc(r) PROVE Counted'
  <2>1. CASE UNCHANGED <<free, tail, live>>
    BY <2>1 DEF Counted
  <2>2. ASSUME NEW seg, NEW size, splite(seg, size, r) PROVE Counted'
    <3> DEFINE rest == [addr |-> seg.addr + size, size |-> seg.size - size]
               m == [addr |-> seg.addr, size |-> size, asked |-> r]
               n == [addr |-> seg.addr, size |-> seg.size, asked |-> r]
    <3>1. /\ free' = (free \ {seg}) \cup {rest} \/ free' \subseteq free
          /\ live' = live \cup {m} \/ live' = live \cup {n}
      BY <2>2 DEF splite
    <3> HIDE DEF rest, m, n
    <3>2. IsFiniteSet(free \ {seg}) /\ IsFiniteSet(live \cup {m}) /\ IsFiniteSet(live \cup {n})
      BY FS_RemoveElement, FS_AddElement DEF Counted
    <3>3. IsFiniteSet((free \ {seg}) \cup {rest})
      BY <3>2, FS_AddElement
    <3>4. IsFiniteSet(free')
      BY <3>1, <3>3, FS_Subset DEF Counted
    <3> QED BY <3>1, <3>2, <3>4 DEF Counted
  <2> QED BY <1>3, <2>1, <2>2 DEF mem_pool_malloc
<1>4. CASE Walk \/ UNCHANGED vars
  BY <1>4 DEF Walk, vars, Counted
<1> QED BY <1>1, <1>2, <1>3, <1>4 DEF Next

\* Chain and blocks are laid out without overlap.
LEMMA BothLaid ==
  ASSUME MemInv, Counted
  PROVE  Laid(free) /\ Laid(live) /\ Owned(free) \cap Owned(live) = {}
<1>1. Laid(free)
  BY DEF MemInv, TypeOK, NoOverlap, Counted, Laid, PairwiseDisjoint, Segment
<1>2. Laid(live)
  BY DEF MemInv, TypeOK, NoOverlap, Counted, Laid, PairwiseDisjoint
<1>3. ASSUME NEW x, x \in Owned(free), x \in Owned(live) PROVE FALSE
  <2>1. PICK s \in free : x \in Bytes(s)
    BY <1>3, OwnedIn, Zenon
  <2>2. PICK m \in live : x \in Bytes(m)
    BY <1>3, OwnedIn, Zenon
  <2> QED BY <2>1, <2>2 DEF MemInv, NoOverlap, Disjoint
<1>4. Owned(free) \cap Owned(live) = {}
  BY <1>3, Zenon
<1> QED BY <1>1, <1>2, <1>4

\* While no joined size can wrap, neither can the sum of all free sizes.
LEMMA FreeBelow ==
  ASSUME Small, MemInv, Counted
  PROVE  Cardinality(Owned(free)) \in Nat /\ Cardinality(Owned(free)) < SizeMod
<1> DEFINE T == Owned(free)
<1>0. SizeMod \in Nat /\ SizeMod >= 1
  BY SizeAssumption
<1>1. IsFiniteSet(T) /\ Cardinality(T) \in Nat
  <2>1. IsFiniteSet(T)
    BY BothLaid, OwnedFinite
  <2> QED BY <2>1, FS_CardinalityType
<1>2. \A x \in T : \E b \in added : x \in Bytes(b)
  <2>1. \A x \in T : \E s \in free : x \in Bytes(s)
    BY OwnedIn, Zenon
  <2> QED BY <2>1 DEF MemInv, NoOverlap
<1> HIDE DEF T
<1>3. CASE T = {}
  <2>1. Cardinality(T) = 0
    BY <1>3, FS_EmptySet
  <2> QED BY <1>0, <1>1, <2>1 DEF T
<1>4. CASE T # {}
  <2>1. \A b \in added : b \in Buffers /\ b.addr \in Nat /\ b.size \in Nat
    BY SizesNat DEF MemInv, TypeOK, Segment
  <2>2. T \in SUBSET Nat
    <3>1. \A b \in added : \A x \in Bytes(b) : x \in Nat
      BY <2>1 DEF Bytes, End
    <3> QED BY <1>2, <3>1
  <2>3. PICK a \in T : \A x \in T : a <= x
    BY <1>4, <2>2, LeastByte
  <2>4. PICK b \in added : a \in Bytes(b)
    BY <1>2, <2>3
  <2>5. ASSUME NEW x \in T PROVE x \in a..((a + SizeMod) - 2)
    <3>1. PICK c \in added : x \in Bytes(c)
      BY <1>2
    <3>2. c.addr + c.size - b.addr < SizeMod
      BY <1>0, <2>1, <2>4, <3>1 DEF Small, End
    <3>3. b.addr <= a /\ x <= c.addr + c.size - 1 /\ a <= x /\ a \in Nat /\ x \in Nat
      BY <2>1, <2>2, <2>3, <2>4, <3>1 DEF Bytes, End
    <3> QED BY <1>0, <2>1, <2>4, <3>1, <3>2, <3>3
  <2>6. a \in Nat
    BY <2>2, <2>3
  <2>7. /\ IsFiniteSet(a..((a + SizeMod) - 2))
        /\ Cardinality(a..((a + SizeMod) - 2)) = IF a > (a + SizeMod) - 2 THEN 0 ELSE ((a + SizeMod) - 2) - a + 1
    <3>1. a \in Int /\ (a + SizeMod) - 2 \in Int
      BY <1>0, <2>6
    <3> QED BY <3>1, FS_Interval
  <2>8. Cardinality(T) <= Cardinality(a..((a + SizeMod) - 2))
    <3>1. T \in SUBSET (a..((a + SizeMod) - 2))
      BY <2>5
    <3> QED BY <2>7, <3>1, FS_Subset
  <2>9. Cardinality(a..((a + SizeMod) - 2)) \in Nat /\ Cardinality(a..((a + SizeMod) - 2)) < SizeMod
    BY <1>0, <2>6, <2>7
  <2> QED BY <1>0, <1>1, <2>8, <2>9 DEF T
<1> QED BY <1>3, <1>4

\* The free size and the allocated sizes together count the bytes owned.
LEMMA SizesCount ==
  ASSUME Small, MemInv, Counted
  PROVE  mem_pool_get_free_size + Held(live) = Cardinality(Owned(free \cup live))
<1>1. Held(free) = Cardinality(Owned(free)) /\ Held(live) = Cardinality(Owned(live))
  BY BothLaid, HeldCounts
<1>2. mem_pool_get_free_size = Held(free) % SizeMod
  BY DEF mem_pool_get_free_size, Held
<1>3. mem_pool_get_free_size = Cardinality(Owned(free))
  BY <1>1, <1>2, FreeBelow, SizeAssumption
<1>4. IsFiniteSet(Owned(free)) /\ IsFiniteSet(Owned(live))
  BY BothLaid, OwnedFinite
<1>5. Owned(free \cup live) = Owned(free) \cup Owned(live)
  BY Zenon DEF Owned
<1>6. /\ Cardinality(Owned(free) \cup Owned(live))
           = Cardinality(Owned(free)) + Cardinality(Owned(live)) - Cardinality(Owned(free) \cap Owned(live))
  BY <1>4, FS_Union
<1>7. Cardinality(Owned(free)) \in Nat /\ Cardinality(Owned(live)) \in Nat /\ Cardinality({}) = 0
  BY <1>4, FS_CardinalityType, FS_EmptySet
<1>8. Cardinality(Owned(free) \cap Owned(live)) = 0
  BY <1>7, BothLaid
<1>9. Cardinality(Owned(free) \cup Owned(live)) = Cardinality(Owned(free)) + Cardinality(Owned(live))
  BY <1>6, <1>7, <1>8
<1>10. Cardinality(Owned(free \cup live)) = Cardinality(Owned(free)) + Cardinality(Owned(live))
  BY <1>5, <1>9, Zenon
<1> QED BY <1>1, <1>3, <1>10

\* A state in which all of the above hold.
Sound == MemInv /\ BlockLargeEnough /\ ChainSound /\ Counted

\* They hold always.
LEMMA SoundAlways ==
  ASSUME Small
  PROVE  (Init => Sound) /\ (Sound /\ [Next]_vars => Sound')
<1>1. Init => Sound
  BY MemInit, LargeInit, FS_EmptySet DEF Init, ChainSound, HeaderFits, Coalesced, Sound, Counted
<1>2. Sound /\ [Next]_vars => Sound'
  BY MemStep, LargeStep, ChainStep, CountedStep DEF Sound
<1> QED BY <1>1, <1>2

\* What the pool reports as free changes by the size of the block that a call hands out or takes back.
LEMMA KeepsSize ==
  ASSUME Small
  PROVE  Spec => FreeSizeKept
<1> DEFINE A == added' = added /\ ~CutsChain =>
                  mem_pool_get_free_size' + Held(live') = mem_pool_get_free_size + Held(live)
           Sum == mem_pool_get_free_size + Held(live) = Cardinality(Owned(free \cup live))
<1>1. Sound => Sum
  BY SizesCount DEF Sound
<1>2. Sound' => Sum'
  <2> HIDE DEF Sum
  <2> QED BY <1>1, PTL
<1>3. Sound /\ Sound' /\ [Next]_vars => [A]_vars
  <2> SUFFICES ASSUME Sound, Sound', [Next]_vars, added' = added, ~CutsChain
               PROVE  mem_pool_get_free_size' + Held(live') = mem_pool_get_free_size + Held(live)
    OBVIOUS
  <2>1. Owned(free' \cup live') = Owned(free \cup live) \cup Owned(added' \ added)
    BY KeptStep DEF Sound
  <2>2. Owned(added' \ added) = {}
    <3>1. added' \ added = {}
      OBVIOUS
    <3>2. Owned({}) = {}
      BY Zenon DEF Owned
    <3> QED BY <3>1, <3>2
  <2>3. Owned(free' \cup live') = Owned(free \cup live)
    BY <2>1, <2>2
  <2>4. mem_pool_get_free_size + Held(live) = Cardinality(Owned(free \cup live))
    BY <1>1
  <2>5. (mem_pool_get_free_size + Held(live))' = Cardinality(Owned(free' \cup live'))
    BY <1>2
  <2> QED BY <2>3, <2>4, <2>5
<1>4. FreeSizeKept <=> [][A]_vars
  BY DEF FreeSizeKept
<1> HIDE DEF A
<1>5. Spec => []Sound /\ [][Next]_vars
  BY SoundAlways, PTL DEF Spec
<1>6. []Sound /\ [][Next]_vars => [][A]_vars
  BY <1>3, PTL
<1> QED BY <1>4, <1>5, <1>6, PTL

\* While no joined size can wrap its 16 bits, mem_pool.c conserves the memory it was given,
\* except by cutting the chain: no call loses a byte, and the free size it reports changes by
\* exactly the block that was handed out or taken back.
THEOREM Conservation ==
  ASSUME Small
  PROVE  Spec => Conserved
BY KeepsBytes, KeepsSize, PTL DEF Conserved
=============================================================================
