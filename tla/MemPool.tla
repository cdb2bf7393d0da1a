------------------------------- MODULE MemPool ------------------------------
(***************************************************************************)
(* src/mem_pool: a first-fit allocator over caller-supplied buffers.  Free *)
(* segments are chained in address order, each with its header at its      *)
(* start; an allocated segment keeps its header, whose next is then        *)
(* MEM_POOL_POISON.                                                        *)
(*                                                                         *)
(* As the chain is sorted by address it is modelled by the set of its      *)
(* segments and by what the last next holds, NULL or MEM_POOL_POISON.      *)
(* Addresses lie below the poison, as on the 32 bit targets.  Callers free *)
(* only what they got from malloc, once.                                   *)
(***************************************************************************)
EXTENDS Integers, FiniteSets, FiniteSetsExt

CONSTANTS Buffers,   \* what mem_pool_add_buffer is called with
          Header,    \* ALLIGN_SIZEOF(struct mem_pool_segment)
          Requests,  \* sizes asked of mem_pool_malloc
          SizeMod    \* number of values of a size, 2^16

Segment == [addr : Nat, size : Nat]
End(s) == s.addr + s.size
Bytes(s) == s.addr..(End(s) - 1)
Disjoint(s, t) == \A x \in Bytes(s) : x \notin Bytes(t)

ASSUME SizeAssumption == Header \in Nat \ {0} /\ SizeMod \in Nat \ {0}
ASSUME BufferAssumption ==
  /\ Buffers \subseteq Segment
  /\ \A b \in Buffers : Header <= b.size /\ b.size < SizeMod
  /\ \A b, c \in Buffers : b # c => Disjoint(b, c)
ASSUME RequestAssumption == \A r \in Requests : r \in Nat /\ r + Header < SizeMod

VARIABLES
  added,  \* buffers given to the pool so far
  free,   \* the chain from *pool
  tail,   \* next of its last segment
  live,   \* allocated segments, with the size that was asked for
  fault   \* MEM_POOL_POISON has been dereferenced

vars == <<added, free, tail, live, fault>>

Init ==
  /\ added = {} /\ free = {} /\ tail = "NULL" /\ live = {} /\ fault = FALSE

-----------------------------------------------------------------------------
\* mutant: neighbours are never joined
try_combine_with_next_Gap(S, seg) == S \cup {seg}
\* mutant: a joined segment keeps the size of its first part
try_combine_with_next_Lost(S, seg) ==
  {n \in S : n.addr # End(seg)} \cup {seg}

\* The chain S with seg in it, joined to its successor if they touch.
try_combine_with_next(S, seg) ==
  LET nexts == {n \in S : n.addr = End(seg)}
      next == CHOOSE n \in nexts : TRUE
  IN  IF nexts = {}
        THEN S \cup {seg}
        ELSE (S \ {next}) \cup {[addr |-> seg.addr, size |-> (seg.size + next.size) % SizeMod]}

\* A segment enters the chain at its place and is joined to both neighbours.
Inserted(S, seg) ==
  LET S1 == try_combine_with_next(S, seg)
      pres == {p \in S1 : End(p) = seg.addr}
      pre == CHOOSE p \in pres : TRUE
  IN  IF pres = {} THEN S1 ELSE try_combine_with_next(S1 \ {pre}, pre)

\* Behind the last segment seg->next is not assigned: it keeps what it held.
add_segment(seg, held) ==
  /\ free' = Inserted(free, seg)
  /\ tail' = IF free = {} THEN "NULL"
             ELSE IF tail = "NULL" /\ \A s \in free : s.addr < seg.addr THEN held
             ELSE tail

\* The buffers are static and so start out zeroed.
mem_pool_add_buffer(b) ==
  /\ ~fault
  /\ b \in Buffers \ added
  /\ added' = added \cup {b}
  /\ add_segment(b, "NULL")
  /\ UNCHANGED <<live, fault>>

\* mutant: a remainder too small for its own header is split off
splite_Thin(seg, size, asked) ==
  IF seg.size > size
    THEN /\ free' = (free \ {seg})
                      \cup {[addr |-> seg.addr + size, size |-> seg.size - size]}
         /\ tail' = tail
         /\ live' = live \cup {[addr |-> seg.addr, size |-> size, asked |-> asked]}
    ELSE /\ free' = {s \in free : s.addr < seg.addr}
         /\ tail' = "NULL"
         /\ live' = live \cup {[addr |-> seg.addr, size |-> seg.size, asked |-> asked]}

\* mutant: the part given to the caller keeps the size of the whole segment
splite_KeepsSize(seg, size, asked) ==
  IF seg.size > size + 2 * Header
    THEN /\ free' = (free \ {seg})
                      \cup {[addr |-> seg.addr + size, size |-> seg.size - size]}
         /\ tail' = tail
         /\ live' = live \cup {[addr |-> seg.addr, size |-> seg.size, asked |-> asked]}
    ELSE /\ free' = {s \in free : s.addr < seg.addr}
         /\ tail' = "NULL"
         /\ live' = live \cup {[addr |-> seg.addr, size |-> seg.size, asked |-> asked]}

\* Take size bytes of seg.  Without enough left over for a new segment all of
\* it is taken, and the chain is cut there: *left = 0 replaces seg->next.
splite(seg, size, asked) ==
  IF seg.size > size + 2 * Header
    THEN /\ free' = (free \ {seg})
                      \cup {[addr |-> seg.addr + size, size |-> seg.size - size]}
         /\ tail' = tail
         /\ live' = live \cup {[addr |-> seg.addr, size |-> size, asked |-> asked]}
    ELSE /\ free' = {s \in free : s.addr < seg.addr}
         /\ tail' = "NULL"
         /\ live' = live \cup {[addr |-> seg.addr, size |-> seg.size, asked |-> asked]}

\* mutant: no room is added for the header
TotalSize_NoHeader(asked) == asked
TotalSize(asked) == (asked + Header) % SizeMod

\* The first segment that is large enough; a search that finds none runs into
\* whatever the last next holds, and otherwise returns 0.
mem_pool_malloc(asked) ==
  LET fits == {s \in free : s.size >= TotalSize(asked)}
  IN  /\ ~fault
      /\ \/ \E seg \in fits :
              /\ \A s \in fits : seg.addr <= s.addr
              /\ splite(seg, TotalSize(asked), asked)
              /\ fault' = fault
         \/ /\ fits = {} /\ free # {} /\ tail = "POISON"
            /\ fault' = TRUE
            /\ UNCHANGED <<free, tail, live>>
      /\ UNCHANGED added

mem_pool_free(m) ==
  /\ ~fault
  /\ m \in live
  /\ live' = live \ {m}
  /\ add_segment([addr |-> m.addr, size |-> m.size], "POISON")
  /\ UNCHANGED <<added, fault>>

mem_pool_get_free_size == MapThenSumSet(LAMBDA s : s.size, free) % SizeMod
mem_pool_get_segment_count == Cardinality(free) % SizeMod

\* Both walk the chain until next is NULL.
Walk ==
  /\ ~fault
  /\ tail = "POISON"
  /\ fault' = TRUE
  /\ UNCHANGED <<added, free, tail, live>>

Next ==
  \/ \E b \in Buffers : mem_pool_add_buffer(b)
  \/ \E r \in Requests : mem_pool_malloc(r)
  \/ \E m \in live : mem_pool_free(m)
  \/ Walk

Spec == Init /\ [][Next]_vars

-----------------------------------------------------------------------------
\* The chain and the allocated blocks are segments with natural address and size.
TypeOK ==
  /\ added \subseteq Buffers
  /\ free \subseteq Segment
  /\ tail \in {"NULL", "POISON"}
  /\ live \subseteq [addr : Nat, size : Nat, asked : Requests]
  /\ fault \in BOOLEAN

\* No byte belongs to two segments, be they free or allocated, and every byte
\* of a segment is one the pool was given: neither callers nor the headers of
\* free segments ever write over each other.
NoOverlap ==
  /\ \A s, t \in free : s # t => Disjoint(s, t)
  /\ \A m, n \in live : m # n => Disjoint(m, n)
  /\ \A s \in free, m \in live : Disjoint(s, m)
  /\ \A s \in free \cup live : \A x \in Bytes(s) : \E b \in added : x \in Bytes(b)

\* Every segment of the chain holds the header that is written at its start.
HeaderFits == \A s \in free : s.size >= Header

\* Freeing in any order leaves no two free segments that touch: a request is
\* never refused only because free memory was not joined.
Coalesced == \A s, t \in free : End(s) # t.addr

\* The chain is sound: headers fit, and neighbours are joined.
ChainSound == HeaderFits /\ Coalesced

\* A caller gets at least what it asked for, behind the header.
BlockLargeEnough == \A m \in live : m.size >= m.asked + Header

\* Taking the whole of a segment that others follow: splite then cuts the chain.
CutsChain == \E m \in live' \ live : \E s, seg \in free :
               seg.addr = m.addr /\ seg.size = m.size /\ s.addr > m.addr

\* Nothing the pool was given disappears: byte for byte, what is not free is
\* allocated, however segments are split and joined again, unless the chain is
\* cut; only a new buffer adds to it.
Owned(S) == UNION {Bytes(s) : s \in S}
BytesKept ==
  [][~CutsChain => Owned(free' \cup live')
                     = Owned(free \cup live) \cup Owned(added' \ added)]_vars

\* The free size tells it: a free gives back the whole block with its header,
\* joined or not, and a malloc takes exactly the block it hands out.
Held(S) == MapThenSumSet(LAMBDA s : s.size, S)
FreeSizeKept ==
  [][added' = added /\ ~CutsChain =>
       mem_pool_get_free_size' + Held(live') = mem_pool_get_free_size + Held(live)]_vars

\* Memory is conserved, in fact and in what mem_pool_get_free_size reports.
Conserved == BytesKept /\ FreeSizeKept
=============================================================================
