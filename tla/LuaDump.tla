------------------------------ MODULE LuaDump -------------------------------
(***************************************************************************)
(* Precompiled chunks: ldump.c writes a function for a target machine,     *)
(* lundump.c reads it back through lzio.c, swapping bytes when the chunk   *)
(* comes from a machine of the other order, or leaving code and line       *)
(* numbers in place when the chunk lies in read-only memory.               *)
(*                                                                         *)
(* A machine or target is [little, int, strsize, num, integral, fpa]: its  *)
(* byte order, the sizes of int, string lengths and lua_Number, whether    *)
(* lua_Number is an integer, and whether the halves of a double change     *)
(* places (ARM FPA).  Bytes are numbers, strings sequences of bytes, and   *)
(* NoString is the NULL of a TString pointer.  The number Fraction stands  *)
(* for one that is no integer.                                             *)
(***************************************************************************)
EXTENDS Integers, Sequences, SequencesExt

CONSTANTS Protos, Targets, Machines

VARIABLES st, out
vars == <<st, out>>

NoString == <<-1>>
Fraction == 200
LUA_ERR_CC_INTOVERFLOW == 101
LUA_ERR_CC_NOTINTEGER == 102
HeaderSize == 12
sizeof_Instruction == 4

-----------------------------------------------------------------------------
(* ldump.c: what is written is a sequence of fields [b, status]; Align      *)
(* stands for a call of Align4, status for what is stored in D->status      *)
(* before b is dumped (0: it is left alone).                                *)

Block(b) == <<[b |-> b, status |-> 0]>>
Fail(status) == <<[b |-> <<>>, status |-> status]>>
Align == Block(<<-1>>)
DumpAll(list, Item(_)) == FlattenSeq([i \in DOMAIN list |-> Item(list[i])])

\* the size bytes of x in the order of the target (MaybeByteSwap)
Ordered(T, b) == IF T.little THEN b ELSE Reverse(b)
LittleBytes(x, size) == [i \in 1..size |-> (x \div 256^(i - 1)) % 256]

TooLarge(x, size, signed) == size < 4 /\ x >= 256^size \div (IF signed THEN 2 ELSE 1)
DumpIntWithSize(T, x, size, signed) ==
    <<[b |-> Ordered(T, IF size >= 4 THEN LittleBytes(x, 2) \o [i \in 1..(size - 2) |-> 0]
                        ELSE LittleBytes(x, size)),
       status |-> IF TooLarge(x, size, signed) THEN LUA_ERR_CC_INTOVERFLOW ELSE 0]>>
DumpInt(T, x) == DumpIntWithSize(T, x, T.int, TRUE)
DumpSize(T, x) == DumpIntWithSize(T, x, T.strsize, FALSE)

\* a float keeps its value in one byte and is told from an integer by another
FloatBytes(x, size) == [i \in 1..size |-> IF i = 1 THEN x ELSE IF i = size THEN 64 ELSE 0]
\* the halves of a double in ARM FPA mode
Halves(T, b) == IF T.fpa /\ Len(b) = 8 THEN SubSeq(b, 5, 8) \o SubSeq(b, 1, 4) ELSE b
DumpNumber(T, x) ==
    IF T.integral
    THEN (IF x = Fraction THEN Fail(LUA_ERR_CC_NOTINTEGER) ELSE <<>>) \o DumpIntWithSize(T, x, T.num, TRUE)
    ELSE Block(Ordered(T, Halves(T, FloatBytes(x, T.num))))

DumpString(T, s) ==
    IF s = NoString THEN DumpSize(T, 0) ELSE DumpSize(T, Len(s) + 1) \o Block(Append(s, 0))

DumpCode(T, f) ==
    DumpInt(T, Len(f.code)) \o Align
    \o DumpAll(f.code, LAMBDA i : Block(Ordered(T, LittleBytes(i, sizeof_Instruction))))

DumpConstants(T, f) ==
    DumpInt(T, Len(f.k))
    \o DumpAll(f.k, LAMBDA k : Block(<<k.type>>)
                               \o CASE k.type = 0 -> <<>>
                                    [] k.type = 1 -> Block(<<k.v>>)
                                    [] k.type = 3 -> DumpNumber(T, k.v)
                                    [] k.type = 4 -> DumpString(T, k.v))

DumpDebug(T, f, strip) ==
    LET Kept(list) == IF strip THEN <<>> ELSE list
    IN  DumpInt(T, Len(Kept(f.lineinfo))) \o Align
        \o DumpAll(Kept(f.lineinfo), LAMBDA x : DumpInt(T, x))
        \o DumpInt(T, Len(Kept(f.locvars)))
        \o DumpAll(Kept(f.locvars),
                   LAMBDA v : DumpString(T, v.name) \o DumpInt(T, v.startpc) \o DumpInt(T, v.endpc))
        \o DumpInt(T, Len(Kept(f.upvalues)))
        \o DumpAll(Kept(f.upvalues), LAMBDA u : DumpString(T, u))

RECURSIVE DumpFunction(_, _, _, _)
DumpFunction(T, f, parent, strip) ==
    DumpString(T, IF f.source = parent \/ strip THEN NoString ELSE f.source)
    \o DumpInt(T, f.linedefined) \o DumpInt(T, f.lastlinedefined)
    \o Block(f.sizes)                \* nups, numparams, is_vararg, maxstacksize
    \o DumpCode(T, f) \o DumpConstants(T, f)
    \o DumpInt(T, Len(f.p)) \o DumpAll(f.p, LAMBDA g : DumpFunction(T, g, f.source, strip))
    \o DumpDebug(T, f, strip)

\* D is [status, bytes, hangs], and wrote the length of bytes.  Once the status is set
\* DumpBlock neither writes nor counts.
DumpBlock(D, b) == IF D.status = 0 THEN [D EXCEPT !.bytes = @ \o b] ELSE D
\* The loop of Align4 counts on DumpChar to advance wrote: with a status set it never ends.
RECURSIVE Align4(_)
Align4(D) ==
    IF Len(D.bytes) % 4 = 0 THEN D
    ELSE IF D.status = 0 THEN Align4(DumpBlock(D, <<0>>))
    ELSE [D EXCEPT !.hangs = TRUE]
DumpField(D, fld) ==
    IF D.hangs THEN D
    ELSE IF fld.b = <<-1>> THEN Align4(D)
    ELSE DumpBlock(IF fld.status = 0 THEN D ELSE [D EXCEPT !.status = fld.status], fld.b)

Flag(b) == IF b THEN 1 ELSE 0
Header(T) == <<27, 76, 117, 97, 81, 0, Flag(T.little), T.int, T.strsize,
               sizeof_Instruction, T.num, Flag(T.integral)>>

luaU_dump_crosscompile(f, T, strip) ==
    FoldLeft(DumpField, [status |-> 0, bytes |-> Header(T), hangs |-> FALSE],
             DumpFunction(T, f, NoString, strip))

-----------------------------------------------------------------------------
(* lundump.c: S is [in, pos, err, swap, ...]; a loader returns [s, v] *)

At(S, v) == [s |-> S, v |-> v]
Throw(S, why) == [S EXCEPT !.err = IF @ = "" THEN why ELSE @]

\* luaZ_read: the bytes asked for, or an error when the stream ends first
LoadBlock(S, n) ==
    IF S.err = "" /\ S.pos + n <= Len(S.in)
    THEN At([S EXCEPT !.pos = @ + n], SubSeq(S.in, S.pos + 1, S.pos + n))
    ELSE At(Throw(S, "unexpected end"), [i \in 1..HeaderSize |-> 0])

\* swapped to the machine's order, and read in that order
Swapped(S, b) == IF S.swap THEN Reverse(b) ELSE b
LittleOf(S, b) == IF S.mach.little THEN b ELSE Reverse(b)
FromLittle(b) == FoldRight(LAMBDA x, acc : x + 256 * acc, b, 0)
LoadMem(S, n) == LET r == LoadBlock(S, n) IN At(r.s, LittleOf(S, Swapped(S, r.v)))
LoadByte(S) == LET r == LoadBlock(S, 1) IN At(r.s, r.v[1])

RECURSIVE SkipTo4(_)
SkipTo4(S) == IF S.err = "" /\ (S.pos - HeaderSize) % 4 # 0 THEN SkipTo4(LoadByte(S).s) ELSE S

LoadInt(S) == LET r == LoadMem(S, 4) IN At(r.s, FromLittle(r.v))

\* an integral chunk on a machine with floats is converted, whatever its size
LoadNumber(S) ==
    LET size == IF S.toflt THEN S.numsize ELSE S.mach.num
        r == LoadMem(S, size)
    IN  At(r.s, IF S.toflt \/ S.mach.integral THEN FromLittle(r.v)
                ELSE LET b == Halves(S.mach, r.v) IN IF b = FloatBytes(b[1], size) THEN b[1] ELSE -1)

LoadString_Anonymous(S) ==
    LET size == LoadInt(S)
        text == LoadBlock(size.s, size.v)
    IN  IF size.v = 0 THEN At(size.s, <<>>) ELSE At(text.s, SubSeq(text.v, 1, size.v - 1))
LoadString(S) ==
    LET size == LoadInt(S)
        text == LoadBlock(size.s, size.v)
    IN  IF size.v = 0 \/ size.v > Len(S.in) \/ size.s.err # ""
        THEN At(IF size.v = 0 THEN size.s ELSE Throw(size.s, "unexpected end"), NoString)
        ELSE At(text.s, SubSeq(text.v, 1, size.v - 1))

\* n items in a row; every item takes a byte at least
LoadAll(S, n, Item(_)) ==
    IF S.err # "" THEN At(S, <<>>)
    ELSE IF n > Len(S.in) THEN At(Throw(S, "unexpected end"), <<>>)
    ELSE FoldLeft(LAMBDA acc, i : LET r == Item(acc.s) IN At(r.s, Append(acc.v, r.v)),
                  At(S, <<>>), [i \in 1..n |-> i])

\* code and line numbers stay where they are in direct mode, unswapped
LoadWord(S) ==
    LET r == LoadBlock(S, 4)
    IN  At(r.s, FromLittle(LittleOf(S, IF S.direct THEN r.v ELSE Swapped(S, r.v))))

LoadVector(S) ==
    LET n == LoadInt(S)
    IN  LoadAll(SkipTo4(n.s), n.v, LoadWord)

LoadConstant(S) ==
    LET t == LoadByte(S)
        r == CASE t.v = 0 -> At(t.s, 0)
               [] t.v = 1 -> LoadByte(t.s)
               [] t.v = 3 -> LoadNumber(t.s)
               [] t.v = 4 -> LoadString(t.s)
               [] OTHER -> At(Throw(t.s, "bad constant"), 0)
    IN  At(r.s, [type |-> t.v, v |-> r.v])

LoadList(S, Item(_)) == LET n == LoadInt(S) IN LoadAll(n.s, n.v, Item)

LoadLocal(S) ==
    LET name == LoadString(S)
        a == LoadInt(name.s)
        b == LoadInt(a.s)
    IN  At(b.s, [name |-> name.v, startpc |-> a.v, endpc |-> b.v])

RECURSIVE LoadFunction(_, _)
LoadFunction(S, parent) ==
    LET src == LoadString(S)
        source == IF src.v = NoString THEN parent ELSE src.v
        first == LoadInt(src.s)
        last == LoadInt(first.s)
        sizes == LoadBlock(last.s, 4)
        code == LoadVector(sizes.s)
        k == LoadList(code.s, LoadConstant)
        p == LoadList(k.s, LAMBDA s : LoadFunction(s, source))
        lines == LoadVector(p.s)
        locals == LoadList(lines.s, LoadLocal)
        ups == LoadList(locals.s, LoadString)
        stages == <<src, first, last, sizes, code, k, p, lines, locals, ups>>
        failed == {i \in DOMAIN stages : stages[i].s.err # ""}
    IN  IF S.err # "" THEN At(S, <<>>)
        ELSE IF failed # {} THEN At(stages[Min(failed)].s, <<>>)
        ELSE At(ups.s, [source |-> source, linedefined |-> first.v, lastlinedefined |-> last.v,
                        sizes |-> sizes.v, code |-> code.v, k |-> k.v, p |-> p.v,
                        lineinfo |-> lines.v, locvars |-> locals.v, upvalues |-> ups.v])

\* the byte order and the size of a number may differ; the rest must agree
LoadHeader_AnyInt(S) ==
    LET r == LoadBlock(S, HeaderSize)
    IN  [r.s EXCEPT !.swap = r.v[7] # Flag(S.mach.little), !.numsize = r.v[11],
                    !.toflt = r.v[12] > Flag(S.mach.integral)]
LoadHeader(S) ==
    LET r == LoadBlock(S, HeaderSize)
        h == Header(S.mach)
        toflt == r.v[12] > h[12]
        same == \A i \in 1..HeaderSize : \/ i \in {7, 11}
                                         \/ i = 12 /\ toflt
                                         \/ r.v[i] = h[i]
        s == [r.s EXCEPT !.swap = r.v[7] # h[7], !.numsize = r.v[11], !.toflt = toflt]
    IN  IF same THEN s ELSE Throw(s, "bad header")

Unknown == <<61, 63>>       \* "=?"
luaU_undump(bytes, mach, direct) ==
    LoadFunction(LoadHeader([in |-> bytes, pos |-> 0, err |-> "", swap |-> FALSE, numsize |-> 0,
                             toflt |-> FALSE, mach |-> mach, direct |-> direct]),
                 Unknown)

-----------------------------------------------------------------------------
(* One function is dumped, perhaps cut short, and loaded *)

Init == /\ \E f \in Protos, T \in Targets, m \in Machines, strip, direct \in BOOLEAN, cut \in {0, 1, 9} :
               st = [f |-> f, T |-> T, m |-> m, strip |-> strip, direct |-> direct, cut |-> cut,
                     done |-> FALSE]
        /\ out = <<>>

Load == ~st.done /\ st' = [st EXCEPT !.done = TRUE] /\ out' = out
Next == Load \/ (st.done /\ UNCHANGED vars)

\* what comes back, a function of what was chosen: from a dump that hangs, what it has written
Reloaded ==
    LET D == luaU_dump_crosscompile(st.f, st.T, st.strip)
        r == luaU_undump(SubSeq(D.bytes, 1, Len(D.bytes) - st.cut), st.m, st.direct)
    IN  [status |-> D.status, hangs |-> D.hangs, err |-> r.s.err, f |-> r.v]

-----------------------------------------------------------------------------

\* what loading may leave out: everything for debugging, when stripped
RECURSIVE Expected(_, _, _)
Expected(f, parent, strip) ==
    LET source == IF strip THEN parent ELSE f.source
        p == [i \in DOMAIN f.p |-> Expected(f.p[i], source, strip)]
    IN  IF strip
        THEN [f EXCEPT !.source = source, !.lineinfo = <<>>, !.locvars = <<>>, !.upvalues = <<>>, !.p = p]
        ELSE [f EXCEPT !.p = p]

Fits == /\ st.T.int = 4 /\ st.T.strsize = 4
        /\ \/ st.T.integral = st.m.integral /\ st.T.num = st.m.num /\ st.T.fpa = st.m.fpa
           \/ st.T.integral /\ ~st.m.integral

(* A chunk made for a machine, in either byte order, loads there as the    *)
(* function that was dumped; nested functions get back the source name     *)
(* they share with their parent.  (Code left in place cannot be swapped.)  *)
RoundTrip(r) ==
    (r.status = 0 /\ Fits /\ st.cut = 0 /\ (st.direct => st.T.little = st.m.little)) =>
        r.err = "" /\ r.f = Expected(st.f, Unknown, st.strip)

\* what a function holds that its target cannot
Oversized(f) ==
    \/ \E x \in {f.linedefined, Len(f.code)} : TooLarge(x, st.T.int, TRUE)
    \/ st.T.integral /\ \E i \in DOMAIN f.k : f.k[i].type = 3 /\ f.k[i].v = Fraction

\* how much is written before the first line number
LeadIn(f) == HeaderSize + st.T.strsize + (IF st.strip THEN 0 ELSE Len(f.source) + 1)

(* A chunk for a machine with other sizes, one that ends early and one     *)
(* that a failed dump left behind are refused; a dump that met a value its *)
(* target cannot hold has a status that says so.  But it may never return  *)
(* it: Align4 hangs a dump that failed, and only such a one, where the     *)
(* length is no multiple of four; for the first line number that depends   *)
(* on the name in front of it.                                             *)
BadChunkRefused(r) ==
    /\ (st.T.int # 4 \/ st.T.strsize # 4) /\ st.cut = 0 => r.err = "bad header"
    /\ Oversized(st.f) => r.status # 0
    /\ r.hangs => r.status # 0
    /\ TooLarge(st.f.linedefined, st.T.int, TRUE) => (r.hangs <=> LeadIn(st.f) % 4 # 0)
    /\ (st.cut # 0 \/ r.status # 0) /\ Fits => r.err # ""

(* Both, for what lundump.c makes of what ldump.c wrote.                   *)
ChunkTrue == LET r == Reloaded IN RoundTrip(r) /\ BadChunkRefused(r)
=============================================================================
