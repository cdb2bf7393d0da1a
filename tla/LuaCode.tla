------------------------------- MODULE LuaCode -------------------------------
(***************************************************************************)
(* lcode.c: the code generator of the one-pass compiler.  X is the         *)
(* FuncState of the function being compiled with the LexState and the      *)
(* expression at hand in X.e; every luaK function that C calls with        *)
(* (fs, e) is an operator from X to X.  An operator that returns a jump    *)
(* list gives [x, l].  Jump lists run through the offsets of the jumps     *)
(* themselves, as in the code.  Positions in the code count from 0.        *)
(***************************************************************************)
EXTENDS Integers, Sequences, SequencesExt, FiniteSetsExt

CONSTANTS MAXINDEXRK,          \* the last constant an operand can name (255)
          MAXARG_C,            \* the last block number OP_SETLIST can name (511)
          LFIELDS_PER_FLUSH    \* 50

NO_JUMP == -1
NO_REG == 255
LUA_MULTRET == -1
BITRK == 256
ISK(r) == r >= BITRK
RKASK(i) == i + BITRK
INDEXK(r) == r - BITRK

\* a value is a tuple with its type first, so that values of two types differ
Nil == <<"nil">>
Num(n) == <<"num", n>>
Str(s) == <<"str", s>>
Bool(b) == <<"bool", b>>

Exp(k, i) == [k |-> k, info |-> i, aux |-> 0, nval |-> 0, t |-> NO_JUMP, f |-> NO_JUMP]
init_exp(X, k, i) == [X EXCEPT !.e = Exp(k, i)]
hasjumps(e) == e.t # e.f
isnumeral(e) == e.k = "VKNUM" /\ e.t = NO_JUMP /\ e.f = NO_JUMP
lua_assert(X, cond) == [X EXCEPT !.bad = @ \/ ~cond]

Pc(X) == Len(X.code)
Here(X) == Len(X.code) - 1
Ins(X, pc) == X.code[pc + 1]
testTMode(op) == op \in {"EQ", "LT", "LE", "TEST", "TESTSET", "TFORLOOP"}

-----------------------------------------------------------------------------
(* Jumps *)

getjump(X, pc) == IF Ins(X, pc).b = NO_JUMP THEN NO_JUMP ELSE pc + 1 + Ins(X, pc).b
RECURSIVE Jumps(_, _)
Jumps(X, list) == IF list = NO_JUMP THEN <<>> ELSE <<list>> \o Jumps(X, getjump(X, list))

fixjump(X, pc, dest) == [lua_assert(X, dest # NO_JUMP) EXCEPT !.code[pc + 1].b = dest - (pc + 1)]
getjumpcontrol(X, pc) == IF pc >= 1 /\ testTMode(Ins(X, pc - 1).op) THEN pc - 1 ELSE pc

need_value(X, list) == \E j \in Range(Jumps(X, list)) : Ins(X, getjumpcontrol(X, j)).op # "TESTSET"

\* a TESTSET stores into reg, or is only a TEST when there is nothing to store
Patchable(X, node) == Ins(X, getjumpcontrol(X, node)).op = "TESTSET"
patchtestreg(X, node, reg) ==
    LET at == getjumpcontrol(X, node) + 1
        i == X.code[at]
    IN  IF ~Patchable(X, node) THEN X
        ELSE [X EXCEPT !.code[at] = IF reg # NO_REG /\ reg # i.b THEN [i EXCEPT !.a = reg]
                                    ELSE [op |-> "TEST", a |-> i.b, b |-> 0, c |-> i.c]]
removevalues(X, list) == FoldLeft(LAMBDA x, j : patchtestreg(x, j, NO_REG), X, Jumps(X, list))
patchlistaux(X, list, vtarget, reg, dtarget) ==
    FoldLeft(LAMBDA x, j : fixjump(patchtestreg(x, j, reg), j, IF Patchable(x, j) THEN vtarget ELSE dtarget),
             X, Jumps(X, list))
dischargejpc(X) == [patchlistaux(X, X.jpc, Pc(X), NO_REG, Pc(X)) EXCEPT !.jpc = NO_JUMP]

luaK_concat(X, l1, l2) ==
    IF l2 = NO_JUMP THEN [x |-> X, l |-> l1]
    ELSE IF l1 = NO_JUMP THEN [x |-> X, l |-> l2]
    ELSE [x |-> fixjump(X, Last(Jumps(X, l1)), l2), l |-> l1]
ConcatT(X, l) == LET r == luaK_concat(X, X.e.t, l) IN [r.x EXCEPT !.e.t = r.l]
ConcatF(X, l) == LET r == luaK_concat(X, X.e.f, l) IN [r.x EXCEPT !.e.f = r.l]

luaK_getlabel(X) == [X EXCEPT !.lasttarget = Pc(X)]
luaK_patchtohere(X, list) ==
    LET r == luaK_concat(luaK_getlabel(X), X.jpc, list) IN [r.x EXCEPT !.jpc = r.l]
luaK_patchlist(X, list, target) ==
    IF target = Pc(X) THEN luaK_patchtohere(X, list)
    ELSE patchlistaux(lua_assert(X, target < Pc(X)), list, target, NO_REG, target)

luaK_code(X, i) == [dischargejpc(X) EXCEPT !.code = Append(@, i)]
luaK_codeABC(X, o, a, b, c) == luaK_code(X, [op |-> o, a |-> a, b |-> b, c |-> c])
luaK_codeABx(X, o, a, bc) == luaK_codeABC(X, o, a, bc, 0)

\* jumps to here stay on hold: they will go where this one goes
luaK_jump(X) ==
    LET x == luaK_codeABx([X EXCEPT !.jpc = NO_JUMP], "JMP", 0, NO_JUMP) IN luaK_concat(x, Here(x), X.jpc)
condjump(X, op, a, b, c) == luaK_jump(luaK_codeABC(X, op, a, b, c))
luaK_ret(X, first, nret) == luaK_codeABC(X, "RETURN", first, nret + 1, 0)

-----------------------------------------------------------------------------
(* Registers and constants *)

luaK_checkstack(X, n) == [X EXCEPT !.maxstack = Max({@, X.freereg + n})]
luaK_reserveregs(X, n) == [luaK_checkstack(X, n) EXCEPT !.freereg = @ + n]
freereg(X, reg) ==
    IF ISK(reg) \/ reg < X.nactvar THEN X
    ELSE [lua_assert(X, reg = X.freereg - 1) EXCEPT !.freereg = @ - 1]
freeexp(X, e) == IF e.k = "VNONRELOC" THEN freereg(X, e.info) ELSE X

\* a register that is nil on entry, or that the LOADNIL before this one can take along
luaK_nil(X, from, n) ==
    LET p == Last(X.code)
        free == Pc(X) > X.lasttarget            \* no jumps to the current position
    IN  IF free /\ Pc(X) = 0 /\ from >= X.nactvar THEN X
        ELSE IF free /\ Pc(X) > 0 /\ p.op = "LOADNIL" /\ p.a <= from /\ from <= p.b + 1
        THEN [X EXCEPT !.code[Pc(X)].b = Max({@, from + n - 1})]
        ELSE luaK_codeABC(X, "LOADNIL", from, from + n - 1, 0)

addk(X, v) ==
    LET found == {i \in DOMAIN X.k : X.k[i] = v}
    IN  IF found # {} THEN [x |-> X, i |-> Min(found) - 1]
        ELSE [x |-> [X EXCEPT !.k = Append(@, v)], i |-> Len(X.k)]

\* the number of results of an open call or vararg expression
luaK_setreturns(X, nresults) ==
    IF X.e.k = "VCALL" THEN [X EXCEPT !.code[X.e.info + 1].c = nresults + 1]
    ELSE IF X.e.k = "VVARARG"
    THEN luaK_reserveregs([X EXCEPT !.code[X.e.info + 1].b = nresults + 1,
                                    !.code[X.e.info + 1].a = X.freereg], 1)
    ELSE X
luaK_setmultret(X) == luaK_setreturns(X, LUA_MULTRET)
luaK_setoneret(X) ==
    IF X.e.k = "VCALL" THEN [X EXCEPT !.e.k = "VNONRELOC", !.e.info = Ins(X, X.e.info).a]
    ELSE IF X.e.k = "VVARARG" THEN [X EXCEPT !.code[X.e.info + 1].b = 2, !.e.k = "VRELOCABLE"]
    ELSE X

Relocable(X) == [X EXCEPT !.e.k = "VRELOCABLE", !.e.info = Here(X)]
luaK_dischargevars(X) ==
    LET e == X.e
    IN  CASE e.k = "VLOCAL" -> [X EXCEPT !.e.k = "VNONRELOC"]
          [] e.k = "VUPVAL" -> Relocable(luaK_codeABC(X, "GETUPVAL", 0, e.info, 0))
          [] e.k = "VGLOBAL" -> Relocable(luaK_codeABx(X, "GETGLOBAL", 0, e.info))
          [] e.k = "VINDEXED" ->
                Relocable(luaK_codeABC(freereg(freereg(X, e.aux), e.info), "GETTABLE", 0, e.info, e.aux))
          [] e.k \in {"VVARARG", "VCALL"} -> luaK_setoneret(X)
          [] OTHER -> X

InReg(X, reg) == [X EXCEPT !.e.info = reg, !.e.k = "VNONRELOC"]
discharge2reg(S, reg) ==
    LET X == luaK_dischargevars(S)
        e == X.e
        K(r) == luaK_codeABx(r.x, "LOADK", reg, r.i)
    IN  CASE e.k = "VNIL" -> InReg(luaK_nil(X, reg, 1), reg)
          [] e.k \in {"VFALSE", "VTRUE"} ->
                InReg(luaK_codeABC(X, "LOADBOOL", reg, IF e.k = "VTRUE" THEN 1 ELSE 0, 0), reg)
          [] e.k = "VK" -> InReg(luaK_codeABx(X, "LOADK", reg, e.info), reg)
          [] e.k = "VKNUM" -> InReg(K(addk(X, Num(e.nval))), reg)
          [] e.k = "VRELOCABLE" -> InReg([X EXCEPT !.code[e.info + 1].a = reg], reg)
          [] e.k = "VNONRELOC" ->
                InReg(IF reg # e.info THEN luaK_codeABC(X, "MOVE", reg, e.info, 0) ELSE X, reg)
          [] OTHER -> lua_assert(X, e.k \in {"VVOID", "VJMP"})
discharge2anyreg(X) ==
    IF X.e.k = "VNONRELOC" THEN X ELSE discharge2reg(luaK_reserveregs(X, 1), X.freereg)

code_label(X, a, b, jump) == luaK_codeABC(luaK_getlabel(X), "LOADBOOL", a, b, jump)

\* jumps with a value store it and leave; the others load false or true on their way
exp2reg(S, reg) ==
    LET D == discharge2reg(S, reg)
        X == IF D.e.k = "VJMP" THEN ConcatT(D, D.e.info) ELSE D
        values == need_value(X, X.e.t) \/ need_value(X, X.e.f)
        fj == IF X.e.k = "VJMP" THEN [x |-> X, l |-> NO_JUMP] ELSE luaK_jump(X)
        p_f == Pc(fj.x)
        loads == luaK_patchtohere(code_label(code_label(fj.x, reg, 0, 1), reg, 1, 0), fj.l)
        L == luaK_getlabel(IF values THEN loads ELSE X)
        final == Pc(L)
        patched == patchlistaux(patchlistaux(L, X.e.f, final, reg, IF values THEN p_f ELSE NO_JUMP),
                                X.e.t, final, reg, IF values THEN p_f + 1 ELSE NO_JUMP)
    IN  [InReg(IF hasjumps(X.e) THEN patched ELSE X, reg) EXCEPT !.e.f = NO_JUMP, !.e.t = NO_JUMP]

luaK_exp2nextreg(S) ==
    LET D == luaK_dischargevars(S)
        X == luaK_reserveregs(freeexp(D, D.e), 1)
    IN  exp2reg(X, X.freereg - 1)
luaK_exp2anyreg(S) ==
    LET X == luaK_dischargevars(S)
    IN  IF X.e.k = "VNONRELOC" /\ ~hasjumps(X.e) THEN X
        ELSE IF X.e.k = "VNONRELOC" /\ X.e.info >= X.nactvar THEN exp2reg(X, X.e.info)
        ELSE luaK_exp2nextreg(X)
luaK_exp2val(X) == IF hasjumps(X.e) THEN luaK_exp2anyreg(X) ELSE luaK_dischargevars(X)

\* a constant the operand can name, or a register: RK tells which
luaK_exp2RK(S) ==
    LET X == luaK_exp2val(S)
        value == CASE X.e.k = "VNIL" -> Nil [] X.e.k = "VKNUM" -> Num(X.e.nval)
                   [] OTHER -> Bool(X.e.k = "VTRUE")
        r == addk(X, value)
    IN  IF X.e.k \in {"VKNUM", "VTRUE", "VFALSE", "VNIL"} /\ Len(X.k) <= MAXINDEXRK
        THEN [r.x EXCEPT !.e.info = r.i, !.e.k = "VK"]
        ELSE IF X.e.k = "VK" /\ X.e.info <= MAXINDEXRK THEN X
        ELSE luaK_exp2anyreg(X)
RK(X) == IF X.e.k = "VK" THEN RKASK(X.e.info) ELSE X.e.info

-----------------------------------------------------------------------------
(* Variables, conditions and operators *)

\* the expression at hand goes into var
luaK_storevar(X, var) ==
    LET any == luaK_exp2anyreg(X)
        rk == luaK_exp2RK(X)
        Done(x) == freeexp(x, x.e)
    IN  CASE var.k = "VLOCAL" -> exp2reg(freeexp(X, X.e), var.info)
          [] var.k = "VUPVAL" -> Done(luaK_codeABC(any, "SETUPVAL", any.e.info, var.info, 0))
          [] var.k = "VGLOBAL" -> Done(luaK_codeABx(any, "SETGLOBAL", any.e.info, var.info))
          [] var.k = "VINDEXED" -> Done(luaK_codeABC(rk, "SETTABLE", var.info, var.aux, RK(rk)))
          [] OTHER -> lua_assert(X, FALSE)

luaK_self(S, key) ==
    LET X == luaK_exp2anyreg(S)
        F == freeexp(X, X.e)
        K == luaK_exp2RK([luaK_reserveregs(F, 2) EXCEPT !.e = key])
    IN  [freeexp(luaK_codeABC(K, "SELF", F.freereg, X.e.info, RK(K)), K.e)
            EXCEPT !.e = [X.e EXCEPT !.info = F.freereg, !.k = "VNONRELOC"]]
luaK_indexed(X, t) ==
    LET K == luaK_exp2RK(X) IN [K EXCEPT !.e = [t EXCEPT !.aux = RK(K), !.k = "VINDEXED"]]

invertjump(X) ==
    LET at == getjumpcontrol(X, X.e.info) + 1
    IN  [lua_assert(X, X.code[at].op \in {"EQ", "LT", "LE"}) EXCEPT !.code[at].a = 1 - @]

\* a NOT before the test is taken out again
jumponcond_KeepsNot(X, cond) ==
    LET D == discharge2anyreg(X) IN condjump(freeexp(D, D.e), "TESTSET", NO_REG, D.e.info, 1 - cond)
jumponcond(X, cond) ==
    LET i == Ins(X, X.e.info)
        D == discharge2anyreg(X)
    IN  IF X.e.k = "VRELOCABLE" /\ i.op = "NOT"
        THEN condjump([X EXCEPT !.code = Front(@)], "TEST", i.b, 0, 1 - cond)
        ELSE condjump(freeexp(D, D.e), "TESTSET", NO_REG, D.e.info, cond)

luaK_goiftrue(S) ==
    LET D == luaK_dischargevars(S)
        r == CASE D.e.k \in {"VK", "VKNUM", "VTRUE"} -> [x |-> D, l |-> NO_JUMP]
               [] D.e.k = "VJMP" -> [x |-> invertjump(D), l |-> D.e.info]
               [] OTHER -> jumponcond(D, 0)
        X == ConcatF(r.x, r.l)
    IN  [luaK_patchtohere(X, X.e.t) EXCEPT !.e.t = NO_JUMP]
luaK_goiffalse(S) ==
    LET D == luaK_dischargevars(S)
        r == CASE D.e.k \in {"VNIL", "VFALSE"} -> [x |-> D, l |-> NO_JUMP]
               [] D.e.k = "VJMP" -> [x |-> D, l |-> D.e.info]
               [] OTHER -> jumponcond(D, 1)
        X == ConcatT(r.x, r.l)
    IN  [luaK_patchtohere(X, X.e.f) EXCEPT !.e.f = NO_JUMP]

codenot(S) ==
    LET D == luaK_dischargevars(S)
        R == discharge2anyreg(D)
        N == CASE D.e.k \in {"VNIL", "VFALSE"} -> [D EXCEPT !.e.k = "VTRUE"]
               [] D.e.k \in {"VK", "VKNUM", "VTRUE"} -> [D EXCEPT !.e.k = "VFALSE"]
               [] D.e.k = "VJMP" -> invertjump(D)
               [] OTHER -> Relocable(luaK_codeABC(freeexp(R, R.e), "NOT", 0, R.e.info, 0))
    IN  [removevalues(removevalues(N, N.e.t), N.e.f) EXCEPT !.e.f = N.e.t, !.e.t = N.e.f]

RECURSIVE Power(_, _)
Power(a, b) == IF b = 0 THEN 1 ELSE a * Power(a, b - 1)
Arithmetic(op, v1, v2) ==
    CASE op = "ADD" -> v1 + v2 [] op = "SUB" -> v1 - v2 [] op = "MUL" -> v1 * v2
      [] op = "DIV" -> v1 \div v2 [] op = "MOD" -> v1 % v2 [] op = "POW" -> Power(v1, v2) [] op = "UNM" -> -v1
\* what is computed at compile time: never a division by zero, a length or a concatenation
Folds(op, e1, e2) ==
    /\ isnumeral(e1) /\ isnumeral(e2) /\ op \notin {"LEN", "CONCAT"}
    /\ op \in {"DIV", "MOD"} => e2.nval # 0

\* e2 is at hand
codearith_FreeFirst(X, op, e1) ==
    LET X2 == IF op \in {"UNM", "LEN"} THEN X ELSE luaK_exp2RK(X)
        X1 == luaK_exp2RK([X2 EXCEPT !.e = e1])
        freed == freeexp(freeexp(X1, X1.e), X2.e)
    IN  IF Folds(op, e1, X.e) THEN [X EXCEPT !.e = [e1 EXCEPT !.nval = Arithmetic(op, e1.nval, X.e.nval)]]
        ELSE Relocable(luaK_codeABC(freed, op, 0, RK(X1), IF op \in {"UNM", "LEN"} THEN 0 ELSE RK(X2)))
codearith(X, op, e1) ==
    LET unary == op \in {"UNM", "LEN"}
        X2 == IF unary THEN X ELSE luaK_exp2RK(X)
        o2 == IF unary THEN 0 ELSE RK(X2)
        X1 == luaK_exp2RK([X2 EXCEPT !.e = e1])
        o1 == RK(X1)
        freed == IF o1 > o2 THEN freeexp(freeexp(X1, X1.e), X2.e) ELSE freeexp(freeexp(X1, X2.e), X1.e)
    IN  IF Folds(op, e1, X.e) THEN [X EXCEPT !.e = [e1 EXCEPT !.nval = Arithmetic(op, e1.nval, X.e.nval)]]
        ELSE Relocable(luaK_codeABC(freed, op, 0, o1, o2))

\* > and >= are < and <= with their operands exchanged
codecomp(X, op, cond, e1) ==
    LET X1 == luaK_exp2RK([X EXCEPT !.e = e1])
        X2 == luaK_exp2RK([X1 EXCEPT !.e = X.e])
        freed == freeexp(freeexp(X2, X2.e), X1.e)
        r == IF cond = 0 /\ op # "EQ" THEN condjump(freed, op, 1, RK(X2), RK(X1))
             ELSE condjump(freed, op, cond, RK(X1), RK(X2))
    IN  [r.x EXCEPT !.e = [X1.e EXCEPT !.info = r.l, !.k = "VJMP"]]

luaK_prefix(X, op) ==
    LET any == luaK_exp2anyreg(X)
        Zero(x) == [x EXCEPT !.e = Exp("VKNUM", 0)]
    IN  CASE op = "not" -> codenot(X)
          [] op = "-" -> IF isnumeral(X.e) THEN codearith(Zero(X), "UNM", X.e) ELSE codearith(Zero(any), "UNM", any.e)
          [] op = "#" -> codearith(Zero(any), "LEN", any.e)

ArithOp == [o \in {"+", "-", "*", "/", "%", "^"} |->
               CASE o = "+" -> "ADD" [] o = "-" -> "SUB" [] o = "*" -> "MUL" [] o = "/" -> "DIV"
                 [] o = "%" -> "MOD" [] o = "^" -> "POW"]
luaK_infix(X, op) ==
    CASE op = "and" -> luaK_goiftrue(X)
      [] op = "or" -> luaK_goiffalse(X)
      [] op = ".." -> luaK_exp2nextreg(X)
      [] op \in DOMAIN ArithOp /\ isnumeral(X.e) -> X
      [] OTHER -> luaK_exp2RK(X)

\* a..(b..c) is one instruction
PosfixConcat(S, e1) ==
    LET X == luaK_exp2val(S)
        i == Ins(X, X.e.info)
        grown == [freeexp(lua_assert(X, e1.info = i.b - 1), e1) EXCEPT !.code[X.e.info + 1].b = e1.info]
    IN  IF X.e.k = "VRELOCABLE" /\ i.op = "CONCAT"
        THEN [grown EXCEPT !.e = [e1 EXCEPT !.k = "VRELOCABLE", !.info = X.e.info]]
        ELSE codearith(luaK_exp2nextreg(X), "CONCAT", e1)

luaK_posfix(X, op, e1) ==
    CASE op = "and" -> ConcatF(luaK_dischargevars(lua_assert(X, e1.t = NO_JUMP)), e1.f)
      [] op = "or" -> ConcatT(luaK_dischargevars(lua_assert(X, e1.f = NO_JUMP)), e1.t)
      [] op = ".." -> PosfixConcat(X, e1)
      [] op = "==" -> codecomp(X, "EQ", 1, e1)
      [] op = "~=" -> codecomp(X, "EQ", 0, e1)
      [] op = "<" -> codecomp(X, "LT", 1, e1)
      [] op = "<=" -> codecomp(X, "LE", 1, e1)
      [] op = ">" -> codecomp(X, "LT", 0, e1)
      [] op = ">=" -> codecomp(X, "LE", 0, e1)
      [] OTHER -> codearith(X, ArithOp[op], e1)

luaK_setlist(X, base, nelems, tostore) ==
    LET c == ((nelems - 1) \div LFIELDS_PER_FLUSH) + 1
        b == IF tostore = LUA_MULTRET THEN 0 ELSE tostore
        far == luaK_code(luaK_codeABC(X, "SETLIST", base, b, 0), [op |-> "WORD", a |-> 0, b |-> c, c |-> 0])
    IN  [IF c <= MAXARG_C THEN luaK_codeABC(X, "SETLIST", base, b, c) ELSE far EXCEPT !.freereg = base + 1]
=============================================================================
