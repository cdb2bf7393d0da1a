-------------------------------- MODULE LuaVm --------------------------------
(***************************************************************************)
(* luaV_execute of lvm.c over the code LuaParser generates, with the calls *)
(* of ldo.c and the upvalues of lfunc.c, and luaG_checkcode of ldebug.c,   *)
(* which judges a function before it is run.  V is the lua_State: its      *)
(* stack (slot 0 is stack[1]), its CallInfos (the running one last), its   *)
(* open upvalues (the highest first), and the closures, upvalues and       *)
(* tables allocated so far.  There are no metatables and no hooks; C       *)
(* functions are represented by one that returns its arguments.            *)
(***************************************************************************)
EXTENDS LuaParser

CONSTANT StackSize

-----------------------------------------------------------------------------
(* ldebug.c *)

\* how an operand is used: register, register or constant, not at all
ModeB == [R |-> {"MOVE", "LOADNIL", "GETTABLE", "SELF", "UNM", "NOT", "LEN", "CONCAT", "TEST", "TESTSET"},
          K |-> {"SETTABLE", "ADD", "SUB", "MUL", "DIV", "MOD", "POW", "EQ", "LT", "LE"},
          N |-> {"TFORLOOP", "CLOSE"}]
ModeC == [R |-> {"CONCAT"},
          K |-> {"GETTABLE", "SETTABLE", "SELF", "ADD", "SUB", "MUL", "DIV", "MOD", "POW", "EQ", "LT", "LE"},
          N |-> {"MOVE", "LOADNIL", "GETUPVAL", "SETUPVAL", "UNM", "NOT", "LEN", "RETURN", "CLOSE", "VARARG"}]
Jumping == {"JMP", "FORLOOP", "FORPREP"}
checkreg(pt, r) == r < pt.maxstack
checkArgMode(pt, op, r, mode) ==
    /\ op \in mode.R => checkreg(pt, r)
    /\ op \in mode.K => IF ISK(r) THEN INDEXK(r) < Len(pt.k) ELSE checkreg(pt, r)
    /\ op \in mode.N => r = 0
luaG_checkopenop(i) == i.op \in {"CALL", "TAILCALL", "RETURN", "SETLIST"} /\ i.b = 0

precheck(pt) ==
    /\ pt.numparams + (IF "has" \in pt.vararg THEN 1 ELSE 0) <= pt.maxstack
    /\ "needs" \in pt.vararg => "has" \in pt.vararg
    /\ pt.code # <<>> /\ Last(pt.code).op = "RETURN"

CheckOp(pt, pc) ==
    LET i == pt.code[pc + 1]
        op == i.op
        next == pt.code[pc + 2]
        size == Len(pt.code)
        dest == pc + 1 + i.b
    IN  /\ checkreg(pt, i.a)
        /\ checkArgMode(pt, op, i.b, ModeB) /\ checkArgMode(pt, op, i.c, ModeC)
        /\ op \in {"LOADK", "GETGLOBAL", "SETGLOBAL"} => i.b < Len(pt.k)
        /\ op \in Jumping => /\ dest \in 0..(size - 1)
                             /\ dest > 0 => ~(pt.code[dest].op = "SETLIST" /\ pt.code[dest].c = 0)
        /\ testTMode(op) => pc + 2 < size /\ next.op = "JMP"
        /\ (op = "LOADBOOL" /\ i.c = 1) => pc + 2 < size /\ (next.op # "SETLIST" \/ next.c # 0)
        /\ op \in {"GETUPVAL", "SETUPVAL"} => i.b < pt.nups
        /\ op \in {"GETGLOBAL", "SETGLOBAL"} => pt.k[i.b + 1][1] = "str"
        /\ op = "SELF" => checkreg(pt, i.a + 1)
        /\ op = "CONCAT" => i.b < i.c
        /\ op = "TFORLOOP" => i.c >= 1 /\ checkreg(pt, i.a + 2 + i.c)
        /\ op \in {"FORLOOP", "FORPREP"} => checkreg(pt, i.a + 3)
        /\ op \in {"CALL", "TAILCALL"} => /\ i.b # 0 => checkreg(pt, i.a + i.b - 1)
                                          /\ i.c = 0 => luaG_checkopenop(next)
                                          /\ i.c > 1 => checkreg(pt, i.a + i.c - 2)
        /\ (op = "RETURN" /\ i.b > 1) => checkreg(pt, i.a + i.b - 2)
        /\ op = "SETLIST" => (i.b > 0 => checkreg(pt, i.a + i.b)) /\ (i.c = 0 => pc + 1 < size - 1)
        /\ op = "CLOSURE" => /\ i.b < Len(pt.p)
                             /\ LET nup == pt.p[i.b + 1].nups
                                IN  /\ pc + nup < size
                                    /\ \A j \in 1..nup : pt.code[pc + j + 1].op \in {"GETUPVAL", "MOVE"}
        /\ op = "VARARG" => /\ "is" \in pt.vararg /\ "needs" \notin pt.vararg
                            /\ i.b = 0 => luaG_checkopenop(next)
                            /\ checkreg(pt, i.a + i.b - 2)
\* the word after a SETLIST without a count is not an instruction
symbexec(pt) == /\ precheck(pt)
                /\ \A pc \in 0..(Len(pt.code) - 1) :
                       (pc > 0 /\ pt.code[pc].op = "SETLIST" /\ pt.code[pc].c = 0) \/ CheckOp(pt, pc)
RECURSIVE luaG_checkcode(_)
luaG_checkcode(pt) == symbexec(pt) /\ \A i \in DOMAIN pt.p : luaG_checkcode(pt.p[i])

-----------------------------------------------------------------------------
(* The state *)

Ci(V) == Last(V.ci)
Base(V) == Ci(V).base
Cl(V) == V.cls[Ci(V).cl]
Pt(V) == Cl(V).p
Code(V) == Pt(V).code[Ci(V).pc + 1]
Skip(V, n) == [V EXCEPT !.ci[Len(V.ci)].pc = @ + n]
Slot(V, s) == V.stack[s + 1]
SetSlot(V, s, v) == [V EXCEPT !.stack[s + 1] = v]
R(V, r) == Slot(V, Base(V) + r)
SetR(V, r, v) == SetSlot(V, Base(V) + r, v)
Operand(V, r) == IF ISK(r) THEN Pt(V).k[INDEXK(r) + 1] ELSE R(V, r)
Error(V) == [V EXCEPT !.status = "error"]
l_isfalse(v) == v \in {Nil, Bool(FALSE)}
\* values for the slots from s on
Fill(V, s, vals) ==
    [V EXCEPT !.stack = SubSeq(@, 1, s) \o vals \o SubSeq(@, s + Len(vals) + 1, Len(@))]
Nils(n) == [j \in 1..n |-> Nil]
ValuesOf(V, from, to) == SubSeq(V.stack, from + 1, to)      \* to is not included
IsFn(v) == v[1] = "fn"

\* numbers written as strings count, and numbers can be written
ToNumber(v) == IF v[1] = "num" THEN v
               ELSE IF v[1] = "str" /\ v[2] \in DOMAIN Numbers THEN Num(Numbers[v[2]]) ELSE Nil
ToStr(v) == IF v[1] = "num" THEN ToString(v[2]) ELSE v[2]

luaF_findupval(V, s) ==
    LET found == {i \in DOMAIN V.openup : V.uv[V.openup[i]].at = s}
        above == Cardinality({i \in DOMAIN V.openup : V.uv[V.openup[i]].at > s})
        new == Len(V.uv) + 1
    IN  IF found # {} THEN [v |-> V, u |-> V.openup[Min(found)]]
        ELSE [v |-> [V EXCEPT !.uv = Append(@, [at |-> s, val |-> Nil]), !.openup = InsertAt(@, above + 1, new)], u |-> new]
luaF_close(V, level) ==
    LET shut == {u \in Range(V.openup) : V.uv[u].at >= level}
    IN  [V EXCEPT !.openup = SelectSeq(@, LAMBDA u : u \notin shut),
                  !.uv = [u \in DOMAIN @ |-> IF u \in shut THEN [at |-> -1, val |-> Slot(V, @[u].at)] ELSE @[u]]]
Upval(V, u) == IF V.uv[u].at >= 0 THEN Slot(V, V.uv[u].at) ELSE V.uv[u].val
SetUpval(V, u, v) == IF V.uv[u].at >= 0 THEN SetSlot(V, V.uv[u].at, v) ELSE [V EXCEPT !.uv[u].val = v]

Lookup(tab, key) == IF key \in DOMAIN tab THEN tab[key] ELSE Nil
Stored(tab, key, v) == [k \in DOMAIN tab \cup {key} |-> IF k = key THEN v ELSE tab[k]]
luaV_gettable(V, t, key, r) ==
    IF t[1] = "tab" THEN SetR(V, r, Lookup(V.tabs[t[2]], key)) ELSE Error(V)
luaV_settable(V, t, key, v) ==
    IF t[1] = "tab" /\ key # Nil THEN [V EXCEPT !.tabs[t[2]] = Stored(@, key, v)] ELSE Error(V)
NewTable(V, r, tab) == SetR([V EXCEPT !.tabs = Append(@, tab)], r, <<"tab", Len(V.tabs) + 1>>)
Border(tab) == Max({0} \cup {n \in 1..Cardinality(DOMAIN tab) : \A j \in 1..n : Lookup(tab, Num(j)) # Nil})

-----------------------------------------------------------------------------
(* Calls: ldo.c *)

\* the fixed arguments move above the others; a function of the old style gets `arg'
adjust_varargs(S, p, func) ==
    LET actual == Max({S.top - func - 1, p.numparams})
        V == Fill(S, S.top, Nils(actual - (S.top - func - 1)))
        args == ValuesOf(V, func + 1, func + 1 + actual)
        extra == SubSeq(args, p.numparams + 1, actual)
        base == func + 1 + actual
        arg == [k \in {Num(j) : j \in DOMAIN extra} \cup {Str("n")} |->
                   IF k = Str("n") THEN Num(Len(extra)) ELSE extra[k[2]]]
        M == Fill(Fill(V, base, SubSeq(args, 1, p.numparams)), func + 1, Nils(p.numparams))
        top == base + p.numparams
    IN  IF "needs" \in p.vararg
        THEN [SetSlot([M EXCEPT !.tabs = Append(@, arg)], top, <<"tab", Len(M.tabs) + 1>>) EXCEPT !.top = top + 1]
        ELSE [M EXCEPT !.top = top]

\* the caller wants so many of the results from first to the top; returns to it
luaD_poscall(V, first) ==
    LET ci == Ci(V)
        have == ValuesOf(V, first, V.top)
        n == IF ci.nresults = LUA_MULTRET THEN Len(have) ELSE ci.nresults
        vals == [j \in 1..n |-> IF j <= Len(have) THEN have[j] ELSE Nil]
    IN  [Fill(V, ci.func, vals) EXCEPT !.ci = Front(@), !.top = ci.func + n]
TopBack(V) == [V EXCEPT !.top = Ci(V).top]

\* a Lua function gets its frame (tag says who goes on when it returns), a C function is run
luaD_precall(V, func, nresults, tag) ==
    LET f == Slot(V, func)
        p == V.cls[f[2]].p
        nargs == V.top - func - 1
        A == IF p.vararg = {} THEN [V EXCEPT !.top = Min({@, func + 1 + p.numparams})] ELSE adjust_varargs(V, p, func)
        base == IF p.vararg = {} THEN func + 1 ELSE func + 1 + Max({nargs, p.numparams})
        frame == [func |-> func, base |-> base, top |-> base + p.maxstack, pc |-> 0, cl |-> f[2],
                  nresults |-> nresults, tag |-> tag]
    IN  CASE IsFn(f) -> [Fill(A, A.top, Nils(Max({0, frame.top - A.top}))) EXCEPT !.ci = Append(@, frame), !.top = frame.top]
          [] f[1] = "cfn" -> luaD_poscall([V EXCEPT !.ci = Append(@, [func |-> func, nresults |-> nresults])],
                                          V.top - nargs)
          [] OTHER -> Error(V)

\* the second half of OP_TFORLOOP: pc is at its jump
TforEnd(S) ==
    LET V == TopBack(S)
        a == Pt(V).code[Ci(V).pc].a
    IN  IF R(V, a + 3) = Nil THEN Skip(V, 1) ELSE Skip(SetR(V, a + 2, R(V, a + 3)), 1 + Code(V).b)

-----------------------------------------------------------------------------
(* One instruction; W is the state with the pc past it *)

Branch(W, taken) == Skip(W, IF taken THEN 1 + Code(W).b ELSE 1)
ArithOf(W, i) ==
    LET b == ToNumber(Operand(W, i.b))
        c == ToNumber(IF i.op = "UNM" THEN Operand(W, i.b) ELSE Operand(W, i.c))
    IN  IF b = Nil \/ c = Nil THEN Error(W) ELSE SetR(W, i.a, Num(Arithmetic(i.op, b[2], c[2])))
\* strcoll in the C locale, over the characters the programs' strings are made of
Collation == "-0123456789ns"
Rank(s, j) == CHOOSE n \in 1..Len(Collation) : SubSeq(Collation, n, n) = SubSeq(s, j, j)
RECURSIVE strcoll(_, _)
strcoll(l, r) ==
    IF l = "" \/ r = "" THEN Len(l) - Len(r)
    ELSE IF Rank(l, 1) # Rank(r, 1) THEN Rank(l, 1) - Rank(r, 1)
    ELSE strcoll(Tail(l), Tail(r))
\* no string of the programs holds a \0: the first turn of the loop decides
l_strcmp(l, r) == strcoll(l, r)
Compare(W, i) ==
    LET b == Operand(W, i.b)
        c == Operand(W, i.c)
        diff == IF b[1] = "num" THEN b[2] - c[2] ELSE l_strcmp(b[2], c[2])
        yes == IF i.op = "LT" THEN diff < 0 ELSE diff <= 0
    IN  IF b[1] # c[1] \/ b[1] \notin {"num", "str"} THEN Error(W) ELSE Branch(W, yes <=> (i.a = 1))
luaV_concat(W, i) ==
    LET vals == ValuesOf(W, Base(W) + i.b, Base(W) + i.c + 1)
        joined == Str(FoldLeft(LAMBDA s, v : s \o ToStr(v), "", vals))
    IN  IF \E v \in Range(vals) : v[1] \notin {"num", "str"} THEN Error(W)
        ELSE SetR(SetR(W, i.b, joined), i.a, joined)

OpCall(W, i) ==
    LET func == Base(W) + i.a
        V == IF i.b # 0 THEN [W EXCEPT !.top = func + i.b] ELSE W
        P == luaD_precall(V, func, i.c - 1, "call")
    IN  IF Len(P.ci) = Len(W.ci) /\ i.c - 1 >= 0 THEN TopBack(P) ELSE P

\* the new frame takes the place of this one
OpTailcall(W, i) ==
    LET pfunc == Base(W) + i.a
        V == IF i.b # 0 THEN [W EXCEPT !.top = pfunc + i.b] ELSE W
        P == luaD_precall(V, pfunc, LUA_MULTRET, "call")
        new == Ci(P)
        ci == W.ci[Len(W.ci)]
        C == luaF_close(P, ci.base)
        moved == Fill(C, ci.func, ValuesOf(C, pfunc, C.top))
        top == ci.func + (C.top - pfunc)
    IN  IF Len(P.ci) = Len(W.ci) THEN P
        ELSE [moved EXCEPT !.ci = Append(Front(W.ci), [ci EXCEPT !.base = ci.func + (new.base - pfunc), !.top = top,
                                                                 !.pc = new.pc, !.cl = new.cl]),
                           !.top = top]
OpReturn(W, i) ==
    LET first == Base(W) + i.a
        V == luaF_close(IF i.b # 0 THEN [W EXCEPT !.top = first + i.b - 1] ELSE W, Base(W))
        P == luaD_poscall(V, first)
        ci == Ci(W)
    IN  CASE ci.tag = "host" -> [P EXCEPT !.status = "done", !.result = ValuesOf(P, ci.func, P.top)]
          [] ci.tag = "tfor" -> TforEnd(P)
          [] OTHER -> IF ci.nresults # LUA_MULTRET THEN TopBack(P) ELSE P

OpForloop(W, i) ==
    LET step == R(W, i.a + 2)[2]
        idx == R(W, i.a)[2] + step
        limit == R(W, i.a + 1)[2]
    IN  IF IF 0 < step THEN idx <= limit ELSE limit <= idx
        THEN Skip(SetR(SetR(W, i.a, Num(idx)), i.a + 3, Num(idx)), i.b) ELSE W
OpForprep(W, i) ==
    LET n == [j \in 0..2 |-> ToNumber(R(W, i.a + j))]
    IN  IF Nil \in {n[0], n[1], n[2]} THEN Error(W)
        ELSE Skip(Fill(W, Base(W) + i.a, <<Num(n[0][2] - n[2][2]), n[1], n[2]>>), i.b)
OpTforloop(W, i) ==
    LET cb == Base(W) + i.a + 3
        V == [Fill(W, cb, ValuesOf(W, Base(W) + i.a, cb)) EXCEPT !.top = cb + 3]
        P == luaD_precall(V, cb, i.c, "tfor")
    IN  IF Len(P.ci) = Len(W.ci) /\ P.status = "run" THEN TforEnd(P) ELSE P

OpSetlist(W, i) ==
    LET ra == Base(W) + i.a
        n == IF i.b = 0 THEN W.top - ra - 1 ELSE i.b
        V == IF i.b = 0 THEN TopBack(W) ELSE W
        c == IF i.c = 0 THEN Code(W).b ELSE i.c
        first == (c - 1) * LFIELDS_PER_FLUSH
        t == Slot(W, ra)[2]
        tab == V.tabs[t]
        new == {Num(first + j) : j \in 1..n}
    IN  Skip([V EXCEPT !.tabs[t] = [k \in DOMAIN tab \cup new |->
                                       IF k \in new THEN Slot(W, ra + k[2] - first) ELSE tab[k]]],
             IF i.c = 0 THEN 1 ELSE 0)

RECURSIVE Capture(_, _, _)
Capture(W, nup, ups) ==
    LET i == Code(W)
        r == luaF_findupval(W, Base(W) + i.b)
    IN  IF nup = 0 THEN [v |-> W, ups |-> ups]
        ELSE IF i.op = "GETUPVAL" THEN Capture(Skip(W, 1), nup - 1, Append(ups, Cl(W).upvals[i.b + 1]))
        ELSE Capture(Skip(r.v, 1), nup - 1, Append(ups, r.u))
OpClosure(W, i) ==
    LET p == Pt(W).p[i.b + 1]
        id == Len(W.cls) + 1
        r == Capture(SetR([W EXCEPT !.cls = Append(@, [p |-> p, upvals |-> <<>>])], i.a, <<"fn", id>>), p.nups, <<>>)
    IN  [r.v EXCEPT !.cls[id].upvals = r.ups]

OpVararg(W, i) ==
    LET ci == Ci(W)
        n == ci.base - ci.func - Pt(W).numparams - 1
        extra == ValuesOf(W, ci.base - n, ci.base)
        all == Fill(W, ci.base + i.a, extra)
    IN  IF i.b = 0 THEN [all EXCEPT !.top = ci.base + i.a + n]
        ELSE Fill(W, ci.base + i.a, [j \in 1..(i.b - 1) |-> IF j <= n THEN extra[j] ELSE Nil])

luaV_execute(S) ==
    LET i == Code(S)
        W == [Skip(S, 1) EXCEPT !.bad = @ \/ ~(S.top = Ci(S).top \/ luaG_checkopenop(i))]
        G == <<"tab", 1>>
        len == LET v == R(W, i.b) IN IF v[1] = "tab" THEN Num(Border(W.tabs[v[2]]))
                                     ELSE IF v[1] = "str" THEN Num(Len(v[2])) ELSE Nil
    IN  CASE i.op = "MOVE" -> SetR(W, i.a, R(W, i.b))
          [] i.op = "LOADK" -> SetR(W, i.a, Pt(W).k[i.b + 1])
          [] i.op = "LOADBOOL" -> Skip(SetR(W, i.a, Bool(i.b = 1)), i.c)
          [] i.op = "LOADNIL" -> Fill(W, Base(W) + i.a, Nils(i.b - i.a + 1))
          [] i.op = "GETUPVAL" -> SetR(W, i.a, Upval(W, Cl(W).upvals[i.b + 1]))
          [] i.op = "SETUPVAL" -> SetUpval(W, Cl(W).upvals[i.b + 1], R(W, i.a))
          [] i.op = "GETGLOBAL" -> luaV_gettable(W, G, Pt(W).k[i.b + 1], i.a)
          [] i.op = "SETGLOBAL" -> luaV_settable(W, G, Pt(W).k[i.b + 1], R(W, i.a))
          [] i.op = "GETTABLE" -> luaV_gettable(W, R(W, i.b), Operand(W, i.c), i.a)
          [] i.op = "SETTABLE" -> luaV_settable(W, R(W, i.a), Operand(W, i.b), Operand(W, i.c))
          [] i.op = "NEWTABLE" -> NewTable(W, i.a, [k \in {} |-> Nil])
          [] i.op = "SELF" -> luaV_gettable(SetR(W, i.a + 1, R(W, i.b)), R(W, i.b), Operand(W, i.c), i.a)
          [] i.op \in {"ADD", "SUB", "MUL", "DIV", "MOD", "POW", "UNM"} -> ArithOf(W, i)
          [] i.op = "NOT" -> SetR(W, i.a, Bool(l_isfalse(R(W, i.b))))
          [] i.op = "LEN" -> IF len = Nil THEN Error(W) ELSE SetR(W, i.a, len)
          [] i.op = "CONCAT" -> luaV_concat(W, i)
          [] i.op = "JMP" -> Skip(W, i.b)
          [] i.op = "EQ" -> Branch(W, (Operand(W, i.b) = Operand(W, i.c)) <=> (i.a = 1))
          [] i.op \in {"LT", "LE"} -> Compare(W, i)
          [] i.op = "TEST" -> Branch(W, l_isfalse(R(W, i.a)) # (i.c = 1))
          [] i.op = "TESTSET" -> LET yes == l_isfalse(R(W, i.b)) # (i.c = 1)
                                 IN  Branch(IF yes THEN SetR(W, i.a, R(W, i.b)) ELSE W, yes)
          [] i.op = "CALL" -> OpCall(W, i)
          [] i.op = "TAILCALL" -> OpTailcall(W, i)
          [] i.op = "RETURN" -> OpReturn(W, i)
          [] i.op = "FORLOOP" -> OpForloop(W, i)
          [] i.op = "FORPREP" -> OpForprep(W, i)
          [] i.op = "TFORLOOP" -> OpTforloop(W, i)
          [] i.op = "SETLIST" -> OpSetlist(W, i)
          [] i.op = "CLOSE" -> luaF_close(W, Base(W) + i.a)
          [] i.op = "CLOSURE" -> OpClosure(W, i)
          [] i.op = "VARARG" -> OpVararg(W, i)

\* the chunk is called with arguments, from the host; globals are the first table
Loaded(p, globals, args) ==
    LET V == [stack |-> <<<<"fn", 1>>>> \o args \o Nils(StackSize - 1 - Len(args)),
              ci |-> <<[func |-> 0, base |-> 0, top |-> 0, pc |-> 0, cl |-> 0, nresults |-> 0, tag |-> "base"]>>,
              top |-> 1 + Len(args), openup |-> <<>>, uv |-> <<>>, cls |-> <<[p |-> p, upvals |-> <<>>]>>,
              tabs |-> <<globals>>, status |-> "run", result |-> <<>>, bad |-> FALSE]
    IN  luaD_precall(V, 0, LUA_MULTRET, "host")
=============================================================================
