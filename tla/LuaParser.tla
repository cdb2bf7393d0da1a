------------------------------ MODULE LuaParser ------------------------------
(***************************************************************************)
(* lparser.c: the recursive descent over the tokens, which generates code  *)
(* as it goes.  X is the compiler's state of LuaCode; X.toks holds the     *)
(* tokens still to read, X.bl the blocks entered (the innermost first) and *)
(* X.up the states of the enclosing functions.  A syntax error sets X.err  *)
(* and skips to the end of the input.  Lines, names of locals for the      *)
(* debugger and the limits on counts are left out.                         *)
(***************************************************************************)
EXTENDS LuaCode

CONSTANTS Names, Numbers, Literals    \* tokens: names, token -> number, token -> string

EOS == "<eof>"
Tok(X) == Head(X.toks)
luaX_next(X) == [X EXCEPT !.toks = IF Len(@) > 1 THEN Tail(@) ELSE @]
luaX_syntaxerror(X) == [X EXCEPT !.err = TRUE, !.toks = <<EOS>>]
Is(X, c) == Tok(X) = c
checknext(X, c) == IF Is(X, c) THEN luaX_next(X) ELSE luaX_syntaxerror(X)
Is_name(X) == Tok(X) \in Names
checkNAME(X) == IF Is_name(X) THEN luaX_next(X) ELSE luaX_syntaxerror(X)
hasmultret(k) == k \in {"VCALL", "VVARARG"}

codestring(X, s) == LET r == addk(X, Str(s)) IN init_exp(r.x, "VK", r.i)
checkname(X) == checkNAME(codestring(X, Tok(X)))

-----------------------------------------------------------------------------
(* Local variables, upvalues and blocks *)

new_localvar(X, name, n) == [X EXCEPT !.actvar = SubSeq(@, 1, X.nactvar + n) \o <<name>>]
adjustlocalvars(X, nvars) == [X EXCEPT !.nactvar = @ + nvars]
removevars(X, tolevel) == [X EXCEPT !.nactvar = tolevel, !.actvar = SubSeq(@, 1, tolevel)]

indexupvalue(X, k, info) ==
    LET found == {i \in DOMAIN X.upvalues : X.upvalues[i] = [k |-> k, info |-> info]}
    IN  IF found # {} THEN [x |-> X, i |-> Min(found) - 1]
        ELSE [x |-> [X EXCEPT !.upvalues = Append(@, [k |-> k, info |-> info])], i |-> Len(X.upvalues)]

searchvar(X, n) == Max({i - 1 : i \in {j \in 1..X.nactvar : X.actvar[j] = n}} \cup {-1})
\* the block the variable was declared in will have to close it
markupval(X, level) ==
    LET outer == {i \in DOMAIN X.bl : X.bl[i].nactvar <= level}
    IN  IF outer = {} THEN X ELSE [X EXCEPT !.bl[Min(outer)].upval = TRUE]

\* chain: this function and the enclosing ones
RECURSIVE singlevaraux(_, _, _)
singlevaraux(chain, n, base) ==
    LET fs == Head(chain)
        v == searchvar(fs, n)
        r == singlevaraux(Tail(chain), n, FALSE)
        u == indexupvalue(fs, r.k, r.info)
    IN  IF chain = <<>> THEN [chain |-> <<>>, k |-> "VGLOBAL", info |-> NO_REG]
        ELSE IF v >= 0
        THEN [chain |-> <<IF base THEN fs ELSE markupval(fs, v)>> \o Tail(chain), k |-> "VLOCAL", info |-> v]
        ELSE IF r.k = "VGLOBAL" THEN [r EXCEPT !.chain = chain]
        ELSE [chain |-> <<u.x>> \o r.chain, k |-> "VUPVAL", info |-> u.i]
singlevar(S) ==
    LET r == singlevaraux(<<S>> \o S.up, Tok(S), TRUE)
        X == checkNAME(IF r.k = "VGLOBAL" THEN S ELSE [Head(r.chain) EXCEPT !.up = Tail(r.chain)])
        g == addk(X, Str(Tok(S)))
    IN  IF r.k = "VGLOBAL" THEN init_exp(g.x, "VGLOBAL", g.i) ELSE init_exp(X, r.k, r.info)

\* nvars values from nexps expressions, the last of which is at hand
adjust_assign(X, nvars, nexps) ==
    LET extra == nvars - nexps
        more == Max({extra + 1, 0})
        closed == IF X.e.k = "VVOID" THEN X ELSE luaK_exp2nextreg(X)
    IN  IF hasmultret(X.e.k)
        THEN LET r == luaK_setreturns(X, more) IN IF more > 1 THEN luaK_reserveregs(r, more - 1) ELSE r
        ELSE IF extra > 0 THEN luaK_nil(luaK_reserveregs(closed, extra), closed.freereg, extra)
        ELSE closed

enterblock(X, isbreakable) ==
    [lua_assert(X, X.freereg = X.nactvar) EXCEPT
        !.bl = <<[breaklist |-> NO_JUMP, breakable |-> isbreakable, nactvar |-> X.nactvar, upval |-> FALSE]>> \o @]
leaveblock_NoClose(S) ==
    LET bl == Head(S.bl)
        R == removevars([S EXCEPT !.bl = Tail(@)], bl.nactvar)
    IN  luaK_patchtohere([R EXCEPT !.freereg = R.nactvar], bl.breaklist)
leaveblock(S) ==
    LET bl == Head(S.bl)
        R == removevars([S EXCEPT !.bl = Tail(@)], bl.nactvar)
        C == lua_assert(IF bl.upval THEN luaK_codeABC(R, "CLOSE", bl.nactvar, 0, 0) ELSE R, ~bl.breakable \/ ~bl.upval)
    IN  luaK_patchtohere([C EXCEPT !.freereg = C.nactvar], bl.breaklist)

-----------------------------------------------------------------------------
(* Functions *)

Fresh == [code |-> <<>>, k |-> <<>>, p |-> <<>>, jpc |-> NO_JUMP, lasttarget |-> -1, freereg |-> 0, nactvar |-> 0,
          maxstack |-> 2, actvar |-> <<>>, upvalues |-> <<>>, bl |-> <<>>, numparams |-> 0, vararg |-> {},
          e |-> Exp("VVOID", 0), toks |-> <<EOS>>, up |-> <<>>, err |-> FALSE, bad |-> FALSE]
open_func(X) == [Fresh EXCEPT !.toks = X.toks, !.up = <<[X EXCEPT !.up = <<>>]>> \o X.up, !.err = X.err, !.bad = X.bad]

Proto(X) == [code |-> X.code, k |-> X.k, p |-> X.p, nups |-> Len(X.upvalues), numparams |-> X.numparams,
             vararg |-> X.vararg, maxstack |-> X.maxstack]
Finished(X) == luaK_ret(removevars(lua_assert(X, X.bl = <<>>), 0), 0, 0)

\* the closure's own instruction, and one for each upvalue
pushclosure(X, func) ==
    LET N == luaK_codeABx([X EXCEPT !.p = Append(@, Proto(func))], "CLOSURE", 0, Len(X.p))
        C == init_exp(N, "VRELOCABLE", Here(N))
    IN  FoldLeft(LAMBDA x, u : luaK_codeABC(x, IF u.k = "VLOCAL" THEN "MOVE" ELSE "GETUPVAL", 0, u.info, 0),
                 C, func.upvalues)
close_func(S) ==
    LET func == Finished(S)
    IN  pushclosure([Head(S.up) EXCEPT !.toks = S.toks, !.up = Tail(S.up), !.err = S.err, !.bad = func.bad], func)

RECURSIVE chunk(_)
RECURSIVE expr(_)
RECURSIVE constructor(_)
RECURSIVE primaryexp(_)

\* `...' declares the local `arg' too, for programs of the old style
RECURSIVE Params(_, _)
Params(X, n) ==
    LET P == new_localvar(luaX_next(X), Tok(X), n)
    IN  IF Is(X, "...")
        THEN [x |-> [new_localvar(luaX_next(X), "arg", n) EXCEPT !.vararg = {"has", "needs", "is"}], n |-> n + 1]
        ELSE IF ~Is_name(X) THEN [x |-> luaX_syntaxerror(X), n |-> n]
        ELSE IF Is(P, ",") THEN Params(luaX_next(P), n + 1) ELSE [x |-> P, n |-> n + 1]
parlist(X) ==
    LET r == IF Is(X, ")") THEN [x |-> X, n |-> 0] ELSE Params(X, 0)
        A == adjustlocalvars(r.x, r.n)
    IN  luaK_reserveregs([A EXCEPT !.numparams = A.nactvar - (IF "has" \in A.vararg THEN 1 ELSE 0)], A.nactvar)

body(X, needself) ==
    LET O == checknext(open_func(X), "(")
        F == IF needself THEN adjustlocalvars(new_localvar(O, "self", 0), 1) ELSE O
    IN  close_func(checknext(chunk(checknext(parlist(F), ")")), "end"))

-----------------------------------------------------------------------------
(* Expressions *)

RECURSIVE Explist(_, _)
Explist(X, n) == IF Is(X, ",") THEN Explist(expr(luaX_next(luaK_exp2nextreg(X))), n + 1) ELSE [x |-> X, n |-> n]
explist1(X) == Explist(expr(X), 1)

field(S) ==
    LET X == luaK_exp2anyreg(S) IN luaK_indexed(checkname(luaX_next(X)), X.e)
yindex(X) == checknext(luaK_exp2val(expr(luaX_next(X))), "]")

\* cc: the table's register, the list item read last, and how many are counted and pending
recfield(X, t) ==
    LET key == luaK_exp2RK(checknext(IF Is_name(X) THEN checkname(X) ELSE yindex(X), "="))
        val == luaK_exp2RK(expr(key))
    IN  [luaK_codeABC(val, "SETTABLE", t, RK(key), RK(val)) EXCEPT !.freereg = X.freereg]
closelistfield(X, t, cc) ==
    LET C == luaK_exp2nextreg([X EXCEPT !.e = cc.v])
        v == [cc.v EXCEPT !.k = "VVOID"]
    IN  IF cc.v.k = "VVOID" THEN [x |-> X, cc |-> cc]
        ELSE IF cc.tostore = LFIELDS_PER_FLUSH
        THEN [x |-> luaK_setlist(C, t, cc.na, cc.tostore), cc |-> [cc EXCEPT !.v = v, !.tostore = 0]]
        ELSE [x |-> C, cc |-> [cc EXCEPT !.v = v]]
lastlistfield(X, t, cc) ==
    LET V == [X EXCEPT !.e = cc.v]
    IN  IF cc.tostore = 0 THEN X
        ELSE IF hasmultret(cc.v.k) THEN luaK_setlist(luaK_setmultret(V), t, cc.na, LUA_MULTRET)
        ELSE luaK_setlist(IF cc.v.k = "VVOID" THEN X ELSE luaK_exp2nextreg(V), t, cc.na, cc.tostore)

RECURSIVE Fields(_, _, _)
Fields(S, t, cc0) ==
    LET r == closelistfield(S, t, cc0)
        X == r.x
        rec == Is(X, "[") \/ (Is_name(X) /\ X.toks[2] = "=")
        F == IF rec THEN recfield(X, t) ELSE expr(X)
        cc == IF rec THEN r.cc ELSE [r.cc EXCEPT !.v = F.e, !.na = @ + 1, !.tostore = @ + 1]
    IN  IF Is(S, "}") THEN [x |-> S, cc |-> cc0]
        ELSE IF Is(F, ",") \/ Is(F, ";") THEN Fields(luaX_next(F), t, cc) ELSE [x |-> F, cc |-> cc]
constructor(S) ==
    LET X == luaK_exp2nextreg(Relocable(init_exp(luaK_codeABC(S, "NEWTABLE", 0, 0, 0), "VVOID", 0)))
        r == Fields(checknext(X, "{"), X.e.info, [v |-> Exp("VVOID", 0), na |-> 0, tostore |-> 0])
    IN  [lastlistfield(checknext(r.x, "}"), X.e.info, r.cc) EXCEPT !.e = X.e]

\* the function is in its register; its arguments follow it
funcargs(S) ==
    LET f == S.e
        list == explist1(luaX_next(S)).x
        A == CASE Is(S, "(") /\ S.toks[2] = ")" -> init_exp(luaX_next(luaX_next(S)), "VVOID", 0)
               [] Is(S, "(") -> checknext(luaK_setmultret(list), ")")
               [] Is(S, "{") -> constructor(S)
               [] OTHER -> luaX_next(codestring(S, Literals[Tok(S)]))
        C == IF A.e.k = "VVOID" \/ hasmultret(A.e.k) THEN A ELSE luaK_exp2nextreg(A)
        nparams == IF hasmultret(A.e.k) THEN LUA_MULTRET ELSE C.freereg - (f.info + 1)
        K == luaK_codeABC(lua_assert(C, f.k = "VNONRELOC"), "CALL", f.info, nparams + 1, 2)
    IN  IF Is(S, "(") \/ Is(S, "{") \/ Tok(S) \in DOMAIN Literals
        THEN [init_exp(K, "VCALL", Here(K)) EXCEPT !.freereg = f.info + 1]
        ELSE luaX_syntaxerror(S)

prefixexp(X) ==
    CASE Is(X, "(") -> luaK_dischargevars(checknext(expr(luaX_next(X)), ")"))
      [] Is_name(X) -> singlevar(X)
      [] OTHER -> luaX_syntaxerror(X)
RECURSIVE Suffixed(_)
Suffixed(X) ==
    LET any == luaK_exp2anyreg(X)
        named == checkname(luaX_next(X))
    IN  CASE Is(X, ".") -> Suffixed(field(X))
          [] Is(X, "[") -> Suffixed(luaK_indexed(yindex(any), any.e))
          [] Is(X, ":") -> Suffixed(funcargs(luaK_self([named EXCEPT !.e = X.e], named.e)))
          [] Is(X, "(") \/ Is(X, "{") \/ Tok(X) \in DOMAIN Literals -> Suffixed(funcargs(luaK_exp2nextreg(X)))
          [] OTHER -> X
primaryexp(X) == Suffixed(prefixexp(X))

simpleexp(X) ==
    LET t == Tok(X)
        dots == luaK_codeABC([X EXCEPT !.vararg = @ \ {"needs"}], "VARARG", 0, 1, 0)
    IN  CASE t \in DOMAIN Numbers -> luaX_next([init_exp(X, "VKNUM", 0) EXCEPT !.e.nval = Numbers[t]])
          [] t \in DOMAIN Literals -> luaX_next(codestring(X, Literals[t]))
          [] t = "nil" -> luaX_next(init_exp(X, "VNIL", 0))
          [] t = "true" -> luaX_next(init_exp(X, "VTRUE", 0))
          [] t = "false" -> luaX_next(init_exp(X, "VFALSE", 0))
          [] t = "..." -> IF X.vararg = {} THEN luaX_syntaxerror(X) ELSE luaX_next(init_exp(dots, "VVARARG", Here(dots)))
          [] t = "{" -> constructor(X)
          [] t = "function" -> body(luaX_next(X), FALSE)
          [] OTHER -> primaryexp(X)

Unary == {"not", "-", "#"}
UNARY_PRIORITY == 8
\* left and right priority of the binary operators
priority == [o \in {"+", "-", "*", "/", "%", "^", "..", "~=", "==", "<", "<=", ">", ">=", "and", "or"} |->
                CASE o \in {"+", "-"} -> <<6, 6>> [] o \in {"*", "/", "%"} -> <<7, 7>>
                  [] o = "^" -> <<10, 9>> [] o = ".." -> <<5, 4>>          \* right associative
                  [] o = "and" -> <<2, 2>> [] o = "or" -> <<1, 1>> [] OTHER -> <<3, 3>>]
RightPriority(op) == priority[op][2]

RECURSIVE subexpr(_, _)
RECURSIVE Operators(_, _)
Operators(X, limit) ==
    LET op == Tok(X)
        L == luaK_infix(luaX_next(X), op)
    IN  IF op \in DOMAIN priority /\ priority[op][1] > limit
        THEN Operators(luaK_posfix(subexpr(L, RightPriority(op)), op, L.e), limit)
        ELSE X
subexpr(X, limit) ==
    Operators(IF Tok(X) \in Unary THEN luaK_prefix(subexpr(luaX_next(X), UNARY_PRIORITY), Tok(X)) ELSE simpleexp(X),
              limit)
expr(X) == subexpr(X, 0)

-----------------------------------------------------------------------------
(* Statements *)

block_follow(X) == Tok(X) \in {"else", "elseif", "end", "until", EOS}
block(X) == leaveblock(chunk(enterblock(X, FALSE)))

\* a local that an earlier target of the assignment still indexes with is copied first
check_conflict(X, lhs, v) ==
    LET Hit(r) == r = v.info
        conflict == \E i \in DOMAIN lhs : lhs[i].k = "VINDEXED" /\ (Hit(lhs[i].info) \/ Hit(lhs[i].aux))
        Safe(l) == IF l.k # "VINDEXED" THEN l
                   ELSE [l EXCEPT !.info = IF Hit(@) THEN X.freereg ELSE @, !.aux = IF Hit(@) THEN X.freereg ELSE @]
    IN  IF conflict
        THEN [x |-> luaK_reserveregs(luaK_codeABC(X, "MOVE", X.freereg, v.info, 0), 1),
              lhs |-> [i \in DOMAIN lhs |-> Safe(lhs[i])]]
        ELSE [x |-> X, lhs |-> lhs]

\* the targets get the values of the registers below the free one, the last target first
RECURSIVE Defaults(_, _)
Defaults(X, lhs) ==
    IF lhs = <<>> THEN X
    ELSE Defaults(luaK_storevar(init_exp(X, "VNONRELOC", X.freereg - 1), Last(lhs)), Front(lhs))
RECURSIVE assignment(_, _)
assignment(X, lhs) ==
    LET nv == primaryexp(luaX_next(X))
        c == IF nv.e.k = "VLOCAL" THEN check_conflict(nv, lhs, nv.e) ELSE [x |-> nv, lhs |-> lhs]
        r == explist1(checknext(X, "="))
        nvars == Len(lhs)
        A == adjust_assign(r.x, nvars, r.n)
        cut == IF r.n > nvars THEN [A EXCEPT !.freereg = @ - (r.n - nvars)] ELSE A
    IN  IF Last(lhs).k \notin {"VLOCAL", "VUPVAL", "VGLOBAL", "VINDEXED"} THEN luaX_syntaxerror(X)
        ELSE IF Is(X, ",") THEN assignment(c.x, Append(c.lhs, nv.e))
        ELSE IF r.n = nvars THEN Defaults(luaK_storevar(luaK_setoneret(r.x), Last(lhs)), Front(lhs))
        ELSE Defaults(cut, lhs)

\* leaves the jumps taken when the condition is false in e.f
cond(X) == LET E == expr(X) IN luaK_goiftrue(IF E.e.k = "VNIL" THEN [E EXCEPT !.e.k = "VFALSE"] ELSE E)

breakstat(X) ==
    LET loops == {i \in DOMAIN X.bl : X.bl[i].breakable}
        at == Min(loops)
        upval == \E i \in 1..(at - 1) : X.bl[i].upval
        j == luaK_jump(IF upval THEN luaK_codeABC(X, "CLOSE", X.bl[at].nactvar, 0, 0) ELSE X)
        r == luaK_concat(j.x, X.bl[at].breaklist, j.l)
    IN  IF loops = {} THEN luaX_syntaxerror(X) ELSE [r.x EXCEPT !.bl[at].breaklist = r.l]

whilestat(S) ==
    LET C == cond(luaK_getlabel(luaX_next(S)))
        j == luaK_jump(block(checknext(enterblock(C, TRUE), "do")))
    IN  luaK_patchtohere(leaveblock(checknext(luaK_patchlist(j.x, j.l, Pc(S)), "end")), C.e.f)

repeatstat(S) ==
    LET C == cond(checknext(chunk(luaX_next(enterblock(enterblock(luaK_getlabel(S), TRUE), FALSE))), "until"))
        j == luaK_jump(leaveblock(luaK_patchtohere(breakstat(C), C.e.f)))
    IN  leaveblock(IF ~Head(C.bl).upval THEN luaK_patchlist(leaveblock(C), C.e.f, Pc(S))
                   ELSE luaK_patchlist(j.x, j.l, Pc(S)))

exp1(X) == luaK_exp2nextreg(expr(X))
forbody(S, base, nvars, isnum) ==
    LET X == checknext(adjustlocalvars(S, 3), "do")
        prep == IF isnum THEN [x |-> luaK_codeABx(X, "FORPREP", base, NO_JUMP), l |-> Pc(X)] ELSE luaK_jump(X)
        B == leaveblock(block(luaK_reserveregs(adjustlocalvars(enterblock(prep.x, FALSE), nvars), nvars)))
        P == luaK_patchtohere(B, prep.l)
        loop == IF isnum THEN [x |-> luaK_codeABx(P, "FORLOOP", base, NO_JUMP), l |-> Pc(P)]
                ELSE luaK_jump(luaK_codeABC(P, "TFORLOOP", base, 0, nvars))
    IN  luaK_patchlist(loop.x, loop.l, prep.l + 1)

Hidden(X) == new_localvar(new_localvar(new_localvar(X, "(for 1)", 0), "(for 2)", 1), "(for 3)", 2)
fornum(X, varname) ==
    LET R == exp1(checknext(exp1(checknext(new_localvar(Hidden(X), varname, 3), "=")), ","))
        one == addk(R, Num(1))
        stepped == IF Is(R, ",") THEN exp1(luaX_next(R))
                   ELSE luaK_reserveregs(luaK_codeABx(one.x, "LOADK", R.freereg, one.i), 1)
    IN  forbody(stepped, X.freereg, 1, TRUE)
RECURSIVE ForNames(_, _)
ForNames(X, n) ==
    LET N == luaX_next(X)
    IN  IF Is(X, ",") THEN ForNames(checkNAME(new_localvar(N, Tok(N), n)), n + 1) ELSE [x |-> X, n |-> n]
forlist(X, indexname) ==
    LET r == ForNames(new_localvar(Hidden(X), indexname, 3), 4)
        l == explist1(checknext(r.x, "in"))
    IN  forbody(luaK_checkstack(adjust_assign(l.x, 3, l.n), 3), X.freereg, r.n - 3, FALSE)
forstat(S) ==
    LET N == luaX_next(enterblock(S, TRUE))
        X == checkNAME(N)
    IN  leaveblock(checknext(CASE Is(X, "=") -> fornum(X, Tok(N)) [] Is(X, ",") \/ Is(X, "in") -> forlist(X, Tok(N))
                               [] OTHER -> luaX_syntaxerror(X), "end"))

\* flist: the jumps of the last condition, when false; escapes: the jumps to the end
test_then_block(X) ==
    LET C == cond(luaX_next(X)) IN [x |-> block(checknext(C, "then")), flist |-> C.e.f]
RECURSIVE IfRest(_, _, _)
IfRest(X, flist, escapes) ==
    LET j == luaK_jump(X)
        esc == luaK_concat(j.x, escapes, j.l)
        next == luaK_patchtohere(esc.x, flist)
        t == test_then_block(next)
        all == luaK_concat(X, escapes, flist)
    IN  CASE Is(X, "elseif") -> IfRest(t.x, t.flist, esc.l)
          [] Is(X, "else") -> luaK_patchtohere(block(luaX_next(next)), esc.l)
          [] OTHER -> luaK_patchtohere(all.x, all.l)
ifstat(X) == LET t == test_then_block(X) IN checknext(IfRest(t.x, t.flist, NO_JUMP), "end")

localfunc(X) ==
    LET N == luaK_reserveregs(checkNAME(new_localvar(X, Tok(X), 0)), 1)
    IN  luaK_storevar(body(adjustlocalvars(N, 1), FALSE), Exp("VLOCAL", X.freereg))
RECURSIVE LocalNames(_, _)
LocalNames(X, n) ==
    LET N == checkNAME(new_localvar(X, Tok(X), n))
    IN  IF Is(N, ",") THEN LocalNames(luaX_next(N), n + 1) ELSE [x |-> N, n |-> n + 1]
localstat(X) ==
    LET r == LocalNames(X, 0)
        l == IF Is(r.x, "=") THEN explist1(luaX_next(r.x)) ELSE [x |-> init_exp(r.x, "VVOID", 0), n |-> 0]
    IN  adjustlocalvars(adjust_assign(l.x, r.n, l.n), r.n)

RECURSIVE FuncFields(_)
FuncFields(X) == IF Is(X, ".") THEN FuncFields(field(X)) ELSE X
funcstat(X) ==
    LET N == FuncFields(singlevar(luaX_next(X)))
        M == IF Is(N, ":") THEN field(N) ELSE N
    IN  luaK_storevar(body(M, Is(N, ":")), M.e)

exprstat(X) ==
    LET P == primaryexp(X)
    IN  IF P.e.k = "VCALL" THEN [P EXCEPT !.code[P.e.info + 1].c = 1] ELSE assignment(P, <<P.e>>)

retstat(S) ==
    LET N == luaX_next(S)
        r == explist1(N)
        M == luaK_setmultret(r.x)
        T == IF M.e.k = "VCALL" /\ r.n = 1
             THEN [lua_assert(M, Ins(M, M.e.info).a = M.nactvar) EXCEPT !.code[M.e.info + 1].op = "TAILCALL"] ELSE M
        one == luaK_exp2anyreg(r.x)
        many == luaK_exp2nextreg(r.x)
    IN  IF block_follow(N) \/ Is(N, ";") THEN luaK_ret(N, 0, 0)
        ELSE IF hasmultret(r.x.e.k) THEN luaK_ret(T, S.nactvar, LUA_MULTRET)
        ELSE IF r.n = 1 THEN luaK_ret(one, one.e.info, 1)
        ELSE luaK_ret(lua_assert(many, r.n = many.freereg - many.nactvar), S.nactvar, r.n)

statement(X) ==
    LET N == luaX_next(X)
    IN  CASE Is(X, "if") -> ifstat(X)
          [] Is(X, "while") -> whilestat(X)
          [] Is(X, "do") -> checknext(block(N), "end")
          [] Is(X, "for") -> forstat(X)
          [] Is(X, "repeat") -> repeatstat(X)
          [] Is(X, "function") -> funcstat(X)
          [] Is(X, "local") -> IF Is(N, "function") THEN localfunc(luaX_next(N)) ELSE localstat(N)
          [] Is(X, "return") -> retstat(X)
          [] Is(X, "break") -> breakstat(N)
          [] OTHER -> exprstat(X)

chunk(X) ==
    LET S == statement(X)
        N == IF Is(S, ";") THEN luaX_next(S) ELSE S
        A == [lua_assert(N, N.maxstack >= N.freereg /\ N.freereg >= N.nactvar) EXCEPT !.freereg = N.nactvar]
    IN  IF block_follow(X) THEN X ELSE IF Tok(X) \in {"return", "break"} THEN A ELSE chunk(A)

luaY_parser_NoEos(toks) == Finished(chunk([Fresh EXCEPT !.toks = toks \o <<EOS>>, !.vararg = {"is"}]))
luaY_parser(toks) ==
    LET X == chunk([Fresh EXCEPT !.toks = toks \o <<EOS>>, !.vararg = {"is"}])
    IN  Finished(IF Is(X, EOS) THEN X ELSE luaX_syntaxerror(X))
=============================================================================
