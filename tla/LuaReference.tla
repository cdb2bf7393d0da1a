---------------------------- MODULE LuaReference -----------------------------
(***************************************************************************)
(* What a Lua program means, straight from its syntax tree: variables are  *)
(* cells, a function keeps the cells it sees, and the priorities of the    *)
(* operators are those of the manual.  The compiler and the virtual        *)
(* machine are checked against it: a program is written out as tokens,     *)
(* compiled by LuaParser, judged by luaG_checkcode and run by LuaVm.       *)
(*                                                                         *)
(* Expressions: <<"K", token>>, <<"V", name>>, <<"...">>, <<"P", e>> (in   *)
(* parentheses), <<"U", op, e>>, <<"B", op, e, e>>, <<"I", e, key>>,       *)
(* <<"C", f, args>>, <<"M", e, name, args>>, <<"T", fields>> (a field is   *)
(* <<e>> or <<key, e>>) and <<"F", params, block>>.  The last parameter    *)
(* may be "...", or "arg" for a function that uses the table instead.      *)
(***************************************************************************)
EXTENDS LuaVm

CONSTANTS Expressions, Programs, Wrong,   \* syntax trees, blocks, token sequences with an error
          Arguments                       \* lists of values the chunk is called with

VARIABLES st, out
vars == <<st, out>>

-----------------------------------------------------------------------------
(* Writing a program *)

Level == [o \in DOMAIN priority |->
             CASE o = "or" -> 1 [] o = "and" -> 2 [] o = ".." -> 4 [] o \in {"+", "-"} -> 5
               [] o \in {"*", "/", "%"} -> 6 [] o = "^" -> 8 [] OTHER -> 3]
Join(seqs) == FlattenSeq([i \in DOMAIN seqs |-> IF i = 1 THEN seqs[i] ELSE <<",">> \o seqs[i]])
RECURSIVE Text(_, _)
RECURSIVE Block(_)
Texts(es) == Join([i \in DOMAIN es |-> Text(es[i], 0)])
Comma(names) == Join([i \in DOMAIN names |-> <<names[i]>>])
FieldText(f) == IF Len(f) = 1 THEN Text(f[1], 0) ELSE <<"[">> \o Text(f[1], 0) \o <<"]", "=">> \o Text(f[2], 0)
BodyText(f) == <<"(">> \o Comma([i \in DOMAIN f[2] |-> IF f[2][i] = "arg" THEN "..." ELSE f[2][i]]) \o <<")">>
               \o Block(f[3]) \o <<"end">>
Text(e, level) ==
    LET mine == IF e[1] = "B" THEN Level[e[2]] ELSE IF e[1] = "U" THEN 7
                ELSE IF e[1] \in {"V", "I", "C", "M", "P"} THEN 10 ELSE 9
        right == e[1] = "B" /\ e[2] \in {"..", "^"}
        bare == CASE e[1] \in {"K", "V"} -> <<e[2]>>
                  [] e[1] = "..." -> e
                  [] e[1] = "P" -> <<"(">> \o Text(e[2], 0) \o <<")">>
                  [] e[1] = "U" -> <<e[2]>> \o Text(e[3], 7)
                  [] e[1] = "B" -> Text(e[3], IF right THEN mine + 1 ELSE mine) \o <<e[2]>>
                                   \o Text(e[4], IF e[2] = "^" THEN 7 ELSE IF right THEN mine ELSE mine + 1)
                  [] e[1] = "I" -> Text(e[2], 10) \o <<"[">> \o Text(e[3], 0) \o <<"]">>
                  [] e[1] = "C" -> Text(e[2], 10) \o <<"(">> \o Texts(e[3]) \o <<")">>
                  [] e[1] = "M" -> Text(e[2], 10) \o <<":", e[3], "(">> \o Texts(e[4]) \o <<")">>
                  [] e[1] = "T" -> <<"{">> \o Join([i \in DOMAIN e[2] |-> FieldText(e[2][i])]) \o <<"}">>
                  [] e[1] = "F" -> <<"function">> \o BodyText(e)
    IN  IF mine < level THEN <<"(">> \o bare \o <<")">> ELSE bare

Clauses(s) == FlattenSeq([i \in DOMAIN s |-> <<IF i = 1 THEN "if" ELSE "elseif">> \o Text(s[i][1], 0) \o <<"then">> \o Block(s[i][2])])
Statement(s) ==
    CASE s[1] = "local" -> <<"local">> \o Comma(s[2]) \o (IF s[3] = <<>> THEN <<>> ELSE <<"=">> \o Texts(s[3]))
      [] s[1] = "assign" -> Texts(s[2]) \o <<"=">> \o Texts(s[3])
      [] s[1] = "call" -> Text(s[2], 0)
      [] s[1] = "do" -> <<"do">> \o Block(s[2]) \o <<"end">>
      [] s[1] = "while" -> <<"while">> \o Text(s[2], 0) \o <<"do">> \o Block(s[3]) \o <<"end">>
      [] s[1] = "repeat" -> <<"repeat">> \o Block(s[2]) \o <<"until">> \o Text(s[3], 0)
      [] s[1] = "if" -> Clauses(s[2]) \o (IF s[3] = <<>> THEN <<>> ELSE <<"else">> \o Block(s[3])) \o <<"end">>
      [] s[1] = "for" -> <<"for", s[2], "=">> \o Texts(s[3]) \o <<"do">> \o Block(s[4]) \o <<"end">>
      [] s[1] = "forin" -> <<"for">> \o Comma(s[2]) \o <<"in">> \o Texts(s[3]) \o <<"do">> \o Block(s[4]) \o <<"end">>
      [] s[1] = "localfunc" -> <<"local", "function", s[2]>> \o BodyText(s[3])
      [] s[1] = "func" -> <<"function", s[2]>> \o FlattenSeq([i \in DOMAIN s[3] |-> <<".", s[3][i]>>])
                          \o (IF s[4] = "" THEN <<>> ELSE <<":", s[4]>>) \o BodyText(s[5])
      [] s[1] = "return" -> <<"return">> \o Texts(s[2])
      [] s[1] = "break" -> s
Block(b) == FlattenSeq([i \in DOMAIN b |-> Statement(b[i]) \o <<";">>])

-----------------------------------------------------------------------------
(* Its meaning: g has the cells, tables and functions made so far; en the  *)
(* visible names, innermost first, with their cells, and the values of ... *)

Bind(g, en, names, vals) ==
    LET cell == [i \in DOMAIN names |-> Len(g.cells) + i]
        v == [i \in DOMAIN names |-> IF i <= Len(vals) THEN vals[i] ELSE Nil]
    IN  [g |-> [g EXCEPT !.cells = @ \o v],
         en |-> [en EXCEPT !.names = Reverse([i \in DOMAIN names |-> <<names[i], cell[i]>>]) \o @]]
CellOf(en, name) == SelectInSeq(en.names, LAMBDA b : b[1] = name)
Fail(g) == [g EXCEPT !.err = TRUE]
One(r) == IF r.v = <<>> THEN Nil ELSE r.v[1]
Give(g, v) == [g |-> g, v |-> <<v>>]

Unop(op, v) ==
    CASE op = "not" -> Bool(l_isfalse(v))
      [] op = "-" -> IF ToNumber(v) = Nil THEN Nil ELSE Num(-ToNumber(v)[2])
      [] op = "#" -> IF v[1] = "str" THEN Num(Len(v[2])) ELSE Nil
\* the order of the dictionary: a proper beginning comes first
Before(l, r) ==
    \E k \in 1..Len(r) : /\ Len(l) >= k - 1
                         /\ SubSeq(l, 1, k - 1) = SubSeq(r, 1, k - 1)
                         /\ k > Len(l) \/ Rank(l, k) < Rank(r, k)
Less(v, w) == IF v[1] = "num" THEN v[2] < w[2] ELSE Before(v[2], w[2])
\* Nil stands for a type error
Binop(op, v, w) ==
    CASE op = "==" -> Bool(v = w)
      [] op = "~=" -> Bool(v # w)
      [] op \in {"<", "<=", ">", ">="} ->
            IF v[1] # w[1] \/ v[1] \notin {"num", "str"} THEN Nil
            ELSE Bool(CASE op = "<" -> Less(v, w) [] op = "<=" -> Less(v, w) \/ v = w
                        [] op = ">" -> Less(w, v) [] op = ">=" -> Less(w, v) \/ v = w)
      [] op = ".." -> IF v[1] \in {"num", "str"} /\ w[1] \in {"num", "str"} THEN Str(ToStr(v) \o ToStr(w)) ELSE Nil
      [] OTHER -> IF ToNumber(v) = Nil \/ ToNumber(w) = Nil THEN Nil
                  ELSE Num(Arithmetic(ArithOp[op], ToNumber(v)[2], ToNumber(w)[2]))

RECURSIVE Ev(_, _, _)
RECURSIVE Run(_, _, _)

\* every expression gives one value, but for the last
RECURSIVE EvList(_, _, _)
EvList(g, en, es) ==
    LET r == Ev(g, en, Head(es))
        rest == EvList(r.g, en, Tail(es))
    IN  IF es = <<>> THEN [g |-> g, v |-> <<>>]
        ELSE IF Len(es) = 1 THEN r ELSE [g |-> rest.g, v |-> <<One(r)>> \o rest.v]

Called(g, f, args) ==
    LET fn == g.fns[f[2]]
        last == IF fn.params = <<>> THEN "" ELSE Last(fn.params)
        plain == IF last \in {"...", "arg"} THEN Front(fn.params) ELSE fn.params
        extra == SubSeq(args, Len(plain) + 1, Len(args))
        tab == [k \in {Num(j) : j \in DOMAIN extra} \cup {Str("n")} |->
                   IF k = Str("n") THEN Num(Len(extra)) ELSE extra[k[2]]]
        g1 == IF last = "arg" THEN [g EXCEPT !.tabs = Append(@, tab)] ELSE g
        given == [i \in DOMAIN plain |-> IF i <= Len(args) THEN args[i] ELSE Nil]
        b == Bind(g1, [fn.en EXCEPT !.va = extra], IF last = "arg" THEN fn.params ELSE plain,
                  IF last = "arg" THEN Append(given, <<"tab", Len(g.tabs) + 1>>) ELSE given)
        r == Run(b.g, b.en, fn.block)
    IN  CASE f[1] = "fn" -> [g |-> r.g, v |-> r.v]
          [] f[1] = "cfn" -> [g |-> g, v |-> args]
          [] OTHER -> [g |-> Fail(g), v |-> <<>>]

Index(g, t, k) == IF t[1] = "tab" THEN Give(g, Lookup(g.tabs[t[2]], k)) ELSE Give(Fail(g), Nil)
SetIndex(g, t, k, v) == IF t[1] = "tab" /\ k # Nil THEN [g EXCEPT !.tabs[t[2]] = Stored(@, k, v)] ELSE Fail(g)

\* list items are numbered in order; the last may give several
RECURSIVE Build(_, _, _, _, _)
Build(g, en, t, fields, n) ==
    LET f == Head(fields)
        k == Ev(g, en, f[1])
        v == Ev(k.g, en, f[2])
        items == IF Len(fields) = 1 THEN k.v ELSE <<One(k)>>
        listed == FoldLeft(LAMBDA x, j : SetIndex(x, t, Num(n + j), items[j]), k.g, [j \in DOMAIN items |-> j])
    IN  IF fields = <<>> THEN g
        ELSE IF Len(f) = 1 THEN Build(listed, en, t, Tail(fields), n + 1)
        ELSE Build(SetIndex(v.g, t, One(k), One(v)), en, t, Tail(fields), n)

Ev(g, en, e) ==
    LET a == Ev(g, en, e[2])
        l == Ev(g, en, e[3])
        r == Ev(l.g, en, e[4])
        at == CellOf(en, e[2])
        key == Ev(a.g, en, e[3])
        args == EvList(a.g, en, e[3])
        self == Index(a.g, One(a), Str(e[3]))
        margs == EvList(self.g, en, e[4])
        t == <<"tab", Len(g.tabs) + 1>>
        Checked(x, v) == IF v = Nil THEN Give(Fail(x), Nil) ELSE Give(x, v)
        len(v) == IF v[1] = "tab" THEN Num(Border(l.g.tabs[v[2]])) ELSE Unop("#", v)
    IN  CASE e[1] = "K" -> Give(g, CASE e[2] = "nil" -> Nil [] e[2] \in {"true", "false"} -> Bool(e[2] = "true")
                                     [] e[2] \in DOMAIN Numbers -> Num(Numbers[e[2]]) [] OTHER -> Str(Literals[e[2]]))
          [] e[1] = "S" -> Give(g, Str(e[2]))
          [] e[1] = "V" -> Give(g, IF at = 0 THEN Lookup(g.tabs[1], Str(e[2])) ELSE g.cells[en.names[at][2]])
          [] e[1] = "..." -> [g |-> g, v |-> en.va]
          [] e[1] = "P" -> Give(a.g, One(a))
          [] e[1] = "U" -> Checked(l.g, IF e[2] = "#" THEN len(One(l)) ELSE Unop(e[2], One(l)))
          [] e[1] = "B" /\ e[2] = "and" -> IF l_isfalse(One(l)) THEN Give(l.g, One(l)) ELSE Give(r.g, One(r))
          [] e[1] = "B" /\ e[2] = "or" -> IF l_isfalse(One(l)) THEN Give(r.g, One(r)) ELSE Give(l.g, One(l))
          [] e[1] = "B" -> Checked(r.g, Binop(e[2], One(l), One(r)))
          [] e[1] = "I" -> Index(key.g, One(a), One(key))
          [] e[1] = "C" -> Called(args.g, One(a), args.v)
          [] e[1] = "M" -> Called(margs.g, One(self), <<One(a)>> \o margs.v)
          [] e[1] = "T" -> Give(Build([g EXCEPT !.tabs = Append(@, [k \in {} |-> Nil])], en, t, e[2], 0), t)
          [] e[1] = "F" -> Give([g EXCEPT !.fns = Append(@, [params |-> e[2], block |-> e[3], en |-> en])],
                                <<"fn", Len(g.fns) + 1>>)

\* the targets' tables and keys come first, then the values, then the assignments
RECURSIVE Targets(_, _, _)
Targets(g, en, lhs) ==
    LET e == Head(lhs)
        t == Ev(g, en, e[2])
        k == Ev(t.g, en, e[3])
        one == IF e[1] = "V" THEN [g |-> g, to |-> e] ELSE [g |-> k.g, to |-> <<"I", One(t), One(k)>>]
        rest == Targets(one.g, en, Tail(lhs))
    IN  IF lhs = <<>> THEN [g |-> g, to |-> <<>>] ELSE [g |-> rest.g, to |-> <<one.to>> \o rest.to]
Assign(g, en, to, v) ==
    LET at == CellOf(en, to[2])
    IN  IF to[1] = "I" THEN SetIndex(g, to[2], to[3], v)
        ELSE IF at = 0 THEN SetIndex(g, <<"tab", 1>>, Str(to[2]), v)
        ELSE [g EXCEPT !.cells[en.names[at][2]] = v]

Went(g, en) == [g |-> g, en |-> en, k |-> "next", v |-> <<>>]
Within(r, en) == [r EXCEPT !.en = en]
AfterLoop(r, en) == [Within(r, en) EXCEPT !.k = IF @ = "break" THEN "next" ELSE @]

RECURSIVE While(_, _, _, _)
While(g, en, c, stmts) ==
    LET t == Ev(g, en, c)
        r == Run(t.g, en, stmts)
    IN  IF t.g.err \/ l_isfalse(One(t)) THEN Went(t.g, en)
        ELSE IF r.g.err \/ r.k # "next" THEN AfterLoop(r, en) ELSE While(r.g, en, c, stmts)
RECURSIVE Repeat(_, _, _, _)
Repeat(g, en, stmts, c) ==
    LET r == Run(g, en, stmts)
        t == Ev(r.g, r.en, c)           \* sees the locals of the body
    IN  IF r.g.err \/ r.k # "next" THEN AfterLoop(r, en)
        ELSE IF t.g.err \/ ~l_isfalse(One(t)) THEN Went(t.g, en) ELSE Repeat(t.g, en, stmts, c)
RECURSIVE For(_, _, _, _, _, _, _)
For(g, en, name, i, limit, step, stmts) ==
    LET b == Bind(g, en, <<name>>, <<Num(i)>>)
        r == Run(b.g, b.en, stmts)
    IN  IF IF step > 0 THEN i > limit ELSE i < limit THEN Went(g, en)
        ELSE IF r.g.err \/ r.k # "next" THEN AfterLoop(r, en) ELSE For(r.g, en, name, i + step, limit, step, stmts)
RECURSIVE ForIn(_, _, _, _, _, _, _)
ForIn(g, en, names, f, s, ctl, stmts) ==
    LET c == Called(g, f, <<s, ctl>>)
        b == Bind(c.g, en, names, c.v)
        r == Run(b.g, b.en, stmts)
    IN  IF c.g.err \/ One(c) = Nil THEN Went(c.g, en)
        ELSE IF r.g.err \/ r.k # "next" THEN AfterLoop(r, en) ELSE ForIn(r.g, en, names, f, s, One(c), stmts)
RECURSIVE If(_, _, _, _)
If(g, en, clauses, other) ==
    LET t == Ev(g, en, clauses[1][1])
    IN  IF clauses = <<>> THEN Run(g, en, other)
        ELSE IF t.g.err THEN Went(t.g, en)
        ELSE IF l_isfalse(One(t)) THEN If(t.g, en, Tail(clauses), other) ELSE Run(t.g, en, clauses[1][2])

Function(g, en, f, self) == Ev(g, en, IF self THEN [f EXCEPT ![2] = <<"self">> \o @] ELSE f)
ExecuteOne(g, en, s) ==
    LET vals == EvList(g, en, s[3])
        bound == Bind(vals.g, en, s[2], vals.v)
        to == Targets(g, en, s[2])
        av == EvList(to.g, en, s[3])
        n == [i \in DOMAIN vals.v |-> ToNumber(vals.v[i])]
        V(i) == IF i <= Len(vals.v) THEN vals.v[i] ELSE Nil
        self == Bind(g, en, <<s[2]>>, <<Nil>>)
        path == FoldLeft(LAMBDA e, k : <<"I", e, <<"S", k>>>>, <<"V", s[2]>>,
                         IF s[4] = "" THEN s[3] ELSE Append(s[3], s[4]))
        fn == Function(g, en, s[5], s[4] # "")
        ft == Targets(fn.g, en, <<path>>)
    IN  CASE s[1] = "local" -> Went(bound.g, bound.en)
          [] s[1] = "assign" ->
                Went(FoldLeft(LAMBDA x, i : Assign(x, en, to.to[i], IF i <= Len(av.v) THEN av.v[i] ELSE Nil),
                              av.g, Reverse([i \in DOMAIN to.to |-> i])), en)
          [] s[1] = "call" -> Went(Ev(g, en, s[2]).g, en)
          [] s[1] = "do" -> Within(Run(g, en, s[2]), en)
          [] s[1] = "while" -> While(g, en, s[2], s[3])
          [] s[1] = "repeat" -> Repeat(g, en, s[2], s[3])
          [] s[1] = "if" -> Within(If(g, en, s[2], s[3]), en)
          [] s[1] = "for" -> IF Nil \in Range(n) THEN Went(Fail(g), en)
                             ELSE For(vals.g, en, s[2], n[1][2], n[2][2], IF Len(n) > 2 THEN n[3][2] ELSE 1, s[4])
          [] s[1] = "forin" -> ForIn(vals.g, en, s[2], V(1), V(2), V(3), s[4])
          [] s[1] = "localfunc" -> LET f == Function(self.g, self.en, s[3], FALSE)
                                   IN  Went([f.g EXCEPT !.cells[self.en.names[1][2]] = f.v[1]], self.en)
          [] s[1] = "func" -> Went(Assign(ft.g, en, ft.to[1], fn.v[1]), en)
          [] s[1] = "return" -> LET r == EvList(g, en, s[2]) IN [g |-> r.g, en |-> en, k |-> "return", v |-> r.v]
          [] s[1] = "break" -> [Went(g, en) EXCEPT !.k = "break"]
Run(g, en, stmts) ==
    LET r == ExecuteOne(g, en, Head(stmts))
    IN  IF stmts = <<>> \/ g.err THEN Went(g, en)
        ELSE IF r.k # "next" THEN r ELSE Run(r.g, r.en, Tail(stmts))

\* g is a function the host provides; it gives back its arguments
GlobalTable == [k \in {Str("g")} |-> <<"cfn", "g">>]
Meaning(stmts, args) ==
    LET r == Run([cells |-> <<>>, tabs |-> <<GlobalTable>>, fns |-> <<>>, err |-> FALSE],
                 [names |-> <<>>, va |-> args], stmts)
    IN  IF r.g.err THEN <<"error">> ELSE r.v

-----------------------------------------------------------------------------
(* The run: a program is compiled, then called with every list of arguments *)

RECURSIVE RunOn(_)
RunOn(V) == IF V.status # "run" THEN V ELSE RunOn(luaV_execute(V))
Result(V) == IF V.status = "error" THEN <<"error">> ELSE V.result

Given == <<"local", <<"a", "b">>, <<<<"...">>>>>>
A == <<"V", "a">>
Contexts(e) ==
    {<<Given, <<"return", <<e>>>>>>,
     <<Given, <<"if", <<<<e, <<<<"return", <<A>>>>>>>>>>, <<>>>>, <<"return", <<<<"V", "b">>>>>>>>,
     <<Given, <<"assign", <<A>>, <<e>>>>, <<"return", <<A, <<"V", "b">>>>>>>>}
AllPrograms == [kind : {"program"}, block : Programs]
               \cup [kind : {"expression"}, block : UNION {Contexts(e) : e \in Expressions}]

Init == /\ \/ \E p \in AllPrograms : st = [kind |-> p.kind, block |-> p.block, toks |-> Block(p.block), ran |-> FALSE]
           \/ \E w \in Wrong : st = [kind |-> "wrong", block |-> <<>>, toks |-> w, ran |-> FALSE]
        /\ out = <<>>
\* What compiling and calling do is a function of the program: Compiled and Ran below.
Execute == ~st.ran /\ st' = [st EXCEPT !.ran = TRUE] /\ out' = out
Next == Execute \/ (st.ran /\ UNCHANGED vars)

Compiled(toks) == LET X == luaY_parser(toks) IN [p |-> Proto(X), err |-> X.err, bad |-> X.bad]
Ran(p, a) == LET V == RunOn(Loaded(p, GlobalTable, a)) IN [result |-> Result(V), bad |-> V.bad]

-----------------------------------------------------------------------------

(* Whatever registers, jump lists and constants an expression is compiled  *)
(* to, as a value, as a condition or over one of its own operands, running *)
(* it gives the value, and the errors, of its syntax tree; statements,     *)
(* closures over variables of every block, multiple assignment, variable   *)
(* arguments, tail calls and loops likewise.                               *)
MeaningKept(results) == \A a \in Arguments : results[a].result = Meaning(st.block, a)

(* The compiler's and the machine's assertions hold, luaG_checkcode among  *)
(* them: what is compiled passes the test for foreign bytecode.            *)
CodeSound(c, results) == /\ ~c.bad /\ luaG_checkcode(c.p)
                         /\ \A a \in Arguments : ~results[a].bad

(* A program of the grammar is compiled; one with a misplaced break, dots  *)
(* or target, or an unclosed block, is refused.                            *)
SyntaxDecided(c) == c.err <=> st.kind = "wrong"

(* All three, for a program compiled by lparser.c and run by lvm.c.        *)
ProgramTrue ==
    LET c == Compiled(st.toks)
        results == [a \in Arguments |-> Ran(c.p, a)]
    IN  SyntaxDecided(c) /\ (~c.err => MeaningKept(results) /\ CodeSound(c, results))
=============================================================================
