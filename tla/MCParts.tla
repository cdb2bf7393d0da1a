------------------------------ MODULE MCParts -------------------------------
(***************************************************************************)
(* One run for every part that a call or a short sequence of calls         *)
(* exercises: the device drivers and buses, the libraries of Lua, compiler *)
(* and virtual machine, and the small components.  The first step chooses  *)
(* a part, the others are its own.                                         *)
(***************************************************************************)
EXTENDS Integers, Sequences, FiniteSetsExt, TLC

VARIABLES which, dev, chip, job, out
vars == <<which, dev, chip, job, out>>

Seconds == {5097599, 1999999999}   \* 2000-02-28 23:59:59, and one of 2063
SdCalls ==
    [op : {"write_time", "set_alarm"}, second : Seconds]
    \cup [op : {"store_data", "restore_data"}, offset : {0, 10}, dat : {<<7, 8>>}]
    \cup [op : {"store_data"}, offset : {11}, dat : {<<7, 8>>}]
    \cup [op : {"config_interrupt"}, type : {"disable", "alarm", "frequency", "countdown", "other"}, pause : {TRUE}]
    \cup [op : {"clear_interrupt", "read_time", "dump_regs"}]
PcfCalls ==
    [op : {"write_time", "set_alarm"}, second : Seconds] \cup [op : {"clear_alarm", "read_time", "dump_regs"}]
BusJobs ==
    [op : {"softi2c_write", "softi2c_read", "softi2c_write_then_read"}, addr : {80}, present : BOOLEAN,
     w : {<<>>, <<129>>, <<0, 255>>}, acks : 0 .. 2, r : {<<>>, <<254>>, <<1, 170>>},
     held : {0, 2, 10, 11, 20, 47}]
    \cup [op : {"spi_transfer"}, idleHigh : BOOLEAN, firstEdge : BOOLEAN, lsb : BOOLEAN, hasW : BOOLEAN,
          hasR : BOOLEAN, w : {<<200, 7>>}, miso : {<<1, 128>>}, junk : {90}, len : {0, 2}, failAt : {2, 3}]
LtcJobs ==
    [op : {"1_get_voltage", "1_get_aux"}, size : {0, 1, 5, 6, 12}, flip : {-1, 0, 31, 47, 49, 63}, badGroup : {0, 1}]
    \cup [op : {"get_voltage"}, size : {0, 4, 11, 12}, flip : {-1} \cup 0 .. 48 \cup 49 .. 63, badGroup : {1}]
    \cup [op : {"start_channel"}, size : 0 .. 12]
    \cup [op : {"1_write_cfg"}, cfg : {<<0, 0, 0, 0, 0, 0>>, <<252, 1, 2, 3, 128, 255>>}]
ConvJobs ==
    [op : {"date"}, arg : {86400 * d + s : d \in 0 .. 1500, s \in {0, 86399}}
                           \cup {86400 * d + s : d \in 24100 .. 24855, s \in {0, 3661}}]
    \cup [op : {"mv"}, fsl : {0, 1, 5, 6}, arg : {-2049, -2048, -1500, -1, 0, 1, 3, 2047, 2048}]
    \cup [op : {"sample"}, buf : {<<0, 0, 0>>, <<255, 255, 255>>, <<252, 3, 4>>, <<253, 128, 7>>, <<254, 0, 0>>}]
    \cup [op : {"bcd"}, arg : 0 .. 110]
    \cup [op : {"baud"}, arg : {300, 1200, 2400, 4095, 4800}]
    \cup [op : {"pid"}, arg : {0, 999, 1000, 1001, 65535},
          pid : [expect : {1000}, control : {0, 500, 65530}, kp : {7, 100}, ki : {0, 3}, kd : {0, -5}, factor : {1, 10},
                 ek : {<<0, 0, 0>>, <<5, -6, 30000>>}]]

S == INSTANCE Sd2405 WITH Calls <- SdCalls, MaxCalls <- 4
P == INSTANCE Pcf212x WITH Calls <- PcfCalls, MaxCalls <- 4
D6 == INSTANCE Dac816x WITH Voltages <- {0, 1, 2499, 2500, 2501, 4999, 5000}, ref_voltage_mv <- 0, MaxCalls <- 6
D5 == INSTANCE Dac856x WITH Voltages <- {0, 99, 100, 1234567, 2499900, 2500000}, Values <- {0, 65535}, MaxCalls <- 4
A5 == INSTANCE Ad5259 WITH Tolerances <- {<<0, 0>>, <<28, 15>>, <<156, 15>>}, nominal_resistance <- 10000,
                           Resistances <- {0, 1, 19, 20, 8000, 9979, 9980, 12000}, MaxCalls <- 4
H == INSTANCE Hcf4052 WITH MaxCalls <- 5
A1 == INSTANCE Ads1015 WITH Samples <- {-2048, 7, 2047}, Polls <- 3, MaxCalls <- 3
B == INSTANCE SoftBus WITH Jobs <- BusJobs
L == INSTANCE Ltc6804 WITH Jobs <- LtcJobs
C == INSTANCE Conversions WITH Jobs <- ConvJobs

NoDevice == dev = "none" /\ chip = "none"
DeviceInit ==
    \/ which = "sd2405" /\ S!Init
    \/ which = "pcf212x" /\ P!Init
    \/ which = "dac816x" /\ D6!Init
    \/ which = "dac856x" /\ D5!Init
    \/ which = "ad5259" /\ A5!Init
    \/ which = "hcf4052" /\ H!Init
    \/ which = "ads1015" /\ A1!Init
    \/ which = "softbus" /\ B!Init /\ NoDevice
    \/ which = "ltc6804" /\ L!Init /\ NoDevice
    \/ which = "convert" /\ C!Init /\ NoDevice
DeviceNext ==
    \/ which = "sd2405" /\ S!Next /\ UNCHANGED which
    \/ which = "pcf212x" /\ P!Next /\ UNCHANGED which
    \/ which = "dac816x" /\ D6!Next /\ UNCHANGED which
    \/ which = "dac856x" /\ D5!Next /\ UNCHANGED which
    \/ which = "ad5259" /\ A5!Next /\ UNCHANGED which
    \/ which = "hcf4052" /\ H!Next /\ UNCHANGED which
    \/ which = "ads1015" /\ A1!Next /\ UNCHANGED which
    \/ which = "softbus" /\ B!Next /\ UNCHANGED <<which, dev, chip>>
    \/ which = "ltc6804" /\ L!Next /\ UNCHANGED <<which, dev, chip>>
    \/ which = "convert" /\ C!Next /\ UNCHANGED <<which, dev, chip>>

\* The words of the double n added up, which is what hashnum does.
Double(n) == LET e == Max({i \in 0..30 : 2^i <= n})
             IN  (1023 + e) * 2^20 + (n - 2^e) * 2^(20 - e)
TableWord(k) == IF k > 100 THEN k ELSE Double(k)
LT == INSTANCE LuaTable WITH st <- dev, NumberKeys <- {1, 2, 3, 5}, StringKeys <- {101, 103},
                             Word <- TableWord, MaxArray <- 4, MaxNodes <- 4

Strings == UNION {[1..n -> {"a", "b"}] : n \in 0..3}
Items == {[op |-> "(" ], [op |-> ")"], [op |-> "()"], [op |-> "%1", l |-> 1],
          [op |-> "single", set |-> {"a"}, rep |-> ""],
          [op |-> "single", set |-> {"a"}, rep |-> "?"],
          [op |-> "single", set |-> {"a", "b"}, rep |-> "*"],
          [op |-> "single", set |-> {"a"}, rep |-> "+"],
          [op |-> "single", set |-> {"a", "b"}, rep |-> "-"],
          [op |-> "single", set |-> {"b"}, rep |-> ""]}
Ends == {<<>>, <<[op |-> "$"]>>, <<[op |-> "%b", b |-> "a", e |-> "b"]>>, <<[op |-> "%f", set |-> {"b"}]>>}
Opened == {<<[op |-> "("], x, [op |-> ")"], y, z>> : x, y, z \in Items}
ManyPatterns == {x \o e : x \in UNION {[1..n -> Items] : n \in 0..2}, e \in Ends} \cup Opened
LP == INSTANCE LuaPattern WITH st <- dev, Sources <- Strings, Patterns <- ManyPatterns, LUA_MAXCAPTURES <- 2

LB == INSTANCE LuaTableLib WITH st <- dev, Arrays <- UNION {[1..n -> 1..3] : n \in 0..6}, Elements <- {9}

\* Functions with every kind of constant, nested ones that share their parent's source
\* name and ones that do not, a line number too large for a small target and a number that
\* is no integer (200 is LuaDump's Fraction).
Leaf(source, line) ==
    [source |-> source, linedefined |-> line, lastlinedefined |-> 7, sizes |-> <<1, 0, 2, 3>>,
     code |-> <<5, 258>>, k |-> <<[type |-> 3, v |-> 6]>>, p |-> <<>>, lineinfo |-> <<line, 8>>,
     locvars |-> <<[name |-> <<120>>, startpc |-> 0, endpc |-> 1]>>, upvalues |-> <<<<121, 122>>>>]
DumpProtos ==
    {[Leaf(<<97>>, line) EXCEPT !.k = k, !.p = p] :
        line \in {3, 300},
        k \in {<<>>, <<[type |-> 0, v |-> 0], [type |-> 1, v |-> 1]>>,
               <<[type |-> 4, v |-> <<65, 66>>], [type |-> 3, v |-> 9]>>, <<[type |-> 3, v |-> 200]>>},
        p \in {<<>>, <<Leaf(<<97>>, 4)>>, <<Leaf(<<98>>, 4), Leaf(<<97>>, 5)>>}}
DumpMachines == [little : BOOLEAN, int : {4}, strsize : {4}, num : {4, 8}, integral : {FALSE}, fpa : {FALSE}]
                \cup [little : BOOLEAN, int : {4}, strsize : {4}, num : {4}, integral : {TRUE}, fpa : {FALSE}]
                \cup [little : {TRUE}, int : {4}, strsize : {4}, num : {8}, integral : {FALSE}, fpa : {TRUE}]
DumpTargets ==
    DumpMachines
    \cup [little : {TRUE}, int : {1, 2}, strsize : {4}, num : {4}, integral : {FALSE}, fpa : {FALSE}]
    \cup [little : {TRUE}, int : {4}, strsize : {1}, num : {4}, integral : {FALSE}, fpa : {FALSE}]
    \cup [little : {TRUE}, int : {4}, strsize : {4}, num : {2}, integral : {TRUE}, fpa : {FALSE}]
LD == INSTANCE LuaDump WITH st <- dev, Protos <- DumpProtos, Targets <- DumpTargets, Machines <- DumpMachines

---------------------------------------------------------------------------
(* The programs the compiler and the virtual machine of Lua are run on, as the syntax  *)
(* trees of LuaReference.                                                              *)

V(n) == <<"V", n>>
K(t) == <<"K", t>>
Un(op, e) == <<"U", op, e>>
Bin(op, l, r) == <<"B", op, l, r>>
At(t, k) == <<"I", t, k>>
Do(f, args) == <<"C", f, args>>
Method(o, n, args) == <<"M", o, n, args>>
Table(fields) == <<"T", fields>>
Fn(params, stmts) == <<"F", params, stmts>>
Dots == <<"...">>
Local(names, es) == <<"local", names, es>>
Set(to, es) == <<"assign", to, es>>
When(c, then, else) == <<"if", <<<<c, then>>>>, else>>
Ret(es) == <<"return", es>>
a == V("a")
b == V("b")
c == V("c")
f == V("f")
i == V("i")
One == K("1")
Two == K("2")
Three == K("3")
Plus(l, r) == Bin("+", l, r)
Cat(l, r) == Bin("..", l, r)
Null == K("nil")

ProgramNames == {"a", "b", "c", "f", "g", "h", "i", "t", "x", "y", "self", "arg", "s", "n"}
ProgramNumbers == ("0" :> 0) @@ ("1" :> 1) @@ ("2" :> 2) @@ ("3" :> 3) @@ ("4" :> 4) @@ ("5" :> 5)
ProgramLiterals == ("'s'" :> "s") @@ ("'2'" :> "2") @@ ("'n'" :> "n")

\* while, break out of a block with a captured local, every turn its own variable
Captured == <<
    Local(<<"a", "t", "i">>, <<Dots>>), Set(<<V("t")>>, <<Table(<<>>)>>), Set(<<i>>, <<One>>),
    <<"while", Bin("<=", i, Three), <<
        Local(<<"x">>, <<Bin("*", i, Two)>>),
        Set(<<At(V("t"), i)>>, <<Fn(<<>>, <<Set(<<V("x")>>, <<Plus(V("x"), One)>>), Ret(<<V("x")>>)>>)>>),
        When(Bin("and", Bin("==", i, Two), a), <<Local(<<"y">>, <<V("x")>>), <<"break">>>>, <<>>),
        Set(<<i>>, <<Plus(i, One)>>)>>>>,
    <<"call", Do(At(V("t"), One), <<>>)>>,
    Ret(<<Do(At(V("t"), One), <<>>), Do(At(V("t"), Two), <<>>), Bin("==", At(V("t"), Three), Null), i>>)>>

\* the condition of a repeat sees, and captures, the locals of its body
Repeated == <<
    Local(<<"a">>, <<Dots>>), Local(<<"i", "f">>, <<K("0")>>),
    <<"repeat", <<
        Local(<<"x">>, <<i>>),
        When(f, <<>>, <<Set(<<f>>, <<Fn(<<>>, <<Ret(<<V("x")>>)>>)>>)>>),
        Set(<<i>>, <<Plus(i, One)>>),
        When(Bin("and", a, Bin("==", i, Two)), <<<<"break">>>>, <<>>)>>,
      Do(Fn(<<>>, <<Set(<<V("x")>>, <<Plus(V("x"), One)>>), Ret(<<Bin(">", V("x"), Two)>>)>>), <<>>)>>,
    Ret(<<i, Do(Bin("or", Bin("and", Bin("==", i, Three), f), V("g")), <<>>)>>)>>
RepeatedOnce == <<
    Local(<<"a", "b">>, <<Dots>>), Local(<<"f">>, <<>>), Local(<<"i">>, <<K("0")>>),
    <<"repeat", <<
        Local(<<"x">>, <<Plus(i, One)>>),
        Set(<<i>>, <<V("x")>>),
        Set(<<f>>, <<Fn(<<>>, <<Set(<<V("x")>>, <<Plus(V("x"), One)>>), Ret(<<V("x")>>)>>)>>),
        When(Bin("and", b, Bin("==", i, Two)), <<<<"break">>>>, <<>>)>>,
      Bin("==", V("x"), Three)>>,
    Ret(<<Do(f, <<>>), Do(f, <<>>), i>>)>>

\* numeric for down and up, the control variable assigned to and captured
Counted == <<
    Local(<<"a", "b">>, <<Dots>>), Local(<<"t", "c">>, <<Table(<<>>), K("0")>>),
    <<"for", "i", <<Three, One, Un("-", One)>>, <<
        Set(<<At(V("t"), i)>>, <<Fn(<<>>, <<Ret(<<i>>)>>)>>),
        Set(<<i>>, <<Plus(i, One)>>), Set(<<c>>, <<Plus(c, i)>>)>>>>,
    <<"for", "i", <<Three, One>>, <<Set(<<c>>, <<Null>>)>>>>,
    <<"for", "i", <<One, K("'2'")>>, <<When(b, <<<<"break">>>>, <<>>), Set(<<c>>, <<Plus(c, i)>>)>>>>,
    Ret(<<c, Do(At(V("t"), One), <<>>), Do(At(V("t"), Three), <<>>)>>)>>

\* generic for with a closure as its iterator, and two loop variables
Iterated == <<
    Local(<<"f", "c">>, <<Fn(<<"x", "y">>, <<When(Bin("<", V("y"), V("x")), <<Ret(<<Plus(V("y"), One), Bin("*", V("y"), V("y"))>>)>>, <<>>)>>), K("0")>>),
    Local(<<"t">>, <<>>),
    <<"forin", <<"i", "y">>, <<f, Three, K("0")>>, <<
        Set(<<V("t")>>, <<Fn(<<>>, <<Ret(<<Plus(i, V("y"))>>)>>)>>), Set(<<c>>, <<Plus(Plus(c, i), V("y"))>>)>>>>,
    Ret(<<c, Do(V("t"), <<>>), <<"P", Dots>>>>)>>

\* assignments whose targets use what they assign
Swapped == <<
    Local(<<"a", "b">>, <<Dots>>), Local(<<"t", "i", "c">>, <<Table(<<<<One>>, <<Two>>>>), One>>),
    Set(<<c>>, <<V("t")>>),
    Set(<<At(V("t"), i), i, V("t")>>, <<K("5"), Plus(i, One), K("4")>>),
    Set(<<a, b>>, <<b, a>>),
    Set(<<At(c, Two), At(c, Three), i>>, <<Do(V("g"), <<i, V("t"), a>>)>>),
    Ret(<<a, b, V("t"), i, At(c, One), At(c, Two), At(c, Three)>>)>>
SwappedUp == <<
    Local(<<"t", "x">>, <<Table(<<>>), One>>), Local(<<"c">>, <<V("t")>>),
    Local(<<"f">>, <<Fn(<<>>, <<
        Set(<<At(V("t"), V("x")), V("t"), V("x")>>, <<Two, Three, K("4")>>), Ret(<<V("t"), V("x")>>)>>)>>),
    Ret(<<Plus(Do(f, <<>>), V("x")), At(c, One)>>)>>

\* variable arguments, cut by parentheses and by not being last; the table arg
Variable == <<
    Local(<<"f">>, <<Fn(<<"x", "...">>, <<Ret(<<V("x"), Dots>>)>>)>>),
    Local(<<"h">>, <<Fn(<<"x", "arg">>, <<Ret(<<At(V("arg"), K("'n'")), At(V("arg"), One), V("x")>>)>>)>>),
    Local(<<"t">>, <<Table(<<<<Do(f, <<Dots>>)>>, <<Three>>, <<Do(f, <<One, Dots>>)>>>>)>>),
    Local(<<"a", "b", "c">>, <<Do(f, <<Two, Dots>>), Do(V("h"), <<Dots>>)>>),
    Ret(<<a, b, c, <<"P", Do(f, <<Two, Dots>>)>>, Un("#", V("t")), At(V("t"), Three), Do(V("g"), <<Do(f, <<Dots>>)>>)>>)>>

\* functions in tables and methods
Methods == <<
    Local(<<"t">>, <<Table(<<<<K("'s'"), Table(<<>>)>>, <<One>>>>)>>),
    <<"func", "t", <<"s">>, "f", Fn(<<"y">>, <<
        Set(<<At(V("self"), K("'n'"))>>, <<V("y")>>), Ret(<<V("self"), V("y")>>)>>)>>,
    <<"func", "h", <<>>, "", Fn(<<>>, <<Ret(<<At(V("t"), K("'s'"))>>)>>)>>,
    Local(<<"x", "y">>, <<Method(Do(V("h"), <<>>), "f", <<Two>>)>>),
    Ret(<<Bin("==", V("x"), At(V("t"), K("'s'"))), V("y"), At(V("x"), K("'n'"))>>)>>

\* variables shared by two closures and by closures inside closures
Shared == <<
    Local(<<"a", "b">>, <<Dots>>), Local(<<"x", "f", "h">>, <<One>>),
    <<"do", <<
        Local(<<"y">>, <<K("5")>>),
        Set(<<f>>, <<Fn(<<"i">>, <<Local(<<"c">>, <<i>>), Ret(<<Fn(<<>>, <<
            Set(<<V("x"), V("y"), c>>, <<Plus(V("x"), c), Plus(V("y"), One), Plus(c, One)>>), Ret(<<c, V("y")>>)>>)>>)>>)>>),
        Set(<<V("h")>>, <<Fn(<<>>, <<Ret(<<Cat(V("y"), Cat(K("'s'"), V("x")))>>)>>)>>)>>>>,
    Local(<<"y">>, <<Do(f, <<Two>>)>>), Local(<<"c">>, <<Do(f, <<Three>>)>>),
    <<"call", Do(V("y"), <<>>)>>, <<"call", Do(c, <<>>)>>,
    Ret(<<V("x"), Do(V("h"), <<>>), Do(V("y"), <<>>)>>)>>

\* recursion through a local function, and a tail call that keeps its captured variable
Recursive == <<
    <<"localfunc", "f", Fn(<<"x">>, <<
        <<"if", <<<<Bin("<=", V("x"), One), <<Ret(<<One>>)>>>>, <<Bin("==", V("x"), Two), <<Ret(<<Two, Three>>)>>>>>>,
          <<Ret(<<Bin("*", V("x"), Do(f, <<Bin("-", V("x"), One)>>))>>)>>>>>>)>>,
    Local(<<"h">>, <<Fn(<<"x", "y">>, <<Local(<<"c">>, <<Fn(<<>>, <<Ret(<<V("y")>>)>>)>>), Ret(<<Do(V("x"), <<c>>)>>)>>)>>),
    Ret(<<Do(f, <<K("4")>>), Do(V("h"), <<Fn(<<"x">>, <<Local(<<"y", "c">>, <<Two, Three>>), Ret(<<Do(V("x"), <<>>)>>)>>), K("5")>>), Do(f, <<Two>>)>>)>>

\* constructors longer than one flush, with keys between the items
Constructed == <<
    Local(<<"a", "b">>, <<Dots>>),
    Local(<<"t">>, <<Table(<<<<One>>, <<K("'s'"), a>>, <<Two>>, <<Three>>, <<Un("-", Two), b>>, <<K("4")>>, <<Do(V("g"), <<a, One>>)>>>>)>>),
    Local(<<"x">>, <<Table(<<<<One>>, <<Two>>, <<Three>>, <<K("4")>>, <<K("'s'"), Three>>>>)>>),
    Local(<<"y">>, <<Table(<<<<One>>, <<Two>>, <<Table(<<<<K("5")>>, <<Dots>>>>)>>, <<K("4")>>, <<K("'s'")>>, <<Two>>, <<Three>>, <<b>>>>)>>),
    Ret(<<At(V("t"), K("5")), At(V("t"), K("4")), At(V("t"), K("'s'")), At(V("t"), Un("-", Two)), At(V("t"), Two),
          Un("#", V("x")), At(V("x"), K("4")), At(At(V("y"), Three), Three), At(V("y"), K("5")), At(V("y"), Bin("*", Two, K("4")))>>)>>

\* a nil that must not be merged with the one before it, and locals over used registers
Nils == <<
    Local(<<"a", "b">>, <<Dots>>), Local(<<"c">>, <<>>),
    <<"do", <<Local(<<"x", "y">>, <<One, Two>>), Set(<<c>>, <<Plus(V("x"), V("y"))>>)>>>>,
    When(a, <<Set(<<c>>, <<Null>>)>>, <<>>),
    Local(<<"x", "y">>, <<>>),
    Set(<<b>>, <<Null>>), Set(<<c>>, <<Bin("or", c, b)>>),
    Ret(<<b, c, V("x"), V("y")>>)>>

\* concatenations, conditions that call, a long chain of elseif
Mixed == <<
    Local(<<"a", "b">>, <<Dots>>), Local(<<"c">>, <<Cat(One, Cat(K("'s'"), Cat(Bin("^", Two, Three), K("'2'"))))>>),
    <<"if", <<<<Un("not", Do(V("g"), <<a>>)), <<Set(<<c>>, <<Cat(c, K("'s'"))>>)>>>>,
              <<Bin("and", b, Un("not", Bin("==", a, One))), <<Set(<<c>>, <<Un("#", c)>>)>>>>,
              <<Bin("or", Un("not", b), Bin("<", b, a)), <<<<"do", <<Local(<<"x">>, <<c>>), Set(<<V("y")>>, <<V("x")>>)>>>>>>>>>>,
      <<Set(<<V("y")>>, <<Un("-", K("'2'"))>>)>>>>,
    Ret(<<c, V("y"), Bin("and", V("y"), Bin("==", c, V("y"))), Bin("-", K("5"), Bin("-", K("'2'"), One))>>)>>

\* a method of nothing, arithmetic on a table, a call of a number
Mistyped == {<<Local(<<"a", "b">>, <<Dots>>), Ret(<<e>>)>> :
                e \in {Method(a, "f", <<One>>), Plus(Table(<<>>), One), Do(One, <<a>>), At(Null, One), Cat(Table(<<>>), a),
                       Bin("<", One, K("'s'")), Bin("<=", Table(<<>>), a), Un("-", Table(<<>>)), Un("#", One)}}

ProgramSet == Mistyped \cup
    {Captured, Repeated, RepeatedOnce, Counted, Iterated, Swapped, SwappedUp, Variable, Methods, Shared, Recursive,
     Constructed, Nils, Mixed}

\* conditions and values: every pair of atoms and comparisons under every pair of connectives
Atoms == {a, b, Null, One, Bin("==", a, One), Un("not", b)}
Pairs == {Bin(op, l, r) : op \in {"and", "or"}, l \in Atoms, r \in Atoms}
Texts == {K("'s'"), K("'2'"), Cat(Two, K("'s'")), Cat(a, K("'2'"))}
ExpressionSet ==
    Pairs \cup {Un("not", e) : e \in Pairs}
    \cup {Bin(op, l, r) : op \in {"and", "or"}, l \in {Bin("and", a, b), Bin("or", Un("not", a), b), Bin("or", a, One)},
                          r \in Pairs}
    \cup {Bin(op, e, r) : op \in {"==", "~="}, e \in {Bin("and", a, b), Bin("or", a, Un("not", b))}, r \in Atoms}
    \cup {Bin(op, Bin(op2, a, Two), Three) : op \in {"+", "-", "*", "^", "..", "<"}, op2 \in {"+", "-", "*", "^"}}
    \cup {Bin(op, Three, Bin(op2, a, Two)) : op \in {"+", "-", "*", "..", "<", ">=", "~="}, op2 \in {"+", "-", "*", "^"}}
    \cup {Bin("^", Three, Bin(op, a, Two)) : op \in {"+", "*", "^"}}
    \cup {Un("-", Bin(op, Two, a)) : op \in {"+", "^"}} \cup {Bin("^", Un("-", a), Two)}
    \cup {Bin("%", Un("-", K("5")), Three), Bin("==", Un("not", a), Bin("<", One, Two)), Plus(a, Bin("or", b, One))}
    \cup {Bin(op, l, r) : op \in {"<", "<=", ">", ">="}, l \in Texts, r \in Texts}

WrongSet == {
    <<"break">>, <<"while", "a", "do", "f", "=", "function", "(", ")", "break", "end", "end">>,
    <<"f", "=", "function", "(", "a", ")", "return", "...", "end">>,
    <<"f", "(", ")", "=", "1">>, <<"a", ",", "f", "(", ")", "=", "1">>, <<"a">>, <<"do", "a", "=", "1">>,
    <<"if", "a", "then", "else", "elseif", "b", "then", "end">>, <<"for", "i", "=", "1", "do", "end">>,
    <<"for", "i", ",", "a", "=", "1", ",", "2", "do", "end">>, <<"return", "1", "a", "=", "1">>,
    <<"local", "function", "a", ".", "b", "(", ")", "end">>, <<"a", "=", "{", "1", "2", "}">>,
    <<"a", "=", "(", "1">>, <<"repeat", "until">>, <<"a", "=", "function", "(", "...", ",", "b", ")", "end">>,
    <<"end">>, <<"a", "=", "1", "+">>, <<"a", ":", "b", "=", "1">>}

Num(n) == <<"num", n>>
ArgumentSet == {<<<<"nil">>, Num(1)>>, <<Num(1), <<"bool", FALSE>>>>, <<<<"bool", FALSE>>, <<"nil">>>>, <<Num(2), Num(1)>>, <<>>, <<Num(1), Num(2), Num(3)>>}

---------------------------------------------------------------------------
LR == INSTANCE LuaReference WITH st <- dev, MAXINDEXRK <- 2, MAXARG_C <- 2, LFIELDS_PER_FLUSH <- 2,
          Names <- ProgramNames, Numbers <- ProgramNumbers, Literals <- ProgramLiterals, StackSize <- 40,
          Expressions <- ExpressionSet, Programs <- ProgramSet, Wrong <- WrongSet, Arguments <- ArgumentSet

\* Arguments with what quotes are for, and one more argument than there is room.
Words == {<<"a">>, <<"a", " ", "b">>, <<"'", "a">>, <<>>}
QuotesFor(w) == IF w = <<"a">> THEN {"", "'", "dq"} ELSE IF w = <<"'", "a">> THEN {"dq"} ELSE {"'", "dq"}
Blank == [sep : {<<" ">>, <<"tab", " ">>}, lead : {<<>>, <<" ", " ">>}, trail : {<<>>, <<"cr", "nl">>}]
Line(args, quote, blank) == [args |-> args, quote |-> quote, sep |-> blank.sep, lead |-> blank.lead, trail |-> blank.trail]
ShellLines ==
    {Line(<<>>, <<>>, l) : l \in {x \in Blank : x.lead \o x.trail # <<>>}}
    \cup UNION {{Line(<<w, v>>, <<p, q>>, l) : p \in QuotesFor(w), q \in QuotesFor(v), l \in Blank} : w, v \in Words}
    \cup {Line([k \in 1 .. n |-> <<"a">>], [k \in 1 .. n |-> ""], l) : n \in {1, 3, 4}, l \in Blank}

LL == INSTANCE LinkedList WITH st <- dev, Heads <- {"h1", "h2"}, Entries <- {"a", "b", "c"}
SH == INSTANCE Shell WITH st <- dev, Keys <- {"a", " ", "'", "bs", "nl"}, Lines <- ShellLines, Commands <- {<<"a">>},
                          SHELL_MAXSIZE <- 7, SHELL_MAX_ARGS <- 3
TM == INSTANCE Timer WITH st <- dev, Wrap <- 16, Waits <- {0, 1, 5}, MaxLate <- 8

NoChip == chip = "none" /\ job = "none"
Init == \/ DeviceInit
        \/ which = "dump" /\ LD!Init /\ NoChip
        \/ which = "tablib" /\ LB!Init /\ NoChip
        \/ which = "table" /\ LT!Init /\ out = <<>> /\ NoChip
        \/ which = "pattern" /\ LP!Init /\ NoChip
        \/ which = "program" /\ LR!Init /\ NoChip
        \/ which = "list" /\ LL!Init /\ NoChip
        \/ which = "shell" /\ SH!Init /\ NoChip
        \/ which = "timer" /\ TM!Init /\ NoChip
Next == \/ DeviceNext
        \/ which = "dump" /\ LD!Next /\ UNCHANGED <<which, chip, job>>
        \/ which = "tablib" /\ LB!Next /\ UNCHANGED <<which, chip, job>>
        \/ which = "table" /\ LT!Next /\ UNCHANGED <<which, chip, job, out>>
        \/ which = "pattern" /\ LP!Next /\ UNCHANGED <<which, chip, job>>
        \/ which = "program" /\ LR!Next /\ UNCHANGED <<which, chip, job>>
        \/ which = "list" /\ LL!Next /\ UNCHANGED <<which, chip, job>>
        \/ which = "shell" /\ SH!Next /\ UNCHANGED <<which, chip, job>>
        \/ which = "timer" /\ TM!Next /\ UNCHANGED <<which, chip, job>>
Spec == Init /\ [][Next]_vars

---------------------------------------------------------------------------

\* The drivers with state of their own agree with their chips, whatever transfers failed
\* before: sd2405al.c closes the write protection and keeps true copies of the control
\* registers; an answered write_time or set_alarm is in the chip (pcf212x.c); the converters,
\* the potentiometer and the switch give what was asked for (dac816x.c, dac856x.c, ad5259.c,
\* hcf4052.c); a result is of the conversion this call started (ads1015.c).
DriversTrue ==
    /\ which = "sd2405" => S!Reprotected /\ S!ReadBack
    /\ which = "pcf212x" => P!ReadBack /\ P!AlarmSet
    /\ which = "dac816x" => D6!OutputRight
    /\ which = "dac856x" => D5!OutputNearest
    /\ which = "ad5259" => A5!WithinHalfStep
    /\ which = "hcf4052" => H!Conducts
    /\ which = "ads1015" => A1!FreshResult

\* Between the transfers or pin writes of one call the outside sees nothing it should not: an
\* alarm is armed only when complete, and stays so unless one that replaces it breaks off
\* (pcf212x.c), a channel that drives its pin changes neither gain nor value (dac816x.c), and
\* the switch never moves while it conducts (hcf4052.c).
NoGlitch ==
    [][/\ which = "pcf212x" => P!ArmedLast
       /\ which = "dac816x" => D6!NoGlitch
       /\ which = "hcf4052" => H!BreakBeforeMake]_vars

\* On the wires: a listener hears the I2C transfer the call asked for, but for the clock a slave
\* holds, which softi2c.c does not wait for; a slave in the same mode samples the bytes meant
\* (softspi.c, spi.c), and a flipped bit never becomes a cell voltage, the check being the
\* chip's own (ltc6804.c).
WiresTrue ==
    /\ which = "softbus" => B!I2cWave /\ B!SpiWave
    /\ which = "ltc6804" => L!CellsTrue /\ L!FramePasses

\* The functions from values to values against their meaning: dates there and back and BCD,
\* nearest millivolts and baud rate divisor, bits of a sample, a controller that moves towards
\* what is lacking, and time left across a wrap of the clock.
ConversionsTrue ==
    /\ which = "convert" => C!DateTrue /\ C!MvNearest /\ C!BytesTrue /\ C!BaudNearest /\ C!PidDirection
    /\ which = "timer" => TM!LeftTrue

\* Lua's data: every key reads back what was last stored under it, next shows every key that
\* stays and ends, a length is a border (ltable.c); the matcher takes the preferred way, gsub
\* and gmatch pass over the string once, sub cuts what it should (lstrlib.c); sorting loses
\* nothing and sorts, remove undoes insert (ltablib.c).
LuaDataTrue ==
    /\ which = "table" => LT!TableTrue /\ LT!TraversalTrue /\ LT!LengthIsBorder
    /\ which = "pattern" => LP!MatchTrue /\ LP!WalkTrue /\ LP!SubTrue
    /\ which = "tablib" => LB!SortTrue /\ LB!InsertUndone

\* Lua's programs: expressions, statements, closures and calls compile to code that computes
\* what the reference evaluator says (lparser.c, lcode.c, lvm.c, ldo.c, lfunc.c); the code
\* passes luaG_checkcode and no assertion fails; what is no program is refused; a chunk loads
\* as it was dumped, for every byte order and size, or is refused, and a dump that fails
\* returns its status or hangs in Align4 (ldump.c, lundump.c).
ProgramsTrue ==
    [][/\ which = "program" /\ LR!Execute => LR!ProgramTrue
       /\ which = "dump" /\ LD!Load => LD!ChunkTrue]_vars

\* Both chains of pointers give the entries of every list in order, and a safe loop visits
\* each once, whatever its body deletes (list.h); a typed line fits its buffer, and a command
\* gets the arguments its line was written from (shell.c).
ListsAndLinesTrue ==
    /\ which = "list" => LL!ListTrue /\ LL!WalkTrue
    /\ which = "shell" => SH!BufferFits /\ SH!ArgvTrue
=============================================================================
